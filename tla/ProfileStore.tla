---------------------------- MODULE ProfileStore ----------------------------
(***************************************************************************)
(* The profiles of storage/profile_store.py and the refresh of their       *)
(* credentials in core/auth/auth.py.  The access and the refresh token of  *)
(* a profile are created, encrypted and dropped together: they are one     *)
(* credential, of which `form` says how the file holds it and `number`     *)
(* which answer of the server it is.  The file and the memory agree after  *)
(* every operation: a write that failed changes neither.                   *)
(***************************************************************************)
EXTENDS Integers, FiniteSets

CONSTANTS Account, Refresher, MaxCredential, NoAccount

\* The older launcher has left one credential.
ASSUME CredentialAssumption == MaxCredential \in Nat \ {0}

VARIABLES profiles,    \* the file: NoProfile or a record for each account
          keyReadable, \* cipher_suite could be made when the store was opened
          issued,      \* credentials the server has issued
          spent,       \* credentials replaced by a refresh that was saved
          refresher    \* one record for each thread in refresh_access_token

profileVars == <<profiles, keyReadable, issued, spent, refresher>>

\* "primary" and "legacy" name the key of an encrypted token; the key of a
\* "lost" one no longer exists.
Forms == {"none", "offline", "plain", "primary", "legacy", "lost"}
Profile == [form: Forms, number: 0..MaxCredential, default: BOOLEAN,
            reauth: BOOLEAN, fresh: BOOLEAN]
NoProfile == [form |-> "absent"]

Present(a) == profiles[a] # NoProfile
IsEncrypted(p) == p.form \in {"primary", "legacy", "lost"}
Decryptable(p) == p.form = "legacy" \/ (p.form = "primary" /\ keyReadable)

ProfileTypeOK ==
    /\ profiles \in [Account -> Profile \union {NoProfile}]
    /\ keyReadable \in BOOLEAN
    /\ issued \in 0..MaxCredential
    /\ spent \subseteq 1..issued
    /\ refresher \in [Refresher ->
           [account: Account \union {NoAccount}, step: {"idle", "waiting", "asking"},
            force: BOOLEAN, number: 0..MaxCredential]]

Idle == [account |-> NoAccount, step |-> "idle", force |-> FALSE, number |-> 0]

-----------------------------------------------------------------------------
Deprived(p) == [p EXCEPT !.form = "none", !.number = 0, !.reauth = TRUE]

\* _encrypt_data of decrypted tokens; without the key they are dropped.
Secured(p) == IF keyReadable THEN [p EXCEPT !.form = "primary"] ELSE Deprived(p)

\* edit_profile with no token in the new data: what cannot be decrypted is
\* kept as it is, but for a plain text the migration could not replace.
Kept(p) ==
    IF p.form \in {"none", "offline"} THEN p
    ELSE IF Decryptable(p) THEN Secured(p)
    ELSE IF IsEncrypted(p) THEN [p EXCEPT !.reauth = TRUE]
    ELSE Deprived(p)

\* One profile as _migrate_profiles leaves it.
Migrated(p, readable) ==
    IF p.form = "plain"
    THEN IF readable THEN [p EXCEPT !.form = "primary"] ELSE Deprived(p)
    ELSE IF p.form = "legacy" /\ readable THEN [p EXCEPT !.form = "primary"]
    ELSE p

\* The only profile is the default one.
SoleIsDefault(table) ==
    LET present == {a \in Account : table[a] # NoProfile}
    IN  [a \in Account |-> IF present = {a} THEN [table[a] EXCEPT !.default = TRUE]
                           ELSE table[a]]

\* The file as an older launcher has left it.
ProfileInit ==
    /\ \E form \in {"plain", "legacy"}, known \in Account :
          profiles = [a \in Account |-> IF a = known
              THEN [form |-> form, number |-> 1, default |-> TRUE,
                    reauth |-> FALSE, fresh |-> FALSE]
              ELSE NoProfile]
    /\ keyReadable = FALSE
    /\ issued = 1
    /\ spent = {}
    /\ refresher = [r \in Refresher |-> Idle]

\* The store of the next process: the key file is read, unreadable, or
\* replaced by a new one; the file of the profiles may be corrupted; the
\* migrated table may not be written.
OpenProfiles ==
    /\ \A r \in Refresher : refresher[r] = Idle
    /\ \E readable, replaced, corrupted, written \in BOOLEAN :
          /\ replaced => readable
          /\ keyReadable' = readable
          /\ LET loaded == [a \in Account |->
                     IF corrupted \/ ~Present(a) THEN NoProfile
                     ELSE IF replaced /\ profiles[a].form = "primary"
                     THEN [profiles[a] EXCEPT !.form = "lost"]
                     ELSE profiles[a]]
                 migrated == SoleIsDefault([a \in Account |->
                     IF loaded[a] = NoProfile THEN NoProfile
                     ELSE Migrated(loaded[a], readable)])
             IN  profiles' = IF written THEN migrated ELSE loaded
    /\ UNCHANGED <<issued, spent, refresher>>

NotDefault(p) == IF p = NoProfile THEN p ELSE [p EXCEPT !.default = FALSE]

\* create_profile with the answer of a login, which also replaces a profile
\* of the same name.
CreateProfile(a) ==
    /\ issued < MaxCredential
    /\ issued' = issued + 1
    /\ \/ LET new == [form |-> "plain", number |-> issued + 1, default |-> TRUE,
                      reauth |-> FALSE, fresh |-> TRUE]
          IN  profiles' = [b \in Account |-> IF b = a THEN Secured(new)
                                             ELSE NotDefault(profiles[b])]
       \/ UNCHANGED profiles
    /\ UNCHANGED <<keyReadable, spent, refresher>>

CreateOfflineProfile(a) ==
    /\ profiles' = [b \in Account |->
           IF b = a THEN [form |-> "offline", number |-> 0, default |-> TRUE,
                          reauth |-> FALSE, fresh |-> FALSE]
           ELSE NotDefault(profiles[b])]
    /\ UNCHANGED <<keyReadable, issued, spent, refresher>>

\* edit_profile of the user, a skin for instance.
EditProfile(a) ==
    /\ Present(a)
    /\ profiles' = [profiles EXCEPT ![a] = Kept(@)]
    /\ UNCHANGED <<keyReadable, issued, spent, refresher>>

DeleteProfile(a) ==
    /\ Present(a)
    /\ profiles' = SoleIsDefault([profiles EXCEPT ![a] = NoProfile])
    /\ UNCHANGED <<keyReadable, issued, spent, refresher>>

SetDefaultProfile(a) ==
    /\ Present(a)
    /\ profiles' = [b \in Account |-> IF profiles[b] = NoProfile THEN NoProfile
                                      ELSE [profiles[b] EXCEPT !.default = b = a]]
    /\ UNCHANGED <<keyReadable, issued, spent, refresher>>

-----------------------------------------------------------------------------
\* profile_requires_reauth of the decrypted profile.
RequiresReauth(p) ==
    p.form # "offline" /\ (p.reauth \/ ~Decryptable(p))

\* _mark_profile_reauth: nothing is created for a deleted profile, and the
\* write may fail.
MarkReauth(a) ==
    \/ /\ Present(a)
       /\ profiles' = [profiles EXCEPT ![a] =
              IF @.form = "offline" THEN [@ EXCEPT !.reauth = TRUE]
              ELSE [Kept(@) EXCEPT !.reauth = TRUE]]
    \/ UNCHANGED profiles

\* The time passes for an access token.
TokenExpires(a) ==
    /\ Present(a)
    /\ profiles[a].fresh
    /\ profiles' = [profiles EXCEPT ![a].fresh = FALSE]
    /\ UNCHANGED <<keyReadable, issued, spent, refresher>>

\* ensure_profile_authorized, or verify() after a 401, on the profile read
\* now, up to the lock.
BeginRefresh(r, a) ==
    /\ refresher[r] = Idle
    /\ Present(a) /\ profiles[a].form # "offline"
    /\ \E force \in BOOLEAN :
          \/ /\ RequiresReauth(profiles[a])
             /\ MarkReauth(a)
             /\ UNCHANGED refresher
          \/ /\ ~RequiresReauth(profiles[a])
             /\ force \/ ~profiles[a].fresh
             /\ refresher' = [refresher EXCEPT ![r] =
                    [account |-> a, step |-> "waiting", force |-> force,
                     number |-> profiles[a].number]]
             /\ UNCHANGED profiles
    /\ UNCHANGED <<keyReadable, issued, spent>>

RefreshLockFree == \A r \in Refresher : refresher[r].step # "asking"

EnterRefresh_NotReread(r) ==
    /\ refresher[r].step = "waiting"
    /\ RefreshLockFree
    /\ refresher' = [refresher EXCEPT ![r].step = "asking"]
    /\ UNCHANGED <<profiles, keyReadable, issued, spent>>

\* Under _refresh_lock the profile is read again, and a deleted one is
\* replaced by the one read before.
EnterRefresh(r) ==
    LET a == refresher[r].account
        Done == refresher' = [refresher EXCEPT ![r] = Idle]
    IN  /\ refresher[r].step = "waiting"
        /\ RefreshLockFree
        /\ \/ /\ ~Present(a)
              /\ refresher' = [refresher EXCEPT ![r].step = "asking"]
              /\ UNCHANGED profiles
           \/ /\ Present(a)
              /\ LET fresh == Decryptable(profiles[a]) /\ profiles[a].fresh
                              /\ ~refresher[r].force
                     refused == RequiresReauth(profiles[a]) \/ profiles[a].form = "offline"
                 IN  \/ fresh /\ Done /\ UNCHANGED profiles
                     \/ ~fresh /\ refused /\ Done /\ MarkReauth(a)
                     \/ /\ ~fresh /\ ~refused
                        /\ refresher' = [refresher EXCEPT ![r].step = "asking",
                                             ![r].number = profiles[a].number]
                        /\ UNCHANGED profiles
        /\ UNCHANGED <<keyReadable, issued, spent>>

Refreshed(p) == Secured([p EXCEPT !.form = "plain", !.number = issued + 1,
                                  !.reauth = FALSE, !.fresh = TRUE])

\* The answer of the server is saved by edit_profile; a deleted profile, or
\* a failing write, loses it.
RefreshAnswered(r) ==
    LET a == refresher[r].account
    IN  /\ refresher[r].step = "asking"
        /\ issued < MaxCredential
        /\ issued' = issued + 1
        /\ \/ /\ Present(a)
              /\ profiles' = [profiles EXCEPT ![a] = Refreshed(@)]
              /\ spent' = spent \union {refresher[r].number}
           \/ UNCHANGED <<profiles, spent>>
        /\ refresher' = [refresher EXCEPT ![r] = Idle]
        /\ UNCHANGED keyReadable

\* A network error leaves the profile, a rejected token marks it.
RefreshRefused(r) ==
    /\ refresher[r].step = "asking"
    /\ MarkReauth(refresher[r].account)
    /\ refresher' = [refresher EXCEPT ![r] = Idle]
    /\ UNCHANGED <<keyReadable, issued, spent>>

ProfileNext ==
    \/ OpenProfiles
    \/ \E a \in Account :
          \/ CreateProfile(a) \/ CreateOfflineProfile(a) \/ EditProfile(a)
          \/ DeleteProfile(a) \/ SetDefaultProfile(a) \/ TokenExpires(a)
          \/ \E r \in Refresher : BeginRefresh(r, a)
    \/ \E r \in Refresher :
          EnterRefresh(r) \/ RefreshAnswered(r) \/ RefreshRefused(r)

ProfileSpec == ProfileInit /\ [][ProfileNext]_profileVars

-----------------------------------------------------------------------------
\* Whatever happens to the keys, the launcher never writes a token as plain
\* text: what is plain in the file was left there by an older launcher.
PlaintextNeverWritten ==
    [][\A a \in Account :
          profiles'[a].form = "plain" => profiles[a] = profiles'[a] \/ profiles[a].form = "plain"]_profileVars

\* The credentials of an account outlive every operation that is not about
\* them: only a login, a deletion, a refresh, a corrupted file, or a key that
\* cannot be read while they are in the legacy form takes them away.
TokensKept ==
    [][\A a \in Account :
          (/\ Present(a) /\ IsEncrypted(profiles[a])
           /\ EditProfile(a) \/ \E r \in Refresher :
                 BeginRefresh(r, a) \/ EnterRefresh(r) \/ RefreshRefused(r))
          => \/ IsEncrypted(profiles'[a]) /\ profiles'[a].number = profiles[a].number
             \/ profiles[a].form = "legacy" /\ ~keyReadable]_profileVars

\* A refresh that was on its way when its profile was deleted does not bring
\* the account back.
DeletedStaysDeleted ==
    [][\A a \in Account :
          ~Present(a) /\ profiles'[a] # NoProfile
          => \A r \in Refresher : refresher'[r] = refresher[r]]_profileVars

\* Of the threads that refresh one account at a time, the second asks with
\* the credential the first has saved, never with the one it replaced.
SpentNeverPresented ==
    [][\A r \in Refresher :
          refresher[r].step = "waiting" /\ refresher'[r].step = "asking"
          => refresher'[r].number \notin spent \/ ~Present(refresher[r].account)]_profileVars

\* Tokens are neither written in plain nor lost on the way, and a refresh works
\* on the account as it is when its turn comes, not as it was when it was asked
\* for (_encrypt_data, _preserve_failed_token_values, refresh_access_token).
CredentialsAreKept ==
    PlaintextNeverWritten /\ TokensKept /\ DeletedStaysDeleted /\ SpentNeverPresented
=============================================================================
