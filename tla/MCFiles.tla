------------------------------- MODULE MCFiles -------------------------------
(*****************************************************************************)
(* The components that bring files to their places, checked one beside the   *)
(* other: a behaviour is about one of them, its subject, and leaves the      *)
(* variables of the others alone.                                            *)
(*****************************************************************************)
EXTENDS WorldRestore, Downloader, ModDependencies, InstanceLease, SignIn, TLC

\* Three threads of one launcher and one of another.
CONSTANTS w1, w2, w3, w4, p1, p2
MCHome == (w1 :> p1) @@ (w2 :> p1) @@ (w3 :> p1) @@ (w4 :> p2)

\* Two releases of the main project and of a library, one of Fabric's API; what
\* releases declare: nothing, any release, an exact one, two that conflict, the
\* API, an exclusion, the main project in another release, circles.
Needs(p, exact) == [to |-> p, exact |-> exact, kind |-> "required"]
MCOffered == <<{1, 2}, {1, 2}, {2}>>
MCLists ==
    {<<>>, <<Needs(2, 0)>>, <<Needs(2, 1)>>, <<Needs(2, 0), Needs(2, 2)>>, <<Needs(3, 0)>>,
     <<Needs(2, 0), Needs(3, 0)>>, <<Needs(3, 0), [to |-> 2, exact |-> 2, kind |-> "incompatible"]>>,
     <<[to |-> 2, exact |-> 0, kind |-> "optional"], Needs(1, 1)>>, <<Needs(3, 1), Needs(1, 0)>>}
MCInventories == {<<0, 0, 0>>, <<0, 1, 0>>, <<0, 1, 1>>}

\* What has been begun comes to an end, whatever the server, the disk and the player do
\* or leave undone: an interrupted restoration is settled by the next ones, a download
\* runs out of retries, a plan comes to the same releases again, and a sign-in runs out of
\* time.
RequestsEnd == RestoreSettles /\ DownloadEnds /\ PlanEnds /\ SignInEnds

VARIABLE subject
vars == <<restoreVars, downloadVars, planVars, leaseVars, signInVars,
          subject>>

Init ==
    /\ RestoreInit /\ DownloadInit /\ PlanInit /\ LeaseInit /\ SignInInit
    /\ subject \in {"restore", "download", "plan", "lease", "account"}
    /\ subject # "restore" => live = [w \in Worlds |-> 0]
    /\ subject # "download" => dest = <<>> /\ tagged /\ mishap = {}
    /\ subject # "plan" => ~implicit /\ catalogue[Main] = <<>> /\ inventory = None0

Next ==
    /\ UNCHANGED subject
    /\ \/ /\ subject = "restore" /\ RestoreNext
          /\ UNCHANGED <<downloadVars, planVars, leaseVars, signInVars>>
       \/ /\ subject = "download" /\ DownloadNext
          /\ UNCHANGED <<restoreVars, planVars, leaseVars, signInVars>>
       \/ /\ subject = "plan" /\ PlanNext
          /\ UNCHANGED <<restoreVars, downloadVars, leaseVars, signInVars>>
       \/ /\ subject = "lease" /\ LeaseNext
          /\ UNCHANGED <<restoreVars, downloadVars, planVars, signInVars>>
       \/ /\ subject = "account" /\ SignInNext
          /\ UNCHANGED <<restoreVars, downloadVars, planVars, leaseVars>>

Spec ==
    /\ Init /\ [][Next]_vars
    /\ WF_restoreVars(subject = "restore" /\ (Recovery \/ Restoring))
    /\ WF_restoreVars(subject = "restore" /\ (\E w \in Worlds : Restore(w)))
    /\ WF_downloadVars(subject = "download" /\ DownloadStep)
    /\ WF_planVars(subject = "plan" /\ PlanNext)
    /\ \A w \in Workers : WF_leaseVars(subject = "lease" /\ (Enter(w) \/ FailToEnter(w)))
    /\ \A w \in Workers : WF_leaseVars(subject = "lease" /\ Unpin(w))
    /\ \A w \in Workers : WF_leaseVars(subject = "lease" /\ Release(w))
    /\ WF_signInVars(subject = "account" /\ SignInGoesOn)
    /\ WF_signInVars(subject = "account" /\ ClockGoesOn)

\* Every variable of the subject has its type; the others keep their values.
FilesTypeOK ==
    /\ subject = "restore" => RestoreTypeOK
    /\ subject = "download" => DownloadTypeOK
    /\ subject = "plan" => PlanTypeOK
    /\ subject = "lease" => LeaseTypeOK
    /\ subject = "account" => SignInTypeOK
=============================================================================
