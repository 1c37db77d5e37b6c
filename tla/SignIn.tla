-------------------------------- MODULE SignIn --------------------------------
(***************************************************************************)
(* Signing in to a Microsoft account: Auth.authenticate of                 *)
(* core/auth/auth.py with its loopback receiver and the fallback on a      *)
(* device code, the dialog of core/auth/device_ui.py, and the page of the  *)
(* accounts, pages/profiles.py.  What happens to saved tokens later is in  *)
(* ProfileStore.                                                           *)
(*                                                                         *)
(* Each sign-in is a thread of its own, begun by an instance of the page;  *)
(* leaving the page and coming back makes another instance.  The browser   *)
(* keeps its tabs: one of an earlier sign-in may call the receiver of a    *)
(* later one.  Microsoft binds a code to the verifier of its own sign-in.  *)
(***************************************************************************)
EXTENDS Integers, FiniteSets

CONSTANTS SignIns,      \* the sign-ins, 1..n in the order they are begun
          Accounts,     \* the accounts the player can choose
          MaxPages      \* bound on the instances of the page

ASSUME SignInAssumption ==
    /\ SignIns \subseteq Nat \ {0} /\ MaxPages \in Nat \ {0}
    /\ Accounts \cap {"none", "declined"} = {}

VARIABLES
    authLock,   \* Auth._auth_lock: the sign-in that holds it, 0 if none
    flow,       \* each sign-in: its step, its page, what it has got so far
    status,     \* last_auth_status
    receiver,   \* OAuthLoopbackReceiver: whose it is, its result and event
    handlers,   \* the callbacks it has not judged yet
    tabs,       \* the tabs the browser shows, by the sign-in of their state
    answers,    \* Microsoft: what the player has answered to each sign-in
    dialogs,    \* the device dialogs on the screen
    cancelled,  \* the sign-ins whose cancel_event is set
    page,       \* the instance of the page, what it shows and whether it waits
    saved       \* the profiles: the accounts that are signed in

signInVars == <<authLock, flow, status, receiver, handlers, tabs, answers,
                dialogs, cancelled, page, saved>>

NoAnswer == "none"
Answers == Accounts \cup {NoAnswer, "declined"}
Unbegun == [step |-> "unused", page |-> 0, code |-> 0, account |-> NoAnswer,
            late |-> FALSE]
Deaf == [of |-> 0, tab |-> 0, error |-> FALSE, event |-> FALSE]
Ended == {"busy", "ok", "timeout", "cancelled", "denied", "unavailable", "error"}
AtWork == {"listen", "browse", "wait", "take", "exchange", "ask", "poll", "posted", "save"}

SignInTypeOK ==
    /\ authLock \in SignIns \cup {0}
    /\ flow \in [SignIns -> [step : {"unused", "asked"} \cup AtWork \cup Ended \cup {"returned"},
                             page : 0..MaxPages, code : SignIns \cup {0}, account : Answers,
                             late : BOOLEAN]]
    /\ status \in Ended \cup {"none", "browser_code_started", "device_code_started"}
    /\ receiver \in [of : SignIns \cup {0}, tab : SignIns \cup {0}, error : BOOLEAN, event : BOOLEAN]
    /\ handlers \cup tabs \cup dialogs \cup cancelled \subseteq SignIns
    /\ answers \in [SignIns -> Answers]
    /\ page \in [nr : 1..MaxPages, waits : BOOLEAN, shown : SUBSET Accounts]
    /\ saved \subseteq Accounts

\* A new instance of the page, with the profiles it reads.
OpenedPage(nr, accounts) == [nr |-> nr, waits |-> FALSE, shown |-> accounts]

SignInInit ==
    /\ authLock = 0
    /\ flow = [s \in SignIns |-> Unbegun]
    /\ status = "none"
    /\ receiver = Deaf /\ handlers = {} /\ tabs = {}
    /\ answers = [s \in SignIns |-> NoAnswer]
    /\ dialogs = {} /\ cancelled = {}
    /\ page = OpenedPage(1, {})
    /\ saved = {}

-----------------------------------------------------------------------------
\* add_microsoft_profile: one at a time on each instance of the page.
AddMicrosoftProfile(s) ==
    /\ ~page.waits
    /\ flow[s] = Unbegun /\ \A r \in SignIns : r < s => flow[r] # Unbegun
    /\ page' = [page EXCEPT !.waits = TRUE]
    /\ flow' = [flow EXCEPT ![s].step = "asked", ![s].page = page.nr]
    /\ UNCHANGED <<authLock, status, receiver, handlers, tabs, answers, dialogs, cancelled, saved>>

Refreshed(accounts) == [page EXCEPT !.waits = FALSE, !.shown = accounts]

\* What the page that began it shows when the result comes; a page that is
\* closed is left alone.
PageAfter(s) == IF flow[s].page = page.nr THEN Refreshed(saved) ELSE page

\* _add_microsoft_profile_async goes on.
SignInReturns(s) ==
    /\ flow[s].step \in Ended
    /\ flow' = [flow EXCEPT ![s].step = "returned"]
    /\ page' = PageAfter(s)
    /\ UNCHANGED <<authLock, status, receiver, handlers, tabs, answers, dialogs, cancelled, saved>>

\* before_hide, and a new instance that reads the profiles.
LeaveAndReturn ==
    /\ page.nr < MaxPages
    /\ page' = OpenedPage(page.nr + 1, saved)
    /\ UNCHANGED <<authLock, flow, status, receiver, handlers, tabs, answers, dialogs, cancelled, saved>>

\* confirm_delete_profile of a card; it may fail, and the list is read again.
DeleteAccount(a) ==
    /\ a \in page.shown
    /\ \/ saved' = saved \ {a}
       \/ UNCHANGED saved
    /\ page' = [page EXCEPT !.shown = saved']
    /\ UNCHANGED <<authLock, flow, status, receiver, handlers, tabs, answers, dialogs, cancelled>>

-----------------------------------------------------------------------------
Go(s, step) == flow' = [flow EXCEPT ![s].step = step]

\* The end of _run_auth_flow: the receiver is closed on the way, the lock
\* given back, and the dialog stays, for what close_dialog is given is not it.
EndFlow(s, outcome) ==
    /\ Go(s, outcome)
    /\ status' = outcome
    /\ authLock' = 0
    /\ receiver' = Deaf /\ handlers' = {}

Keeps == UNCHANGED <<authLock, status, receiver, handlers>>

\* The lock is not waited for; the loser overwrites the status of the winner.
TryLock(s) ==
    /\ flow[s].step = "asked"
    /\ IF authLock # 0
       THEN Go(s, "busy") /\ status' = "busy" /\ UNCHANGED authLock
       ELSE Go(s, "listen") /\ status' = "browser_code_started" /\ authLock' = s
    /\ UNCHANGED <<receiver, handlers, tabs, answers, dialogs, cancelled, page, saved>>

\* AuthFlowUnavailable: on to _authenticate_with_device_code.
FallBack(s) ==
    /\ Go(s, "ask")
    /\ status' = "device_code_started"
    /\ receiver' = Deaf /\ handlers' = {}
    /\ UNCHANGED authLock

\* A receiver that has heard nothing yet.
Listening(s) == [Deaf EXCEPT !.of = s]

\* The port may belong to another program.
StartReceiver(s) ==
    /\ flow[s].step = "listen"
    /\ \/ Go(s, "browse") /\ receiver' = Listening(s)
          /\ UNCHANGED <<authLock, status, handlers>>
       \/ FallBack(s)
    /\ UNCHANGED <<tabs, answers, dialogs, cancelled, page, saved>>

\* The system shows the page in a tab.
BrowserOpens(s) == tabs' = tabs \cup {s}

\* open_url of the login page; no browser may open.
OpenBrowser(s) ==
    /\ flow[s].step = "browse"
    /\ \/ Go(s, "wait") /\ BrowserOpens(s) /\ Keeps
       \/ FallBack(s) /\ UNCHANGED tabs
    /\ UNCHANGED <<answers, dialogs, cancelled, page, saved>>

\* The player answers in a tab, with an account or a refusal; the tab then
\* calls the port, where the receiver of any sign-in may listen, or none.
AnswerInTab(t, a) ==
    /\ t \in tabs
    /\ tabs' = tabs \ {t}
    /\ answers' = [answers EXCEPT ![t] = a]
    /\ IF receiver.of # 0
       THEN /\ receiver' = [receiver EXCEPT !.tab = t, !.error = a = "declined"]
            /\ handlers' = handlers \cup {t}
       ELSE UNCHANGED <<receiver, handlers>>
    /\ UNCHANGED <<authLock, flow, status, dialogs, cancelled, page, saved>>

\* Every login request has a state of its own, which its tab sends back.
StateMatches == receiver.tab = receiver.of

\* The handler goes on: it judges the state of the result that is there now,
\* which a second callback may have replaced, and sets the event.
JudgeCallback(t) ==
    /\ t \in handlers
    /\ handlers' = handlers \ {t}
    /\ receiver' = [receiver EXCEPT !.error = @ \/ ~StateMatches, !.event = TRUE]
    /\ UNCHANGED <<authLock, flow, status, tabs, answers, dialogs, cancelled, page, saved>>

\* wait_for_code looks for an error ...
WaitEnds(s) ==
    /\ flow[s].step = "wait"
    /\ IF ~receiver.event THEN EndFlow(s, "timeout")
       ELSE IF ~receiver.error THEN Go(s, "take") /\ Keeps
       ELSE \/ answers[receiver.tab] = "declined" /\ EndFlow(s, "denied")
            \/ answers[receiver.tab] # "declined" /\ EndFlow(s, "error")
    /\ UNCHANGED <<tabs, answers, dialogs, cancelled, page, saved>>

\* ... and takes the code of the result that is there now.
TakeCode(s) ==
    /\ flow[s].step = "take"
    /\ IF answers[receiver.tab] = "declined"
       THEN EndFlow(s, "error")
       ELSE flow' = [flow EXCEPT ![s].step = "exchange", ![s].code = receiver.tab] /\ Keeps
    /\ UNCHANGED <<tabs, answers, dialogs, cancelled, page, saved>>

Redeemable_Anyones(s) == flow[s].code # 0

\* The verifier that _exchange_authorization_code sends is the sign-in's own.
Redeemable(s) == flow[s].code = s

ExchangeCode(s) ==
    /\ flow[s].step = "exchange"
    /\ \/ /\ Redeemable(s)
          /\ flow' = [flow EXCEPT ![s].step = "save", ![s].account = answers[flow[s].code]]
          /\ Keeps
       \/ EndFlow(s, "error")
    /\ UNCHANGED <<tabs, answers, dialogs, cancelled, page, saved>>

-----------------------------------------------------------------------------
\* The dialog shows the code and cancels its sign-in when it is dismissed.
OpenDialog(s) == dialogs' = dialogs \cup {s}

\* A device code comes, or not; the dialog opens and a tab with it, whose
\* answer goes to Microsoft alone.
AskDeviceCode(s) ==
    /\ flow[s].step = "ask"
    /\ \/ Go(s, "poll") /\ OpenDialog(s) /\ Keeps
       \/ EndFlow(s, "error") /\ UNCHANGED dialogs
    /\ UNCHANGED <<tabs, answers, cancelled, page, saved>>

AnswerDevice(s, a) ==
    /\ flow[s].step \in {"poll", "posted"}
    /\ answers[s] = NoAnswer
    /\ answers' = [answers EXCEPT ![s] = a]
    /\ UNCHANGED <<authLock, flow, status, receiver, handlers, tabs, dialogs, cancelled, page, saved>>

\* Cancel or dismissal of a dialog, which may be that of an ended sign-in.
CancelDialog(s) ==
    /\ s \in dialogs
    /\ dialogs' = dialogs \ {s}
    /\ cancelled' = cancelled \cup {s}
    /\ UNCHANGED <<authLock, flow, status, receiver, handlers, tabs, answers, page, saved>>

\* _poll_device_code_tokens: the deadline and the event before each request.
Poll(s) ==
    /\ flow[s].step = "poll"
    /\ IF flow[s].late THEN EndFlow(s, "error")
       ELSE IF s \in cancelled THEN EndFlow(s, "cancelled")
       ELSE Go(s, "posted") /\ Keeps
    /\ UNCHANGED <<tabs, answers, dialogs, cancelled, page, saved>>

DeadlinePasses(s) ==
    /\ flow[s].step \in {"poll", "posted"} /\ ~flow[s].late
    /\ flow' = [flow EXCEPT ![s].late = TRUE]
    /\ Keeps
    /\ UNCHANGED <<tabs, answers, dialogs, cancelled, page, saved>>

PollAnswered_Extends(s) ==
    /\ flow[s].step = "posted"
    /\ \/ /\ answers[s] = NoAnswer
          /\ flow' = [flow EXCEPT ![s].step = "poll", ![s].late = FALSE]
          /\ Keeps
       \/ answers[s] = "declined" /\ EndFlow(s, "denied")
       \/ /\ answers[s] \in Accounts
          /\ flow' = [flow EXCEPT ![s].step = "save", ![s].account = answers[s]]
          /\ Keeps
       \/ EndFlow(s, "error")
    /\ UNCHANGED <<tabs, answers, dialogs, cancelled, page, saved>>

\* authorization_pending and slow_down poll again.
PollAnswered(s) ==
    /\ flow[s].step = "posted"
    /\ \/ answers[s] = NoAnswer /\ Go(s, "poll") /\ Keeps
       \/ answers[s] = "declined" /\ EndFlow(s, "denied")
       \/ /\ answers[s] \in Accounts
          /\ flow' = [flow EXCEPT ![s].step = "save", ![s].account = answers[s]]
          /\ Keeps
       \/ EndFlow(s, "error")
    /\ UNCHANGED <<tabs, answers, dialogs, cancelled, page, saved>>

\* The profile is built from the answers of Xbox and Minecraft and created.
SaveProfile(s) ==
    /\ flow[s].step = "save"
    /\ \/ EndFlow(s, "ok") /\ saved' = saved \cup {flow[s].account}
       \/ \E outcome \in {"unavailable", "error"} : EndFlow(s, outcome) /\ UNCHANGED saved
    /\ UNCHANGED <<tabs, answers, dialogs, cancelled, page>>

SignInStep(s) ==
    \/ TryLock(s) \/ StartReceiver(s) \/ OpenBrowser(s) \/ WaitEnds(s) \/ TakeCode(s)
    \/ ExchangeCode(s) \/ AskDeviceCode(s) \/ Poll(s) \/ PollAnswered(s) \/ SaveProfile(s)

SignInNext ==
    \/ \E s \in SignIns : AddMicrosoftProfile(s) \/ SignInReturns(s) \/ SignInStep(s)
                          \/ DeadlinePasses(s) \/ JudgeCallback(s) \/ CancelDialog(s)
    \/ \E s \in SignIns, a \in Answers \ {NoAnswer} : AnswerInTab(s, a) \/ AnswerDevice(s, a)
    \/ LeaveAndReturn
    \/ \E a \in Accounts : DeleteAccount(a)

\* The threads go on, the clock passes the deadline and results reach the
\* page; the player need not answer.
SignInGoesOn == \E s \in SignIns : SignInStep(s) \/ SignInReturns(s)
ClockGoesOn == \E s \in SignIns : DeadlinePasses(s)

SignInSpec ==
    SignInInit /\ [][SignInNext]_signInVars
    /\ WF_signInVars(SignInGoesOn) /\ WF_signInVars(ClockGoesOn)

-----------------------------------------------------------------------------
\* An account is signed in only by the sign-in in which the player chose it:
\* not by the tab of an earlier one, nor by a callback that replaces another
\* while it is read (OAuthLoopbackReceiver, _exchange_authorization_code).
OwnAccountOnly ==
    [][\A a \in saved' \ saved : answers[authLock] = a]_signInVars

\* Only one sign-in works, with the only receiver, and none ends without
\* giving both back; the others are told "busy" (_run_auth_flow).
OneAtATime ==
    \A s \in SignIns :
        /\ flow[s].step \in AtWork <=> authLock = s
        /\ receiver.of \in {0, authLock}

\* The page shows what is signed in, except for what a sign-in of an earlier
\* instance brings, and while the result of its own is under way.
PageIsTrue ==
    \A a \in (saved \ page.shown) \cup (page.shown \ saved) :
        \E s \in SignIns : /\ flow[s].account = a
                           /\ flow[s].step # "returned" \/ flow[s].page # page.nr

\* A sign-in brings the account of the one who asked for it to a page that knows
\* of it, with the only receiver (authenticate, add_microsoft_profile).
SignInIsSafe == OwnAccountOnly /\ [](OneAtATime /\ PageIsTrue)

\* Every sign-in comes back, whatever the player does or leaves undone, and
\* the page can begin another one (AUTH_CODE_TIMEOUT_SEC, expires_in).
SignInEnds ==
    (\E s \in SignIns : flow[s].step \notin {"unused", "returned"})
        ~> ~page.waits /\ \A s \in SignIns : flow[s].step \in {"unused", "returned"}
=============================================================================
