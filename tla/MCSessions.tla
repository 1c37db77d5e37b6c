----------------------------- MODULE MCSessions -----------------------------
(*****************************************************************************)
(* The components that live with a session of the launcher, checked one      *)
(* beside the other: a behaviour is about one of them, its subject, and      *)
(* leaves the variables of the others alone.                                 *)
(*****************************************************************************)
EXTENDS SingleInstance, LauncherUpdate, LaunchSession, TLC

\* A bound: once two scripts have met no other update is prepared and the power stays on.
Calmer == crossed' => launcher' \notin {"staged", "asking", "stopping"} /\ losses' = losses

VARIABLE subject
vars == <<channelVars, updateVars, sessionVars, subject>>

Init ==
    /\ ChannelInit /\ UpdateInit /\ SessionInit
    /\ subject \in {"channel", "update", "launch"}
    /\ subject # "update" => ~windows /\ launcher = "running"

Next ==
    /\ UNCHANGED subject
    /\ \/ /\ subject = "channel" /\ ChannelNext
          /\ UNCHANGED <<updateVars, sessionVars>>
       \/ /\ subject = "update" /\ (UpdateNext /\ Calmer)
          /\ UNCHANGED <<channelVars, sessionVars>>
       \/ /\ subject = "launch" /\ SessionNext
          /\ UNCHANGED <<channelVars, updateVars>>

Spec ==
    /\ Init /\ [][Next]_vars
    /\ \A p \in Starter : WF_channelVars(subject = "channel" /\ (BecomeOwner(p) \/ StartServer(p) \/ Connect(p) \/ ConnectFails(p)
                \/ AnswerMissed(p)))
    /\ WF_channelVars(subject = "channel" /\ (AcceptRequest \/ RejectFull))
    /\ WF_channelVars(subject = "channel" /\ DrainRequests)
    /\ WF_channelVars(subject = "channel" /\ HandleRequest)
    /\ WF_updateVars(subject = "update" /\ (\E s \in Script : OpenLauncher(s)))
    /\ \A s \in Script : WF_updateVars(subject = "update" /\ ScriptStep(s))
    /\ WF_updateVars(subject = "update" /\ launcher \in {"leaving", "stopping"} /\ LauncherExits)
    /\ WF_sessionVars(subject = "launch" /\ OpStep)
    /\ SF_sessionVars(subject = "launch" /\ Sync)
    /\ \A g \in Games : WF_sessionVars(subject = "launch" /\ Exit(g))
    /\ SF_sessionVars(subject = "launch" /\ SyncRecovers)
    /\ SF_sessionVars(subject = "launch" /\ Recover)
    /\ SF_sessionVars(subject = "launch" /\ PlanChanges)
    /\ SF_sessionVars(subject = "launch" /\ Apply)
    /\ SF_sessionVars(subject = "launch" /\ Commit)

\* Every variable of the subject has its type; the others keep their values.
SessionsTypeOK ==
    /\ subject = "channel" => ChannelTypeOK
    /\ subject = "update" => UpdateTypeOK
    /\ subject = "launch" => SessionTypeOK
=============================================================================
