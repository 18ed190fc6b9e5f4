------------------------------- MODULE Console -------------------------------
(***************************************************************************)
(* What the central service keeps besides mocks: its accounts, the fleet of *)
(* instances, the settings and the environments.  Instances and             *)
(* environments are served without a token; accounts, pushes and settings   *)
(* need one of a user who still exists.  The process that serves all of     *)
(* them may stop and start again at any time.                               *)
(***************************************************************************)
EXTENDS Accounts, Fleet, Settings, Environments

CONSTANTS
  MaxRequests  \* bound on the requests served, over all starts of the process

VARIABLES
  served  \* how many have begun

consoleVars == <<accountVars, fleetVars, settingsVars, environmentVars, served>>

Init ==
  /\ AccountsInit /\ FleetInit /\ SettingsInit /\ EnvironmentsInit
  /\ served = 0

\* The bound on requests.
Serves == served < MaxRequests /\ served' = served + 1

SomeoneSignedIn == boot = "serving" /\ \E i \in Id : Present(i)

AccountRequest ==
  /\ Serves
  /\ \E t \in Task, i \in Id :
       CreateUser(t, i) \/ UpdateUser(t, i) \/ DeleteUser(t, i) \/ ChangeOwnPassword(t, i)
  /\ UNCHANGED <<fleetVars, settingsVars, environmentVars>>

InstanceRequest ==
  /\ Serves
  /\ boot = "serving"
  /\ \E c \in Call :
       \/ \E n \in Name : Register(c, n)
       \/ \E i \in Inst : Heartbeat(c, i) \/ Unregister(c, i)
       \/ SomeoneSignedIn /\ \E i \in Inst : PushTo(c, i)
       \/ SomeoneSignedIn /\ PushToAll(c)
  /\ UNCHANGED <<accountVars, settingsVars, environmentVars>>

SettingsRequest ==
  /\ Serves
  /\ SomeoneSignedIn
  /\ \E e \in Edit : EditSettings(e)
  /\ UNCHANGED <<accountVars, fleetVars, environmentVars>>

EnvironmentRequest ==
  /\ Serves
  /\ boot = "serving"
  /\ \E v \in Visit : CreateEnvironment(v) \/ UpdateEnvironment(v) \/ DeleteEnvironment(v)
  /\ UNCHANGED <<accountVars, fleetVars, settingsVars>>

AccountStatement ==
  /\ \E t \in Task :
       \/ InsertUser(t) \/ FindUser(t) \/ WriteUser(t) \/ RemoveUser(t)
       \/ WritePassword(t) \/ Ends(t)
  /\ UNCHANGED <<fleetVars, settingsVars, environmentVars, served>>

Bootstrap ==
  /\ CountsUsers \/ BootFails \/ \E i \in Id : CreatesAdmin(i)
  /\ UNCHANGED <<fleetVars, settingsVars, environmentVars, served>>

FleetStatement(c) ==
  /\ Statement(c)
  /\ UNCHANGED <<accountVars, settingsVars, environmentVars, served>>

FleetAnswer(c) ==
  /\ PushAnswered(c)
  /\ UNCHANGED <<accountVars, settingsVars, environmentVars, served>>

FleetTimeout(c) ==
  /\ PushTimesOut(c)
  /\ UNCHANGED <<accountVars, settingsVars, environmentVars, served>>

SettingsStatement ==
  /\ \E e \in Edit : ReadsSettings(e) \/ WritesSettings(e) \/ EditEnds(e)
  /\ UNCHANGED <<accountVars, fleetVars, environmentVars, served>>

EnvironmentStatement ==
  /\ \E v \in Visit : EnvironmentStep(v)
  /\ UNCHANGED <<accountVars, fleetVars, settingsVars, served>>

\* The process stops; the tables stay, and no request survives.
Restart ==
  /\ Restarts
  /\ call' = [c \in Call |-> NoCall]
  /\ edit' = [e \in Edit |-> NoEdit]
  /\ visit' = [v \in Visit |-> NoVisit]
  /\ UNCHANGED <<instances, registered, mixed, settings, environments, made, served>>

Next ==
  \/ AccountRequest \/ InstanceRequest \/ SettingsRequest \/ EnvironmentRequest
  \/ Bootstrap \/ AccountStatement \/ SettingsStatement \/ EnvironmentStatement
  \/ \E c \in Call : FleetStatement(c) \/ FleetAnswer(c) \/ FleetTimeout(c)
  \/ Restart

\* The database answers the calls about instances, if with an error, and the
\* timer of a push expires; an instance need not answer, nor a client hang up.
Fairness ==
  \A c \in Call : /\ WF_consoleVars(call[c].step # "post" /\ FleetStatement(c))
                 /\ WF_consoleVars(FleetTimeout(c))

ConsoleSpec == Init /\ [][Next]_consoleVars /\ Fairness

-----------------------------------------------------------------------------
\* The rows of settings and environments are read, patched in the process and written
\* back whole: they keep what a request does not name, unless another wrote the row in
\* between; and whatever is deleted and written again meanwhile, a copy keeps its template.
EditsKeepTheRest ==
  [][EditsKeepFields /\ UpdatesKeepParts /\ OriginsStay /\ CopiesHaveTemplates']_consoleVars
=============================================================================
