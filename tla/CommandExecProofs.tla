-------------------------- MODULE CommandExecProofs --------------------------
(***************************************************************************)
(* Theorems about CommandExec, for commands with any set of processes.     *)
(***************************************************************************)
EXTENDS CommandExec, TLAPS

(* What the properties need of the phases: nothing was signalled before    *)
(* the program was started, its id is kept until the last phase, and past  *)
(* _kill_process_group the leader is dead or about to be.                  *)
Phase ==
    /\ pc = "start" => signal = "none"
    /\ reaped => pc \in {"drain", "done"}
    /\ pc \notin {"start", "done"} => state[Leader] # "unborn"
    /\ pc \in {"wait", "drain"} => state[Leader] \in {"killed", "dead"}

IInv ==
    /\ TypeOK
    /\ Phase
    /\ SignalsReachGroup
    /\ ReportedLeaderEnds

LEMMA InitHolds == Init => IInv
  <1> SUFFICES ASSUME Init PROVE IInv
    OBVIOUS
  <1>1. TypeOK
    BY DEF Init, TypeOK, In
  <1>2. Phase /\ SignalsReachGroup /\ ReportedLeaderEnds
    BY DEF Init, Phase, SignalsReachGroup, ReportedLeaderEnds, Stopped
  <1> QED
    BY <1>1, <1>2 DEF IInv

-----------------------------------------------------------------------------
(* The command.                                                            *)

LEMMA ForkHolds ==
    ASSUME IInv, NEW p \in Process, NEW c \in Child, Fork(p, c)
    PROVE  IInv'
  <1>1. /\ c \in Process /\ c # Leader
        /\ state' = [state EXCEPT ![c] = "running"]
        /\ state[p] \in {"running", "doomed"} /\ state[c] = "unborn"
        /\ holding' \in {holding, holding \cup {c}}
        /\ missed' = IF signal = "none" THEN missed ELSE missed \cup {c}
        /\ UNCHANGED <<caller, env, deaf>>
    BY LeaderAssumption DEF Fork, Process
  <1>2. TypeOK'
    BY <1>1 DEF IInv, TypeOK, In, caller, env
  <1>3. state'[Leader] = state[Leader]
    BY <1>1 DEF IInv, TypeOK, Process
  <1>4. Phase' /\ ReportedLeaderEnds'
    BY <1>1, <1>3 DEF IInv, Phase, ReportedLeaderEnds, Stopped, caller
  <1>5. SignalsReachGroup'
    <2>1. signal # "kill"
      BY <1>1 DEF IInv, SignalsReachGroup, In
    <2>2. In({"running"})' \subseteq In({"running"}) \cup {c}
      BY <1>1 DEF IInv, TypeOK, In
    <2> QED
      BY <1>1, <2>1, <2>2 DEF IInv, SignalsReachGroup, caller
  <1> QED
    BY <1>2, <1>4, <1>5 DEF IInv

(* A process that closes its pipes or ends disturbs nothing.               *)
LEMMA EndHolds ==
    ASSUME IInv, NEW p \in Process, Close(p) \/ Exit(p) \/ Die(p)
    PROVE  IInv'
  <1>1. CASE Close(p)
    <2>1. TypeOK'
      BY <1>1 DEF Close, IInv, TypeOK, In, caller, env
    <2>2. Phase' /\ SignalsReachGroup' /\ ReportedLeaderEnds'
      BY <1>1
      DEF Close, IInv, Phase, SignalsReachGroup, ReportedLeaderEnds, Stopped,
          In, caller
    <2> QED
      BY <2>1, <2>2 DEF IInv
  <1>2. CASE Exit(p) \/ Die(p)
    <2>1. /\ state' = [state EXCEPT ![p] = "dead"]
          /\ holding' = holding \ {p}
          /\ UNCHANGED <<caller, env, deaf, missed>>
      BY <1>2 DEF Exit, Die, Gone
    <2>2. state \in [Process -> {"unborn", "running", "doomed", "killed", "dead"}]
      BY DEF IInv, TypeOK
    <2>3. TypeOK'
      BY <2>1, <2>2 DEF IInv, TypeOK, In, caller, env
    <2>4. state'[Leader] \in {state[Leader], "dead"}
      BY <2>1, <2>2 DEF Process
    <2>5. Phase' /\ ReportedLeaderEnds'
      BY <2>1, <2>4 DEF IInv, Phase, ReportedLeaderEnds, Stopped, caller
    <2>6. \A what \in SUBSET {"running", "doomed"} : In(what)' \subseteq In(what)
      BY <2>1, <2>2 DEF In
    <2>7. SignalsReachGroup'
      BY <2>1, <2>6 DEF IInv, SignalsReachGroup, caller
    <2> QED
      BY <2>3, <2>5, <2>7 DEF IInv
  <1> QED
    BY <1>1, <1>2

-----------------------------------------------------------------------------
(* execute_command.                                                        *)

(* The steps that start the program or send a signal.                      *)
LEMMA SignalHolds ==
    ASSUME IInv, Launch \/ Terminate \/ Kill
    PROVE  IInv'
  <1>0. /\ TypeOK /\ Phase /\ SignalsReachGroup
        /\ state \in [Process -> {"unborn", "running", "doomed", "killed", "dead"}]
        /\ Leader \in Process
    BY DEF IInv, TypeOK, Process
  <1>1. CASE Launch
    <2>1. TypeOK'
      BY <1>0, <1>1 DEF Launch, TypeOK, In, env
    <2>2. Phase' /\ SignalsReachGroup' /\ ReportedLeaderEnds'
      BY <1>0, <1>1
      DEF Launch, Phase, SignalsReachGroup, ReportedLeaderEnds
    <2> QED
      BY <2>1, <2>2 DEF IInv
  <1>2. CASE Terminate
    <2>1. TypeOK'
      BY <1>0, <1>2 DEF Terminate, TypeOK, In, env
    <2>2. Phase' /\ ReportedLeaderEnds'
      BY <1>0, <1>2 DEF Terminate, Phase, ReportedLeaderEnds, In
    <2>3. SignalsReachGroup'
      BY <1>0, <1>2 DEF Terminate, SignalsReachGroup, In
    <2> QED
      BY <2>1, <2>2, <2>3 DEF IInv
  <1>3. CASE Kill
    <2>1. TypeOK'
      BY <1>0, <1>3 DEF Kill, TypeOK, In, env
    <2>2. Phase' /\ ReportedLeaderEnds'
      BY <1>0, <1>3 DEF Kill, Phase, ReportedLeaderEnds, In
    <2>3. SignalsReachGroup'
      BY <1>0, <1>3 DEF Kill, SignalsReachGroup, In
    <2> QED
      BY <2>1, <2>2, <2>3 DEF IInv
  <1> QED
    BY <1>1, <1>2, <1>3

(* The other steps of the caller leave the group alone.                    *)
LEMMA CallerHolds ==
    ASSUME IInv,
           \/ LaunchFails \/ TimesOut \/ IsCancelled \/ Poll \/ Finish
           \/ PollExpires \/ Reap \/ GraceExpires \/ WaitExpires \/ Drain
           \/ DrainExpires \/ Interrupt
    PROVE  IInv'
  <1>0. UNCHANGED <<signal, env, group>> /\ TypeOK /\ Phase /\ ReportedLeaderEnds
    BY DEF IInv, LaunchFails, TimesOut, IsCancelled, Poll, Finish, PollExpires,
           Reap, GraceExpires, WaitExpires, Drain, DrainExpires, Interrupt
  <1>1. TypeOK'
    BY <1>0
    DEF LaunchFails, TimesOut, IsCancelled, Poll, Finish, PollExpires, Reap,
        GraceExpires, WaitExpires, Drain, DrainExpires, Interrupt, TypeOK, In,
        group, env
  <1>2. SignalsReachGroup'
    BY <1>0 DEF IInv, SignalsReachGroup, In, group
  <1>3. Phase'
    BY <1>0
    DEF LaunchFails, TimesOut, IsCancelled, Poll, Finish, PollExpires, Reap,
        GraceExpires, WaitExpires, Drain, DrainExpires, Interrupt, Phase, group
  <1>4. ReportedLeaderEnds'
    BY <1>0
    DEF LaunchFails, TimesOut, IsCancelled, Poll, Finish, PollExpires, Reap,
        GraceExpires, WaitExpires, Drain, DrainExpires, Interrupt, Phase,
        ReportedLeaderEnds, Stopped, Ended, group
  <1> QED
    BY <1>1, <1>2, <1>3, <1>4 DEF IInv

LEMMA IInvStep == IInv /\ [Next]_vars => IInv'
  <1> SUFFICES ASSUME IInv, [Next]_vars PROVE IInv'
    OBVIOUS
  <1>1. CASE Next
    <2>1. CASE Command
      BY <2>1, ForkHolds, EndHolds DEF Command
    <2>2. CASE Execute \/ Interrupt
      BY <2>2, SignalHolds, CallerHolds DEF Execute
    <2>3. CASE Deadline \/ SetCancel
      <3>1. /\ UNCHANGED <<caller, group>>
            /\ late' \in {late, TRUE} /\ cancel' \in {cancel, TRUE}
        BY <2>3 DEF Deadline, SetCancel
      <3>2. TypeOK'
        <4>1. late' \in BOOLEAN /\ cancel' \in BOOLEAN
          BY <2>3 DEF Deadline, SetCancel, IInv, TypeOK
        <4> QED
          BY <3>1, <4>1 DEF IInv, TypeOK, In, caller, group
      <3>3. Phase' /\ SignalsReachGroup' /\ ReportedLeaderEnds'
        BY <3>1
        DEF IInv, Phase, In, SignalsReachGroup, ReportedLeaderEnds, Stopped,
            caller, group
      <3> QED
        BY <3>2, <3>3 DEF IInv
    <2> QED
      BY <1>1, <2>1, <2>2, <2>3 DEF Next
  <1>2. CASE UNCHANGED vars
    BY <1>2
    DEF vars, caller, env, group, IInv, TypeOK, Phase, In,
        SignalsReachGroup, ReportedLeaderEnds, Stopped
  <1> QED
    BY <1>1, <1>2

-----------------------------------------------------------------------------
(* The theorems.                                                           *)

THEOREM IInvHolds == Spec => []IInv
  BY InitHolds, IInvStep, PTL DEF Spec

(* Every variable stays within its type.                                   *)
THEOREM TypeCorrect == Spec => []TypeOK
  BY IInvHolds, PTL DEF IInv

(* SIGKILL leaves nobody of the group, SIGTERM those who ignore it and     *)
(* those born later (_kill_process_group).                                 *)
THEOREM SignalsReach == Spec => []SignalsReachGroup
  BY IInvHolds, PTL DEF IInv

(* The leader of a command that is reported as over is dead or about to be *)
(* (execute_command).                                                      *)
THEOREM LeaderEnds == Spec => []ReportedLeaderEnds
  BY IInvHolds, PTL DEF IInv

(* No signal goes to a group id that may belong to someone else by then.   *)
THEOREM SignalsInGroup == Spec => SignalsStayInGroup
  <1>1. ASSUME IInv, [Next]_vars
        PROVE  [signal' # signal
                  => ~reaped \/ In({"running", "doomed", "killed"}) # {}]_vars
    <2>1. SUFFICES ASSUME Next, signal' # signal PROVE ~reaped
      BY <1>1 DEF vars, caller
    <2>2. Terminate \/ Kill
      BY <2>1
      DEF Next, Command, Fork, Close, Exit, Die, Gone, Execute, Launch,
          LaunchFails, TimesOut, IsCancelled, Poll, Finish, PollExpires, Reap,
          GraceExpires, WaitExpires, Drain, DrainExpires, Interrupt, Deadline,
          SetCancel, caller
    <2> QED
      BY <1>1, <2>2 DEF Terminate, Kill, IInv, Phase
  <1> QED
    BY <1>1, IInvHolds, PTL DEF Spec, SignalsStayInGroup
=============================================================================
