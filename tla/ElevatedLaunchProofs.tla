------------------------ MODULE ElevatedLaunchProofs ------------------------
(***************************************************************************)
(* The handle of an elevated process always has one owner, for any number  *)
(* of launches.  The invariant says, for each launch, how far its thread   *)
(* is and what the shared state holds by then.                             *)
(***************************************************************************)
EXTENDS ElevatedLaunch, TLAPS

\* What the fields of the service say of each other.
ServiceInv ==
  /\ exists => (elevate_pending <=> elevated_state # None)
  /\ ~exists => elevated_state = None /\ elevated_handle = None
  /\ elevated_state # None => elevated_handle = None
  /\ elevated_handle # None => wanted
  /\ exists /\ elevate_pending /\ ~elevate_stop_requested => wanted
  /\ exists /\ state = "Running" => elevated_handle # None

\* A handle is open exactly while the thread, the state or the service has it,
\* and no two of them do.
OwnerInv(l) ==
  /\ l \in opened <=> worker[l] = "allowed" \/ shared[l].handle \/ elevated_handle = l
  /\ shared[l].handle => worker[l] # "allowed" /\ elevated_handle # l
  /\ elevated_handle = l => worker[l] # "allowed"

\* done is set last, the state of an ended thread holds a handle only for the
\* service, and the one the service waits for holds a handle if it is ok.
ThreadInv(l) ==
  /\ worker[l] \in {"prompt", "allowed", "refused", "stored"} =>
       ~shared[l].done /\ elevated_handle # l
  /\ worker[l] \in {"prompt", "allowed", "refused"} => ~shared[l].handle /\ ~shared[l].ok
  /\ worker[l] = "ended" /\ shared[l].handle => elevated_state = l
  /\ shared[l].handle => shared[l].ok
  /\ elevated_state = l /\ shared[l].ok => shared[l].handle

LaunchInv ==
  /\ alive \subseteq opened
  /\ \A l \in Launches : OwnerInv(l) /\ ThreadInv(l)

IInv == TypeOK /\ ServiceInv /\ LaunchInv

LEMMA InitInv == Init => IInv
<1> SUFFICES ASSUME Init PROVE IInv
  OBVIOUS
<1>1. TypeOK
  BY DEF Init, TypeOK, detected, States, Steps, ElevatedLaunchState, new_state
<1>2. ServiceInv
  BY DEF Init, ServiceInv, detected
<1>3. LaunchInv
  BY LaunchAssumption DEF Init, LaunchInv, OwnerInv, ThreadInv, new_state
<1>4. QED
  BY <1>1, <1>2, <1>3 DEF IInv

-----------------------------------------------------------------------------
(* One lemma per action *)

LEMMA HandleDropped ==
  ASSUME TypeOK, NEW l \in Launches
  PROVE  [shared EXCEPT ![l].handle = FALSE] \in [Launches -> ElevatedLaunchState]
<1>1. [shared[l] EXCEPT !.handle = FALSE] \in ElevatedLaunchState
  BY DEF TypeOK, ElevatedLaunchState
<1>2. [shared EXCEPT ![l] = [shared[l] EXCEPT !.handle = FALSE]]
        \in [Launches -> ElevatedLaunchState]
  BY <1>1 DEF TypeOK
<1>3. QED
  BY <1>2

\* stop_process() and a destroyed service close a handle the service has.
LEMMA CloseKeeps ==
  ASSUME TypeOK, LaunchInv, elevated_handle # None,
         elevated_handle' = None, terminated({elevated_handle}),
         UNCHANGED <<elevated_state, worker, shared>>
  PROVE  LaunchInv'
  BY LaunchAssumption DEF TypeOK, LaunchInv, OwnerInv, ThreadInv, terminated

LEMMA StopProcessKeeps ==
  ASSUME IInv, stop_process, UNCHANGED <<worker, shared>>
  PROVE  /\ LaunchInv'
         /\ timer' \in BOOLEAN /\ elevate_pending' \in BOOLEAN
         /\ elevate_stop_requested' \in BOOLEAN
         /\ {elevated_handle', elevated_state'} \subseteq Launches \cup {None}
         /\ alive' \subseteq Launches /\ opened' \subseteq Launches
         /\ elevate_pending' = elevate_pending /\ elevated_state' = elevated_state
         /\ elevated_handle' \in {elevated_handle, None}
         /\ exists => elevated_handle' = None
         /\ elevate_pending => elevate_stop_requested'
<1>1. CASE elevate_pending
  BY <1>1 DEF stop_process, IInv, TypeOK, ServiceInv, LaunchInv, OwnerInv, ThreadInv
<1>2. CASE ~elevate_pending /\ elevated_handle # None
  <2>1. LaunchInv'
    BY <1>2, CloseKeeps DEF stop_process, IInv
  <2>2. QED
    BY <1>2, <2>1 DEF stop_process, IInv, TypeOK, terminated
<1>3. CASE ~elevate_pending /\ elevated_handle = None
  BY <1>3 DEF stop_process, launching, IInv, TypeOK, LaunchInv, OwnerInv, ThreadInv
<1>4. QED
  BY <1>1, <1>2, <1>3

LEMMA StopIfRunningKeeps ==
  ASSUME IInv, stop_if_running, UNCHANGED <<worker, shared>>
  PROVE  /\ LaunchInv'
         /\ timer' \in BOOLEAN /\ elevate_pending' \in BOOLEAN
         /\ elevate_stop_requested' \in BOOLEAN
         /\ {elevated_handle', elevated_state'} \subseteq Launches \cup {None}
         /\ alive' \subseteq Launches /\ opened' \subseteq Launches
         /\ elevate_pending' = elevate_pending /\ elevated_state' = elevated_state
         /\ elevated_handle' \in {elevated_handle, None}
         /\ elevate_stop_requested => elevate_stop_requested'
<1>1. CASE stop_process
  <2>1. elevate_stop_requested => elevate_stop_requested'
    BY <1>1 DEF stop_process, launching
  <2>2. QED
    BY <1>1, <2>1, StopProcessKeeps
<1>2. CASE UNCHANGED <<launching, alive, opened>>
  BY <1>2 DEF launching, IInv, TypeOK, LaunchInv, OwnerInv, ThreadInv
<1>3. QED
  BY <1>1, <1>2 DEF stop_if_running

LEMMA StopKeeps == IInv /\ Stop => IInv'
<1> SUFFICES ASSUME IInv, Stop PROVE IInv'
  OBVIOUS
<1> USE DEF Stop
<1>1. stop_process /\ UNCHANGED <<worker, shared>>
  OBVIOUS
<1>2. TypeOK'
  BY <1>1, StopProcessKeeps DEF IInv, TypeOK, installation, States
<1>3. ServiceInv'
  BY <1>1, StopProcessKeeps DEF IInv, ServiceInv, TypeOK
<1>4. QED
  BY <1>1, <1>2, <1>3, StopProcessKeeps DEF IInv

LEMMA LaunchRefusedKeeps == IInv /\ LaunchRefused => IInv'
  BY DEF IInv, TypeOK, ServiceInv, LaunchInv, OwnerInv, ThreadInv, LaunchRefused, States,
         installation, launching, system

LEMMA LaunchKeeps == IInv /\ Launch => IInv'
<1> SUFFICES ASSUME IInv, NEW l \in Launches,
                    exists, elevated_handle = None, unused(l),
                    ~elevate_pending,
                    shared' = [shared EXCEPT ![l] = new_state],
                    worker' = [worker EXCEPT ![l] = "prompt"],
                    elevated_state' = l, elevate_pending' = TRUE,
                    elevate_stop_requested' = FALSE, timer' = TRUE, wanted' = TRUE,
                    UNCHANGED <<state, installation, exists, elevated_handle, alive, opened>>
             PROVE  IInv'
  BY DEF Launch
<1> USE LaunchAssumption
<1>1. TypeOK'
  BY DEF IInv, TypeOK, installation, Steps, ElevatedLaunchState, new_state
<1>2. ServiceInv'
  BY DEF IInv, ServiceInv
<1>3. LaunchInv'
  <2>1. alive' \subseteq opened'
    BY DEF IInv, LaunchInv
  <2>2. ASSUME NEW m \in Launches PROVE OwnerInv(m)' /\ ThreadInv(m)'
    <3>1. CASE m = l
      BY <3>1 DEF IInv, TypeOK, LaunchInv, OwnerInv, ThreadInv, unused, new_state
    <3>2. CASE m # l
      BY <3>2 DEF IInv, TypeOK, ServiceInv, LaunchInv, OwnerInv, ThreadInv
    <3>3. QED
      BY <3>1, <3>2
  <2>3. QED
    BY <2>1, <2>2 DEF LaunchInv
<1>4. QED
  BY <1>1, <1>2, <1>3 DEF IInv

LEMMA SetInstallPathKeeps == IInv /\ SetInstallPath => IInv'
<1> SUFFICES ASSUME IInv, SetInstallPath PROVE IInv'
  OBVIOUS
<1>1. stop_if_running /\ UNCHANGED <<worker, shared>>
  BY DEF SetInstallPath
<1>2. state' \in {"Ready", "NotInstalled"} /\ install_path' \in Paths
  BY DEF SetInstallPath, detected
<1>3. TypeOK'
  BY <1>1, <1>2, StopIfRunningKeeps DEF IInv, TypeOK, SetInstallPath, States
<1>4. ServiceInv'
  BY <1>1, <1>2, StopIfRunningKeeps DEF IInv, ServiceInv, SetInstallPath
<1>5. QED
  BY <1>1, <1>3, <1>4, StopIfRunningKeeps DEF IInv

LEMMA ResetInstallKeeps == IInv /\ ResetInstall => IInv'
<1> SUFFICES ASSUME IInv, ResetInstall PROVE IInv'
  OBVIOUS
<1>1. stop_if_running /\ UNCHANGED <<worker, shared>>
  BY DEF ResetInstall
<1>2. TypeOK'
  BY <1>1, StopIfRunningKeeps DEF IInv, TypeOK, ResetInstall, States
<1>3. ServiceInv'
  BY <1>1, StopIfRunningKeeps DEF IInv, ServiceInv, ResetInstall
<1>4. QED
  BY <1>1, <1>2, <1>3, StopIfRunningKeeps DEF IInv

LEMMA InstallKeeps == IInv /\ (Install \/ InstallEnds) => IInv'
<1> SUFFICES ASSUME IInv, Install \/ InstallEnds PROVE IInv'
  OBVIOUS
<1> USE DEF Install, InstallEnds, launching, system
<1>1. TypeOK'
  BY DEF IInv, TypeOK, States
<1>2. ServiceInv'
  BY DEF IInv, ServiceInv
<1>3. LaunchInv'
  BY DEF IInv, LaunchInv, OwnerInv, ThreadInv
<1>4. QED
  BY <1>1, <1>2, <1>3 DEF IInv

LEMMA DestroyKeeps == IInv /\ Destroy => IInv'
<1> SUFFICES ASSUME IInv, Destroy PROVE IInv'
  OBVIOUS
<1> USE LaunchAssumption
<1>1. TypeOK'
  <2>1. shared' \in [Launches -> ElevatedLaunchState]
    <3>1. CASE elevated_state \in Launches
      BY <3>1, HandleDropped DEF IInv, TypeOK, Destroy, state_dropped
    <3>2. CASE elevated_state = None
      BY <3>2 DEF IInv, TypeOK, Destroy
    <3>3. QED
      BY <3>1, <3>2 DEF IInv, TypeOK
  <2>2. alive' \subseteq Launches /\ opened' \subseteq Launches
    BY DEF IInv, TypeOK, Destroy, state_dropped, terminated
  <2>3. QED
    BY <2>1, <2>2 DEF IInv, TypeOK, Destroy, installation
<1>2. ServiceInv'
  BY DEF IInv, ServiceInv, Destroy
<1>3. LaunchInv'
  <2> USE DEF IInv, TypeOK, LaunchInv, OwnerInv, ThreadInv, ServiceInv, Destroy, terminated
  <2>1. CASE elevated_state # None /\ worker[elevated_state] = "ended"
    <3>1. /\ elevated_handle = None
          /\ shared' = [shared EXCEPT ![elevated_state].handle = FALSE]
          /\ elevated_state \in Launches
      BY <2>1 DEF state_dropped
    <3>2. ASSUME NEW m \in Launches PROVE OwnerInv(m)' /\ ThreadInv(m)'
      <4>1. CASE m = elevated_state
        BY <2>1, <3>1, <4>1 DEF state_dropped, ElevatedLaunchState
      <4>2. CASE m # elevated_state
        BY <2>1, <3>1, <4>2 DEF state_dropped, ElevatedLaunchState
      <4>3. QED
        BY <4>1, <4>2
    <3>3. alive' \subseteq opened'
      BY <2>1 DEF state_dropped
    <3>4. QED
      BY <3>2, <3>3
  <2>2. CASE ~(elevated_state # None /\ worker[elevated_state] = "ended")
    BY <2>2
  <2>3. QED
    BY <2>1, <2>2
<1>4. QED
  BY <1>1, <1>2, <1>3 DEF IInv

LEMMA TakeResultKeeps == IInv /\ TakeResult => IInv'
<1> SUFFICES ASSUME IInv, TakeResult PROVE IInv'
  OBVIOUS
<1> USE LaunchAssumption
<1>1. PICK l \in Launches :
        /\ l = elevated_state /\ shared[l].done
        /\ result_allowed(l) \/ result_stopped(l) \/ result_refused(l)
  BY DEF TakeResult
<1>2. /\ elevate_pending /\ elevate_pending' = FALSE /\ elevated_state' = None
      /\ elevated_handle = None /\ exists
      /\ worker[l] \in {"signalled", "ended"}
  BY <1>1 DEF TakeResult, pending_over, IInv, ServiceInv, LaunchInv, ThreadInv, TypeOK, Steps
<1>3. UNCHANGED <<installation, exists, worker, wanted>>
  BY DEF TakeResult
<1>4. CASE result_allowed(l)
  <2>1. /\ shared[l].handle /\ elevated_handle' = l
        /\ shared' = [shared EXCEPT ![l].handle = FALSE]
    BY <1>1, <1>4 DEF result_allowed, IInv, LaunchInv, ThreadInv
  <2>2. TypeOK'
    <3>1. shared' \in [Launches -> ElevatedLaunchState]
      BY <2>1, HandleDropped DEF IInv
    <3>2. QED
      BY <1>2, <1>3, <1>4, <2>1, <3>1 DEF result_allowed, IInv, TypeOK, installation, States
  <2>3. ServiceInv'
    BY <1>2, <1>3, <1>4, <2>1 DEF result_allowed, IInv, ServiceInv
  <2>4. LaunchInv'
    <3>1. ASSUME NEW m \in Launches PROVE OwnerInv(m)' /\ ThreadInv(m)'
      BY <1>1, <1>2, <1>3, <1>4, <2>1
         DEF result_allowed, IInv, TypeOK, LaunchInv, OwnerInv, ThreadInv, ElevatedLaunchState
    <3>2. QED
      BY <1>4, <3>1 DEF result_allowed, IInv, LaunchInv
  <2>5. QED
    BY <2>2, <2>3, <2>4 DEF IInv
<1>5. CASE result_stopped(l)
  <2>1. TypeOK'
    <3>1. shared' \in [Launches -> ElevatedLaunchState]
      BY <1>5, HandleDropped DEF result_stopped, state_dropped, IInv
    <3>2. QED
      BY <1>2, <1>3, <1>5, <3>1 DEF result_stopped, state_dropped, terminated, IInv, TypeOK,
                                    installation
  <2>2. ServiceInv'
    BY <1>2, <1>3, <1>5 DEF result_stopped, IInv, ServiceInv
  <2>3. LaunchInv'
    <3>1. ASSUME NEW m \in Launches PROVE OwnerInv(m)' /\ ThreadInv(m)'
      BY <1>1, <1>2, <1>3, <1>5
         DEF result_stopped, state_dropped, terminated, IInv, TypeOK, LaunchInv, OwnerInv,
             ThreadInv, ElevatedLaunchState
    <3>2. QED
      BY <1>5, <3>1 DEF result_stopped, state_dropped, terminated, IInv, LaunchInv
  <2>4. QED
    BY <2>1, <2>2, <2>3 DEF IInv
<1>6. CASE result_refused(l)
  <2>1. TypeOK'
    BY <1>2, <1>3, <1>6 DEF result_refused, IInv, TypeOK, installation, States
  <2>2. ServiceInv'
    BY <1>2, <1>3, <1>6 DEF result_refused, IInv, ServiceInv
  <2>3. ~shared[l].handle
    BY <1>1, <1>6 DEF result_refused, IInv, LaunchInv, ThreadInv
  <2>4. LaunchInv'
    BY <1>1, <1>2, <1>3, <1>6, <2>3
       DEF result_refused, IInv, TypeOK, LaunchInv, OwnerInv, ThreadInv
  <2>5. QED
    BY <2>1, <2>2, <2>4 DEF IInv
<1>7. QED
  BY <1>1, <1>4, <1>5, <1>6

LEMMA NoticeExitKeeps == IInv /\ NoticeExit => IInv'
<1> SUFFICES ASSUME IInv, NoticeExit PROVE IInv'
  OBVIOUS
<1> USE LaunchAssumption DEF NoticeExit
<1>1. TypeOK'
  BY DEF IInv, TypeOK, installation, States
<1>2. ServiceInv'
  BY DEF IInv, ServiceInv, TypeOK
<1>3. LaunchInv'
  BY DEF IInv, TypeOK, LaunchInv, OwnerInv, ThreadInv, running
<1>4. QED
  BY <1>1, <1>2, <1>3 DEF IInv

LEMMA ThreadKeeps ==
  ASSUME IInv, NEW l \in Launches, Thread(l)
  PROVE  IInv'
<1> USE LaunchAssumption
<1>1. UNCHANGED <<state, installation, exists, launching, wanted>>
  BY DEF Thread, AnswerPrompt, StoreResult, SignalDone, ThreadEnds
<1>2. ServiceInv'
  BY <1>1 DEF IInv, ServiceInv, launching
<1>3. CASE AnswerPrompt(l)
  <2> USE DEF AnswerPrompt, launching
  <2>1. TypeOK'
    BY <1>1, <1>3 DEF IInv, TypeOK, installation, Steps
  <2>2. LaunchInv'
    BY <1>1, <1>3 DEF IInv, TypeOK, LaunchInv, OwnerInv, ThreadInv
  <2>3. QED
    BY <1>2, <2>1, <2>2 DEF IInv
<1>4. CASE StoreResult(l)
  <2> USE DEF StoreResult, launching
  <2>1. TypeOK'
    <3>1. shared' \in [Launches -> ElevatedLaunchState]
      <4>1. CASE shared' = [shared EXCEPT ![l].ok = TRUE, ![l].handle = TRUE]
        <5>1. [shared[l] EXCEPT !.ok = TRUE, !.handle = TRUE] \in ElevatedLaunchState
          BY DEF IInv, TypeOK, ElevatedLaunchState
        <5>2. shared' = [shared EXCEPT ![l] = [shared[l] EXCEPT !.ok = TRUE, !.handle = TRUE]]
          BY <4>1 DEF IInv, TypeOK, ElevatedLaunchState
        <5>3. QED
          BY <5>1, <5>2 DEF IInv, TypeOK
      <4>2. CASE UNCHANGED shared
        BY <4>2 DEF IInv, TypeOK
      <4>3. QED
        BY <1>4, <4>1, <4>2
    <3>2. QED
      BY <1>1, <1>4, <3>1 DEF IInv, TypeOK, installation, Steps
  <2>2. ASSUME NEW m \in Launches PROVE OwnerInv(m)' /\ ThreadInv(m)'
    <3> USE DEF IInv, TypeOK, LaunchInv, OwnerInv, ThreadInv, ElevatedLaunchState
    <3>1. CASE m = l
      <4>1. OwnerInv(m)'
        BY <1>1, <1>4, <3>1
      <4>2. ThreadInv(m)'
        BY <1>1, <1>4, <3>1
      <4>3. QED
        BY <4>1, <4>2
    <3>2. CASE m # l
      <4>1. worker'[m] = worker[m] /\ shared'[m] = shared[m]
        BY <1>4, <3>2
      <4>2. QED
        BY <1>1, <1>4, <4>1
    <3>3. QED
      BY <3>1, <3>2
  <2>3. QED
    BY <1>2, <1>4, <2>1, <2>2 DEF IInv, LaunchInv
<1>5. CASE SignalDone(l)
  <2> USE DEF SignalDone, launching
  <2>1. TypeOK'
    BY <1>1, <1>5 DEF IInv, TypeOK, installation, Steps, ElevatedLaunchState
  <2>2. ASSUME NEW m \in Launches PROVE OwnerInv(m)' /\ ThreadInv(m)'
    <3> USE DEF IInv, TypeOK, LaunchInv, OwnerInv, ThreadInv, ElevatedLaunchState
    <3>1. CASE m = l
      <4>1. OwnerInv(m)'
        BY <1>1, <1>5, <3>1
      <4>2. ThreadInv(m)'
        BY <1>1, <1>5, <3>1
      <4>3. QED
        BY <4>1, <4>2
    <3>2. CASE m # l
      <4>1. worker'[m] = worker[m] /\ shared'[m] = shared[m]
        BY <1>5, <3>2
      <4>2. QED
        BY <1>1, <1>5, <4>1
    <3>3. QED
      BY <3>1, <3>2
  <2>3. QED
    BY <1>2, <1>5, <2>1, <2>2 DEF IInv, LaunchInv
<1>6. CASE ThreadEnds(l)
  <2> USE DEF ThreadEnds, launching
  <2>1. TypeOK'
    <3>1. shared' \in [Launches -> ElevatedLaunchState]
      BY <1>6, HandleDropped DEF IInv, TypeOK, state_dropped
    <3>2. alive' \subseteq Launches /\ opened' \subseteq Launches
      BY <1>6 DEF IInv, TypeOK, state_dropped, terminated
    <3>3. QED
      BY <1>1, <1>6, <3>1, <3>2 DEF IInv, TypeOK, installation, Steps
  <2>2. ASSUME NEW m \in Launches PROVE OwnerInv(m)' /\ ThreadInv(m)'
    <3> USE DEF IInv, TypeOK, LaunchInv, OwnerInv, ThreadInv, ElevatedLaunchState,
                state_dropped, terminated
    <3>1. CASE m = l
      BY <1>1, <1>6, <3>1
    <3>2. CASE m # l
      <4>1. worker'[m] = worker[m] /\ shared'[m] = shared[m]
        BY <1>6, <3>2
      <4>2. m \in opened' <=> m \in opened
        BY <1>6, <3>2
      <4>3. QED
        BY <1>1, <1>6, <4>1, <4>2
    <3>3. QED
      BY <3>1, <3>2
  <2>3. alive' \subseteq opened'
    BY <1>6 DEF IInv, LaunchInv, state_dropped, terminated
  <2>4. QED
    BY <1>2, <2>1, <2>2, <2>3 DEF IInv, LaunchInv
<1>7. QED
  BY <1>3, <1>4, <1>5, <1>6 DEF Thread

LEMMA ProcessExitsKeeps == IInv /\ ProcessExits => IInv'
<1> SUFFICES ASSUME IInv, ProcessExits PROVE IInv'
  OBVIOUS
<1> USE DEF ProcessExits, installation, launching
<1>1. TypeOK' /\ ServiceInv'
  BY DEF IInv, TypeOK, ServiceInv
<1>2. LaunchInv'
  BY DEF IInv, LaunchInv, OwnerInv, ThreadInv
<1>3. QED
  BY <1>1, <1>2 DEF IInv

LEMMA NextInv == IInv /\ [Next]_vars => IInv'
<1> SUFFICES ASSUME IInv, [Next]_vars PROVE IInv'
  OBVIOUS
<1>1. CASE Next
  BY <1>1, StopKeeps, LaunchRefusedKeeps, LaunchKeeps, SetInstallPathKeeps,
     ResetInstallKeeps, InstallKeeps, DestroyKeeps, TakeResultKeeps, NoticeExitKeeps,
     ThreadKeeps, ProcessExitsKeeps DEF Next
<1>2. CASE UNCHANGED vars
  <2>1. TypeOK' /\ ServiceInv'
    BY <1>2 DEF vars, installation, launching, system, IInv, TypeOK, ServiceInv
  <2>2. LaunchInv'
    BY <1>2 DEF vars, launching, system, IInv, LaunchInv, OwnerInv, ThreadInv
  <2>3. QED
    BY <2>1, <2>2 DEF IInv
<1>3. QED
  BY <1>1, <1>2

LEMMA SpecInv == Spec => []IInv
<1>1. Init => IInv
  BY InitInv
<1>2. IInv /\ [Next]_vars => IInv'
  BY NextInv
<1>3. QED
  BY <1>1, <1>2, PTL DEF Spec

-----------------------------------------------------------------------------

\* Every variable keeps its type, for any launches and directories.
THEOREM ElevatedTypeOK == Spec => []TypeOK
<1>1. IInv => TypeOK
  BY DEF IInv
<1>2. QED
  BY <1>1, SpecInv, PTL

\* A process handle has one owner until it is closed, and none afterwards,
\* however the thread, the timer, the calls and the destructor interleave.
THEOREM ElevatedOneOwner == Spec => []OneOwner
<1>1. IInv => OneOwner
  <2> SUFFICES ASSUME IInv, NEW l \in Launches
               PROVE  IF l \in opened THEN \E o \in Owners(l) : Owners(l) = {o}
                      ELSE Owners(l) = {}
    BY DEF OneOwner
  <2>1. OwnerInv(l)
    BY DEF IInv, LaunchInv
  <2>2. CASE l \notin opened
    BY <2>1, <2>2 DEF OwnerInv, Owners
  <2>3. CASE l \in opened /\ worker[l] = "allowed"
    <3>1. Owners(l) = {"thread"}
      BY <2>1, <2>3 DEF OwnerInv, Owners
    <3>2. QED
      BY <2>3, <3>1
  <2>4. CASE l \in opened /\ shared[l].handle
    <3>1. Owners(l) = {"state"}
      BY <2>1, <2>4 DEF OwnerInv, Owners
    <3>2. QED
      BY <2>4, <3>1
  <2>5. CASE l \in opened /\ elevated_handle = l
    <3>1. Owners(l) = {"service"}
      BY <2>1, <2>5 DEF OwnerInv, Owners
    <3>2. QED
      BY <2>5, <3>1
  <2>6. QED
    BY <2>1, <2>2, <2>3, <2>4, <2>5 DEF OwnerInv
<1>2. QED
  BY <1>1, SpecInv, PTL

\* The destructors of the service and of the shared state leave no elevated
\* process behind, whichever of the two comes last, as long as the thread runs
\* on.
THEOREM ElevatedNothingSurvives == Spec => []NothingSurvives
<1>1. IInv => NothingSurvives
  BY LaunchAssumption
     DEF IInv, TypeOK, ServiceInv, LaunchInv, OwnerInv, ThreadInv, NothingSurvives
<1>2. QED
  BY <1>1, SpecInv, PTL

\* A stop during the prompt is not lost, and Running has a process.
THEOREM ElevatedStopHonoured == Spec => []StopHonoured
<1>1. IInv => StopHonoured
  BY DEF IInv, ServiceInv, StopHonoured
<1>2. QED
  BY <1>1, SpecInv, PTL
=============================================================================
