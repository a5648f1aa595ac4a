--------------------------- MODULE ServiceStatus ---------------------------
(***************************************************************************)
(* What the operator promises about the two fields of a SleepyService that *)
(* the wake proxy and the controller talk through, status.desiredState     *)
(* (written by the proxy) and status.state (written by the controller).    *)
(*                                                                         *)
(* The proxy may ask for a wake-up or for sleep at any moment.  The        *)
(* controller follows the request that is in force when it writes: it      *)
(* reports Waking or Awake only to a proxy that wants Awake, it reports    *)
(* Sleeping only to one that does not, and it never touches the request.   *)
(* The module says nothing about components, caches or failures: module    *)
(* Reconciler is shown to implement it in spite of them.                   *)
(***************************************************************************)
VARIABLES
  desired,  \* status.desiredState; "" until a proxy has written it
  state     \* status.state; "" until the controller has written it

svcVars == <<desired, state>>

Unset    == ""
Sleeping == "Sleeping"
Waking   == "Waking"
Awake    == "Awake"

\* "Hibernating" and "Error" are members of the CRD's enumeration that no code
\* ever writes, so no reachable object carries them.
DesiredStates == {Unset, Sleeping, Awake}
ServiceStates == {Unset, Sleeping, Waking, Awake}

StatusOK == desired \in DesiredStates /\ state \in ServiceStates

StatusInit == desired = Unset /\ state = Unset

\* The proxy's UpdateSleepyServiceStatus(..., d, ...).
Request(d) == desired' = d /\ UNCHANGED state

\* A controller write under the request it follows.
FollowWake  == desired = Awake /\ state' \in {Waking, Awake} /\ UNCHANGED desired
FollowSleep == desired # Awake /\ state' = Sleeping /\ UNCHANGED desired

StatusNext ==
  \/ \E d \in {Sleeping, Awake} : Request(d)
  \/ FollowWake
  \/ FollowSleep

StatusSpec == StatusInit /\ [][StatusNext]_svcVars
=============================================================================
