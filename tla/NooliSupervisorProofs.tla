------------------------ MODULE NooliSupervisorProofs ------------------------
(***************************************************************************)
(* A theorem about the supervision of the nooli server, for any number of  *)
(* crashes, reboots, calls of an operator, hasty looks and other Java      *)
(* programs.                                                               *)
(***************************************************************************)
EXTENDS NooliSupervisor, Integers, FiniteSetTheorems, TLAPS

(* The starts of a server that are already decided on.                     *)
Decided ==
    (IF boot = "S40nooli" THEN 1 ELSE 0) + (IF daemon = "start" THEN 1 ELSE 0)
        + (IF operator \in {"S40nooli_restart", "S40nooli_start"} THEN 1 ELSE 0)

(* The inductive invariant: servers and starts decided on together are     *)
(* accounted for.  The watchdog comes after the server at boot, so the two *)
(* never start one at the same time, and an operator works on a system     *)
(* that is up.                                                             *)
ServerInv ==
    /\ calls \in Nat /\ slow \in Nat
    /\ IsFiniteSet(servers)
    /\ Cardinality(servers) + Decided <= 1 + calls + slow
    /\ operator # "none" => calls >= 1
    /\ boot # "up" => daemon = "off" /\ operator = "none"

(* There is no server before the first init script.                        *)
LEMMA InitEstablishesServerInv == Init => ServerInv
<1> SUFFICES ASSUME Init PROVE ServerInv
  OBVIOUS
<1>1. servers = {} /\ IsFiniteSet(servers) /\ Cardinality(servers) = 0
  BY FS_EmptySet DEF Init, servers
<1> QED
  BY <1>1 DEF Init, ServerInv, Decided

(* A start adds one server, whatever start-stop-daemon finds.              *)
LEMMA StartAddsOne ==
    ASSUME IsFiniteSet(servers), StartNooli
    PROVE  /\ IsFiniteSet(servers')
           /\ Cardinality(servers) \in Nat
           /\ Cardinality(servers') = Cardinality(servers) + 1
<1>1. PICK p \in Pids \ servers : servers' = servers \cup {p}
  BY DEF StartNooli, servers
<1> QED
  BY <1>1, FS_AddElement, FS_CardinalityType

(* What the invariant asks of a step, in numbers.                          *)
LEMMA CountingKeepsServerInv ==
    ASSUME ServerInv, IsFiniteSet(servers'), Cardinality(servers) \in Nat,
           Cardinality(servers') \in Nat, calls' \in Nat, slow' \in Nat,
           Cardinality(servers') + Decided' - calls' - slow'
              <= Cardinality(servers) + Decided - calls - slow,
           operator' # "none" => calls' >= 1,
           boot' # "up" => daemon' = "off" /\ operator' = "none"
    PROVE  ServerInv'
<1>1. Decided \in Nat /\ Decided' \in Nat
  BY DEF Decided
<1> QED
  BY <1>1 DEF ServerInv

(* Init scripts, crashes, the daemon with its reboots and the operator     *)
(* keep the invariant.                                                     *)
LEMMA StepKeepsServerInv ==
    ASSUME ServerInv, [Next]_vars
    PROVE  ServerInv'
<1> DEFINE n == Cardinality(servers)
<1>a. /\ IsFiniteSet(servers) /\ n \in Nat /\ calls \in Nat /\ slow \in Nat
      /\ n + Decided <= 1 + calls + slow
      /\ operator # "none" => calls >= 1
      /\ boot # "up" => daemon = "off" /\ operator = "none"
  <2>1. IsFiniteSet(servers)
    BY DEF ServerInv
  <2>2. n \in Nat
    BY <2>1, FS_CardinalityType
  <2> QED
    BY <2>1, <2>2 DEF ServerInv
<1>b. ASSUME servers' \subseteq servers
      PROVE  IsFiniteSet(servers') /\ n' <= n /\ n' \in Nat
  BY <1>a, <1>b, FS_Subset, FS_CardinalityType
<1>c. ASSUME StartNooli
      PROVE  IsFiniteSet(servers') /\ n' = n + 1
  BY <1>a, <1>c, StartAddsOne
<1>d. ASSUME servers' \subseteq servers, UNCHANGED <<boot, daemon, operator, calls, slow>>
      PROVE  ServerInv'
  <2>1. IsFiniteSet(servers') /\ n' <= n /\ n' \in Nat
    BY <1>b, <1>d
  <2>2. Decided' = Decided /\ Decided \in Nat
    BY <1>d DEF Decided
  <2> QED
    BY <1>a, <1>d, <2>1, <2>2, CountingKeepsServerInv
<1> HIDE DEF n
<1>1. CASE UNCHANGED vars \/ OtherStartsOrEnds
  BY <1>1, <1>d DEF vars, OtherStartsOrEnds, supervision, bounds, servers
<1>2. CASE Launches \/ Crashes
  BY <1>2, <1>d DEF Launches, Crashes, supervision, bounds, servers
<1>3. CASE CallStopsNooli
  <2>1. servers' \subseteq servers /\ Decided' <= Decided
    BY <1>3 DEF CallStopsNooli, StopNooli, servers, supervision, Decided
  <2>2. IsFiniteSet(servers') /\ n' <= n /\ n' \in Nat
    BY <2>1, <1>b
  <2>3. UNCHANGED <<boot, daemon, calls, slow>> /\ operator # "none"
    BY <1>3 DEF CallStopsNooli, supervision, bounds
  <2>4. Decided \in Nat /\ Decided' \in Nat
    BY DEF Decided
  <2> QED
    BY <1>a, <2>1, <2>2, <2>3, <2>4, CountingKeepsServerInv DEF n
<1>4. CASE BootWatchdog \/ TestFails \/ DaemonLeaves \/ CallStopsWatchdog \/ CallStartsWatchdog
  <2>1. servers' \subseteq servers
    BY <1>4 DEF BootWatchdog, TestFails, DaemonLeaves, CallStopsWatchdog,
       CallStartsWatchdog, servers
  <2>2. IsFiniteSet(servers') /\ n' <= n /\ n' \in Nat
    BY <2>1, <1>b
  <2>3. Decided' <= Decided /\ UNCHANGED <<calls, slow>>
    BY <1>4 DEF BootWatchdog, StartWatchdog, TestFails, DaemonLeaves, CallStopsWatchdog,
       StopWatchdog, CallStartsWatchdog, bounds, Decided
  <2>4. /\ operator' # "none" => operator # "none"
        /\ boot' # "up" => daemon' = "off" /\ operator' = "none"
    BY <1>4, <1>a DEF BootWatchdog, StartWatchdog, TestFails, DaemonLeaves,
       CallStopsWatchdog, CallStartsWatchdog
  <2>5. Decided \in Nat /\ Decided' \in Nat
    BY DEF Decided
  <2> QED
    BY <1>a, <2>2, <2>3, <2>4, <2>5, CountingKeepsServerInv DEF n
<1>5. CASE BootNooli \/ RepairStarts \/ CallStartsNooli
  <2>1. IsFiniteSet(servers') /\ n' = n + 1
    BY <1>5, <1>c DEF BootNooli, RepairStarts, CallStartsNooli
  <2>2. Decided' = Decided - 1 /\ UNCHANGED <<calls, slow>>
    BY <1>5, <1>a DEF BootNooli, RepairStarts, CallStartsNooli, supervision, bounds,
       Decided
  <2>3. /\ operator' # "none" => operator # "none"
        /\ boot' # "up" => daemon' = "off" /\ operator' = "none"
    BY <1>5, <1>a DEF BootNooli, RepairStarts, CallStartsNooli, supervision
  <2>4. Decided \in Nat
    BY DEF Decided
  <2> QED
    BY <1>a, <2>1, <2>2, <2>3, <2>4, CountingKeepsServerInv DEF n
<1>6. CASE RepairLooks
  <2>1. /\ servers' = servers /\ UNCHANGED <<boot, operator, calls>>
        /\ slow' = IF launched = {} THEN slow ELSE slow + 1
        /\ daemon = "repair" /\ daemon' \in {"idle", "start"}
    BY <1>6 DEF RepairLooks, Looks, servers
  <2>2. IsFiniteSet(servers') /\ n' = n
    BY <1>a, <2>1 DEF n
  <2>3. /\ calls' = calls /\ slow' \in Nat /\ slow' >= slow
        /\ operator' # "none" => calls' >= 1
        /\ boot' # "up" => daemon' = "off" /\ operator' = "none"
    BY <1>a, <2>1
  <2>4. CASE daemon' = "start" /\ launched = {}
    <3>1. servers = {}
      BY <1>6, <2>4 DEF RepairLooks, Listed, servers
    <3>2. n = 0
      BY <3>1, FS_EmptySet DEF n
    <3>3. Decided' <= 1 + calls /\ slow' = slow
      BY <1>a, <2>1, <2>4 DEF Decided
    <3>4. Decided' \in Nat
      BY DEF Decided
    <3>5. n' = 0 /\ Decided' <= 1 + calls' + slow' /\ calls' \in Nat
      <4>1. n' = 0 /\ calls \in Nat /\ slow \in Nat /\ calls' = calls
        BY <1>a, <2>2, <2>3, <3>2
      <4> QED
        BY <4>1, <3>3, <3>4
    <3>6. Cardinality(servers') + Decided' <= 1 + calls' + slow'
      BY <3>4, <3>5 DEF n
    <3> QED
      BY <2>2, <2>3, <3>5, <3>6 DEF ServerInv
  <2>5. CASE daemon' = "start" /\ launched # {}
    <3>1. Decided' <= Decided + 1 /\ slow' = slow + 1
      BY <1>a, <2>1, <2>5 DEF Decided
    <3>2. Decided \in Nat /\ Decided' \in Nat
      BY DEF Decided
    <3> QED
      BY <1>a, <2>2, <2>3, <3>1, <3>2 DEF ServerInv, n
  <2>6. CASE daemon' = "idle"
    <3>1. Decided' <= Decided
      BY <1>a, <2>1, <2>6 DEF Decided
    <3>2. Decided \in Nat /\ Decided' \in Nat
      BY DEF Decided
    <3> QED
      BY <1>a, <2>2, <2>3, <3>1, <3>2 DEF ServerInv, n
  <2> QED
    BY <2>1, <2>4, <2>5, <2>6
<1>7. CASE RepairTimesOut
  <2>1. servers' = {}
    BY <1>7 DEF RepairTimesOut, Reboot, servers
  <2>2. IsFiniteSet(servers') /\ n' = 0
    BY <2>1, FS_EmptySet DEF n
  <2>3. Decided' = 1
    BY <1>7 DEF RepairTimesOut, Reboot, Decided
  <2>4. UNCHANGED <<calls, slow>> /\ daemon' = "off" /\ operator' = "none"
    BY <1>7 DEF RepairTimesOut, Reboot
  <2> QED
    BY <1>a, <2>2, <2>3, <2>4 DEF ServerInv, n
<1>8. CASE Call
  <2>1. servers' \subseteq servers /\ UNCHANGED <<boot, daemon, slow>> /\ calls' = calls + 1
    BY <1>8 DEF Call, servers, supervision
  <2>2. IsFiniteSet(servers') /\ n' <= n /\ n' \in Nat
    BY <2>1, <1>b
  <2>3. Decided' <= Decided + 1
    BY <1>8, <2>1 DEF Call, Decided
  <2>4. Decided \in Nat /\ Decided' \in Nat
    BY DEF Decided
  <2>5. boot' = "up"
    BY <1>8 DEF Call
  <2> QED
    BY <1>a, <2>1, <2>2, <2>3, <2>4, <2>5, CountingKeepsServerInv DEF n
<1> QED
  BY <1>1, <1>2, <1>3, <1>4, <1>5, <1>6, <1>7, <1>8 DEF Next, InitScripts, Daemon, Operator

(* Although the test script always fails and the repair runs all the time, *)
(* there are never more servers than one, one more for each call of an     *)
(* operator, and one more for each look that came too early                *)
(* (testnooliserver:7, repairnooliserver:5-9).                             *)
THEOREM ServersAlwaysAccountedFor == Spec => []ServersAccountedFor
<1>1. ServerInv => ServersAccountedFor
  <2> SUFFICES ASSUME ServerInv PROVE ServersAccountedFor
    OBVIOUS
  <2>1. IsFiniteSet(servers)
    BY DEF ServerInv
  <2>2. Cardinality(servers) \in Nat
    BY <2>1, FS_CardinalityType
  <2>3. Decided \in Nat
    BY DEF Decided
  <2> QED
    BY <2>2, <2>3 DEF ServerInv, ServersAccountedFor
<1> QED
  BY <1>1, InitEstablishesServerInv, StepKeepsServerInv, PTL DEF Spec
=============================================================================
