---------------------------- MODULE ServerProofs ----------------------------
(***************************************************************************)
(* What holds of the resources that the sessions of a server share, for    *)
(* any number of clients: the pairs of UDP ports (PortPool) and the places *)
(* among the connections (RtspServer), with reloads at any moment.         *)
(***************************************************************************)
EXTENDS PortPool, RtspServer, FiniteSetTheorems, TLAPS

(* A pair that is not over is made of two ports.                           *)
PortsInv == \A s \in Sessions : st[s] # "none" => Pair(s) \subseteq Port

(* Who holds the mutex, and which operations a reload has run in.          *)
LockInv ==
  /\ \A s \in Sessions :
       /\ st[s] \in Taking \cup Giving => lock = s
       /\ reloading.pc # "idle" =>
            /\ st[s] \in Taking => "getPair" \in overlapped
            /\ st[s] \in Giving => "release" \in overlapped
  /\ inside = {} \/ \E s \in Sessions : st[s] = "give"

(* A pair is in _free, in transit or in _used, and nobody else's, if no    *)
(* reload has run while it was being taken.                                *)
PairInv ==
  "getPair" \notin overlapped =>
    /\ free \cap used = {}
    /\ reloading.pc = "insert" => reloading.port \notin used
    /\ inside \cap used = {}
    /\ \A s \in Sessions :
         /\ st[s] = "take" => Pair(s) \subseteq free
         /\ st[s] = "use" => Pair(s) \cap (free \cup used) = {}
         /\ st[s] \in Giving => Pair(s) \cap used = {}
         /\ Holding(s) => Pair(s) \subseteq used
    /\ \A s, t \in Sessions :
         s # t /\ Holding(s) /\ Holding(t) => Pair(s) \cap Pair(t) = {}

(* Every port of the range is free, used or in transit; during a reload    *)
(* this holds of the ports that the loop has passed.  A loop that has an   *)
(* end does not wrap, and only such a loop gets there.                     *)
Transit(p) == \E s \in Sessions : st[s] \in {"use"} \cup Giving /\ p \in Pair(s)

RangeInv ==
  "release" \notin overlapped =>
    /\ reloading.pc = "idle" =>
         /\ range.last < Width - 1
         /\ free \subseteq InRange
         /\ \A p \in InRange : p \in free \cup used \/ Transit(p)
         /\ \A s \in Sessions : st[s] = "give" => inside = Pair(s) \cap InRange
    /\ reloading.pc = "clear" => reloading.port = range.first
    /\ reloading.pc \in {"check", "insert"} /\ range.last < Width - 1 =>
         /\ free \subseteq InRange
         /\ \A p \in InRange : p < reloading.port => p \in free \cup used \/ Transit(p)
         /\ range.first <= reloading.port
    /\ reloading.pc = "insert" => reloading.port <= range.last

-----------------------------------------------------------------------------
(* The variables stay in their ranges: ports, and sets of ports.           *)
LEMMA TypeStep ==
  ASSUME TypeOK, PortsInv, [PoolNext]_poolVars PROVE (TypeOK /\ PortsInv)'
<1>1. ASSUME NEW r \in Sessions, FindPair(r) PROVE (TypeOK /\ PortsInv)'
  BY <1>1, NobodyAssumption DEF FindPair, Step, Acquire, FreePairs, TypeOK, PortsInv, Pair, Port, SessionPcs, Taking, Giving, ReloadPcs
<1>2. ASSUME NEW r \in Sessions, ErasePair(r) PROVE (TypeOK /\ PortsInv)'
  BY <1>2, NobodyAssumption DEF ErasePair, Step, TypeOK, PortsInv, Pair, Port, SessionPcs, Taking, Giving, ReloadPcs
<1>3. ASSUME NEW r \in Sessions, UsePair(r) PROVE (TypeOK /\ PortsInv)'
  BY <1>3, NobodyAssumption DEF UsePair, Step, Release, TypeOK, PortsInv, Pair, Port, SessionPcs, Taking, Giving, ReloadPcs
<1>4. ASSUME NEW r \in Sessions, OpenSockets(r) PROVE (TypeOK /\ PortsInv)'
  BY <1>4, NobodyAssumption DEF OpenSockets, Step, TypeOK, PortsInv, Pair, Port, SessionPcs, Taking, Giving, ReloadPcs
<1>5. ASSUME NEW r \in Sessions, SetupFails(r) PROVE (TypeOK /\ PortsInv)'
  BY <1>5, WidthAssumption DEF SetupFails, Step, TypeOK, PortsInv, Pair, Port, SessionPcs, Taking, Giving, ReloadPcs
<1>6. ASSUME NEW r \in Sessions, UnusePair(r) PROVE (TypeOK /\ PortsInv)'
  BY <1>6, NobodyAssumption DEF UnusePair, Step, Acquire, TypeOK, PortsInv, Pair, Port, SessionPcs, Taking, Giving, ReloadPcs
<1>7. ASSUME NEW r \in Sessions, TestRange(r) PROVE (TypeOK /\ PortsInv)'
  BY <1>7, NobodyAssumption DEF TestRange, Step, TypeOK, PortsInv, Pair, Port, SessionPcs, Taking, Giving, ReloadPcs
<1>8. ASSUME NEW r \in Sessions, FreePair(r) PROVE (TypeOK /\ PortsInv)'
  BY <1>8, NobodyAssumption DEF FreePair, Step, Release, TypeOK, PortsInv, Pair, Port, SessionPcs, Taking, Giving, ReloadPcs
<1>9. ASSUME NEW r \in Sessions, CloseSockets(r) PROVE (TypeOK /\ PortsInv)'
  BY <1>9, WidthAssumption DEF CloseSockets, Step, TypeOK, PortsInv, Pair, Port, SessionPcs, Taking, Giving, ReloadPcs
<1>10. CASE Reload
  BY <1>10, RangesAssumption DEF Reload, TypeOK, PortsInv, Pair, Port, SessionPcs, Taking, Giving, ReloadPcs
<1>11. CASE SetLast
  BY <1>11 DEF SetLast, TypeOK, PortsInv, Pair, Port, SessionPcs, Taking, Giving, ReloadPcs
<1>12. CASE ClearFree
  BY <1>12 DEF ClearFree, TypeOK, PortsInv, Pair, Port, SessionPcs, Taking, Giving, ReloadPcs
<1>13. CASE CheckPort
  <2>1. NextPort \in Port /\ 0 \in Port BY WidthAssumption DEF NextPort, TypeOK, Port
  <2>2. reloading' \in [pc : ReloadPcs, port : Port]
    BY <1>13, <2>1, Zenon DEF CheckPort, TypeOK, ReloadPcs
  <2> QED BY <1>13, <2>2 DEF CheckPort, TypeOK, PortsInv, Pair
<1>14. CASE InsertPort
  <2>1. NextPort \in Port BY WidthAssumption DEF NextPort, TypeOK, Port
  <2>2. reloading' \in [pc : ReloadPcs, port : Port]
    BY <1>14, <2>1 DEF InsertPort, ReloadPcs
  <2>3. free' \subseteq Port
    BY <1>14 DEF InsertPort, TypeOK
  <2> QED BY <1>14, <2>2, <2>3 DEF InsertPort, TypeOK, PortsInv, Pair
<1>15. CASE UNCHANGED poolVars
  BY <1>15 DEF poolVars, TypeOK, PortsInv, Pair, Port, SessionPcs, Taking, Giving, ReloadPcs
<1> QED
  BY <1>1, <1>2, <1>3, <1>4, <1>5, <1>6, <1>7, <1>8, <1>9, <1>10, <1>11, <1>12, <1>13, <1>14, <1>15 DEF PoolNext, Session, Reset

(* Who holds the mutex, and whom a reload has met.                         *)
LEMMA LockStep ==
  ASSUME TypeOK, LockInv, [PoolNext]_poolVars PROVE LockInv'
<1>1. ASSUME NEW r \in Sessions, FindPair(r) PROVE LockInv'
  BY <1>1, NobodyAssumption DEF FindPair, Step, Acquire, FreePairs, TypeOK, LockInv, Taking, Giving, ReloadPcs, SessionPcs
<1>2. ASSUME NEW r \in Sessions, ErasePair(r) PROVE LockInv'
  BY <1>2, NobodyAssumption DEF ErasePair, Step, TypeOK, LockInv, Taking, Giving, ReloadPcs, SessionPcs
<1>3. ASSUME NEW r \in Sessions, UsePair(r) PROVE LockInv'
  BY <1>3, NobodyAssumption DEF UsePair, Step, Release, TypeOK, LockInv, Taking, Giving, ReloadPcs, SessionPcs
<1>4. ASSUME NEW r \in Sessions, OpenSockets(r) PROVE LockInv'
  BY <1>4, NobodyAssumption DEF OpenSockets, Step, TypeOK, LockInv, Taking, Giving, ReloadPcs, SessionPcs
<1>5. ASSUME NEW r \in Sessions, SetupFails(r) PROVE LockInv'
  BY <1>5, NobodyAssumption DEF SetupFails, Step, TypeOK, LockInv, Taking, Giving, ReloadPcs, SessionPcs
<1>6. ASSUME NEW r \in Sessions, UnusePair(r) PROVE LockInv'
  BY <1>6, NobodyAssumption DEF UnusePair, Step, Acquire, TypeOK, LockInv, Taking, Giving, ReloadPcs, SessionPcs
<1>7. ASSUME NEW r \in Sessions, TestRange(r) PROVE LockInv'
  BY <1>7, NobodyAssumption DEF TestRange, Step, TypeOK, LockInv, Taking, Giving, ReloadPcs, SessionPcs
<1>8. ASSUME NEW r \in Sessions, FreePair(r) PROVE LockInv'
  BY <1>8, NobodyAssumption DEF FreePair, Step, Release, TypeOK, LockInv, Taking, Giving, ReloadPcs, SessionPcs
<1>9. ASSUME NEW r \in Sessions, CloseSockets(r) PROVE LockInv'
  BY <1>9, NobodyAssumption DEF CloseSockets, Step, TypeOK, LockInv, Taking, Giving, ReloadPcs, SessionPcs
<1>10. CASE Reload
  BY <1>10 DEF Reload, TypeOK, LockInv, Taking, Giving, ReloadPcs, SessionPcs
<1>11. CASE SetLast
  BY <1>11 DEF SetLast, TypeOK, LockInv, Taking, Giving, ReloadPcs, SessionPcs
<1>12. CASE ClearFree
  BY <1>12 DEF ClearFree, TypeOK, LockInv, Taking, Giving, ReloadPcs, SessionPcs
<1>13. CASE CheckPort
  BY <1>13 DEF CheckPort, TypeOK, LockInv, Taking, Giving, ReloadPcs, SessionPcs
<1>14. CASE InsertPort
  BY <1>14 DEF InsertPort, TypeOK, LockInv, Taking, Giving, ReloadPcs, SessionPcs
<1>15. CASE UNCHANGED poolVars
  BY <1>15 DEF poolVars, TypeOK, LockInv, Taking, Giving, ReloadPcs, SessionPcs
<1> QED
  BY <1>1, <1>2, <1>3, <1>4, <1>5, <1>6, <1>7, <1>8, <1>9, <1>10, <1>11, <1>12, <1>13, <1>14, <1>15 DEF PoolNext, Session, Reset

(* Pairs are exclusive at every stage of getPair and release.              *)
LEMMA PairStep ==
  ASSUME TypeOK, LockInv, PairInv, [PoolNext]_poolVars PROVE PairInv'
<1>1. ASSUME NEW r \in Sessions, FindPair(r) PROVE PairInv'
  <2>1. /\ st' = [st EXCEPT ![r] = "take"] /\ even' = [even EXCEPT ![r] = even'[r]]
        /\ even'[r] \in free /\ even'[r] + 1 \in free /\ st[r] = "none"
        /\ UNCHANGED <<free, used, inside, reloading>>
    BY <1>1 DEF FindPair, Step, FreePairs, TypeOK
  <2>2. \A s \in Sessions : st[s] \notin Taking \cup Giving
    BY <1>1, NobodyAssumption DEF FindPair, Acquire, LockInv
  <2>3. "getPair" \notin overlapped' => "getPair" \notin overlapped
    BY <1>1 DEF FindPair, Acquire
  <2>4. \A s \in Sessions : s # r => st'[s] = st[s] /\ Pair(s)' = Pair(s)
    BY <2>1 DEF TypeOK, Pair
  <2>5. st'[r] = "take" /\ Pair(r)' \subseteq free'
    BY <2>1 DEF TypeOK, Pair
  <2> QED BY <2>1, <2>2, <2>3, <2>4, <2>5 DEF PairInv, Holding, Taking, Giving
<1>2. ASSUME NEW r \in Sessions, ErasePair(r) PROVE PairInv'
  BY <1>2, NobodyAssumption DEF ErasePair, Step, TypeOK, LockInv, PairInv, Pair, Holding, Taking, Giving
<1>3. ASSUME NEW r \in Sessions, UsePair(r) PROVE PairInv'
  BY <1>3, NobodyAssumption DEF UsePair, Step, Release, TypeOK, LockInv, PairInv, Pair, Holding, Taking, Giving
<1>4. ASSUME NEW r \in Sessions, OpenSockets(r) PROVE PairInv'
  BY <1>4, NobodyAssumption DEF OpenSockets, Step, TypeOK, LockInv, PairInv, Pair, Holding, Taking, Giving
<1>5. ASSUME NEW r \in Sessions, SetupFails(r) PROVE PairInv'
  BY <1>5, NobodyAssumption DEF SetupFails, Step, TypeOK, LockInv, PairInv, Pair, Holding, Taking, Giving
<1>6. ASSUME NEW r \in Sessions, UnusePair(r) PROVE PairInv'
  <2>1. /\ st[r] = "open" /\ st' = [st EXCEPT ![r] = "test"] /\ used' = used \ Pair(r)
        /\ UNCHANGED <<free, even, inside, reloading>>
    BY <1>6 DEF UnusePair, Step
  <2>2. \A s \in Sessions : st[s] \notin Taking \cup Giving
    BY <1>6, NobodyAssumption DEF UnusePair, Acquire, LockInv
  <2>3. "getPair" \notin overlapped' => "getPair" \notin overlapped
    BY <1>6 DEF UnusePair, Acquire
  <2>4. \A s \in Sessions : Pair(s)' = Pair(s) /\ (s # r => st'[s] = st[s])
    BY <2>1 DEF TypeOK, Pair
  <2>5. st'[r] = "test" /\ Pair(r) \cap used' = {}
    BY <2>1 DEF TypeOK
  <2>6. ASSUME "getPair" \notin overlapped, NEW s \in Sessions, Holding(s)'
        PROVE  Holding(s) /\ Pair(s) \subseteq used'
    <3>1. s # r /\ Holding(s) BY <2>4, <2>5, <2>6 DEF Holding
    <3>2. Pair(s) \cap Pair(r) = {} BY <2>1, <2>6, <3>1 DEF PairInv, Holding
    <3> QED BY <2>1, <2>6, <3>1, <3>2 DEF PairInv
  <2> QED BY <2>1, <2>2, <2>3, <2>4, <2>5, <2>6 DEF PairInv, Taking, Giving
<1>7. ASSUME NEW r \in Sessions, TestRange(r) PROVE PairInv'
  BY <1>7, NobodyAssumption DEF TestRange, Step, TypeOK, LockInv, PairInv, Pair, Holding, Taking, Giving
<1>8. ASSUME NEW r \in Sessions, FreePair(r) PROVE PairInv'
  BY <1>8, NobodyAssumption DEF FreePair, Step, Release, TypeOK, LockInv, PairInv, Pair, Holding, Taking, Giving
<1>9. ASSUME NEW r \in Sessions, CloseSockets(r) PROVE PairInv'
  BY <1>9, NobodyAssumption DEF CloseSockets, Step, TypeOK, LockInv, PairInv, Pair, Holding, Taking, Giving
<1>10. CASE Reload
  BY <1>10 DEF Reload, TypeOK, LockInv, PairInv, Pair, Holding, Taking, Giving
<1>11. CASE SetLast
  BY <1>11 DEF SetLast, TypeOK, LockInv, PairInv, Pair, Holding, Taking, Giving
<1>12. CASE ClearFree
  BY <1>12 DEF ClearFree, TypeOK, LockInv, PairInv, Pair, Holding, Taking, Giving
<1>13. CASE CheckPort
  BY <1>13 DEF CheckPort, TypeOK, LockInv, PairInv, Pair, Holding, Taking, Giving
<1>14. CASE InsertPort
  BY <1>14 DEF InsertPort, TypeOK, LockInv, PairInv, Pair, Holding, Taking, Giving
<1>15. CASE UNCHANGED poolVars
  BY <1>15 DEF poolVars, TypeOK, LockInv, PairInv, Pair, Holding, Taking, Giving
<1> QED
  BY <1>1, <1>2, <1>3, <1>4, <1>5, <1>6, <1>7, <1>8, <1>9, <1>10, <1>11, <1>12, <1>13, <1>14, <1>15 DEF PoolNext, Session, Reset

(* No port of the range gets lost.                                         *)
LEMMA RangeStep ==
  ASSUME TypeOK, LockInv, RangeInv, [PoolNext]_poolVars PROVE RangeInv'
<1>1. ASSUME NEW r \in Sessions, FindPair(r) PROVE RangeInv'
  BY <1>1, NobodyAssumption DEF FindPair, Step, Acquire, FreePairs, TypeOK, LockInv, RangeInv, Transit, Pair, InRange, Port, Taking, Giving
<1>2. ASSUME NEW r \in Sessions, ErasePair(r) PROVE RangeInv'
  BY <1>2, NobodyAssumption DEF ErasePair, Step, TypeOK, LockInv, RangeInv, Transit, Pair, InRange, Port, Taking, Giving
<1>3. ASSUME NEW r \in Sessions, UsePair(r) PROVE RangeInv'
  BY <1>3, NobodyAssumption DEF UsePair, Step, Release, TypeOK, LockInv, RangeInv, Transit, Pair, InRange, Port, Taking, Giving
<1>4. ASSUME NEW r \in Sessions, OpenSockets(r) PROVE RangeInv'
  BY <1>4, NobodyAssumption DEF OpenSockets, Step, TypeOK, LockInv, RangeInv, Transit, Pair, InRange, Port, Taking, Giving
<1>5. ASSUME NEW r \in Sessions, SetupFails(r) PROVE RangeInv'
  BY <1>5, NobodyAssumption DEF SetupFails, Step, TypeOK, LockInv, RangeInv, Transit, Pair, InRange, Port, Taking, Giving
<1>6. ASSUME NEW r \in Sessions, UnusePair(r) PROVE RangeInv'
  BY <1>6, NobodyAssumption DEF UnusePair, Step, Acquire, TypeOK, LockInv, RangeInv, Transit, Pair, InRange, Port, Taking, Giving
<1>7. ASSUME NEW r \in Sessions, TestRange(r) PROVE RangeInv'
  BY <1>7, NobodyAssumption DEF TestRange, Step, TypeOK, LockInv, RangeInv, Transit, Pair, InRange, Port, Taking, Giving
<1>8. ASSUME NEW r \in Sessions, FreePair(r) PROVE RangeInv'
  BY <1>8, NobodyAssumption DEF FreePair, Step, Release, TypeOK, LockInv, RangeInv, Transit, Pair, InRange, Port, Taking, Giving
<1>9. ASSUME NEW r \in Sessions, CloseSockets(r) PROVE RangeInv'
  BY <1>9, NobodyAssumption DEF CloseSockets, Step, TypeOK, LockInv, RangeInv, Transit, Pair, InRange, Port, Taking, Giving
<1>10. CASE Reload
  BY <1>10 DEF Reload, TypeOK, LockInv, RangeInv, Transit, Pair, InRange, Port, Taking, Giving
<1>11. CASE SetLast
  BY <1>11 DEF SetLast, TypeOK, LockInv, RangeInv, Transit, Pair, InRange, Port, Taking, Giving
<1>12. CASE ClearFree
  BY <1>12 DEF ClearFree, TypeOK, LockInv, RangeInv, Transit, Pair, InRange, Port, Taking, Giving
<1>13. CASE CheckPort
  <2>1. UNCHANGED <<range, free, used, st, even, inside, overlapped>> /\ reloading.pc = "check"
    BY <1>13 DEF CheckPort
  <2>2. \A p : Transit(p)' <=> Transit(p)
    BY <2>1 DEF Transit, Pair
  <2>3. range.last \in Port /\ range.first \in Port /\ reloading.port \in Port
    BY DEF TypeOK
  <2>4. CASE reloading.port > range.last
    <3>1. reloading' = [pc |-> "idle", port |-> 0] BY <1>13, <2>4 DEF CheckPort
    <3>2. range.last < Width - 1 BY WidthAssumption, <2>3, <2>4 DEF Port
    <3>3. \A p \in InRange : p < reloading.port BY <2>3, <2>4 DEF InRange, Port
    <3>4. "release" \notin overlapped => \A s \in Sessions : st[s] # "give"
      BY <2>1 DEF LockInv, Giving
    <3> QED BY <2>1, <2>2, <3>1, <3>2, <3>3, <3>4 DEF RangeInv, InRange
  <2>5. CASE ~(reloading.port > range.last) /\ reloading.port \in used
    <3>1. reloading' = [reloading EXCEPT !.port = NextPort] BY <1>13, <2>5 DEF CheckPort
    <3>2. reloading'.pc = "check" /\ reloading'.port = NextPort BY <2>1, <3>1 DEF TypeOK
    <3>3. range.last < Width - 1 => NextPort = reloading.port + 1
      BY <2>3, <2>5 DEF NextPort, Port
    <3>4. \A p \in InRange : p < reloading.port + 1 => p < reloading.port \/ p = reloading.port
      BY <2>3 DEF InRange, Port
    <3>5. range.first <= reloading.port => range.first <= reloading.port + 1
      BY <2>3 DEF Port
    <3> QED BY <2>1, <2>2, <2>5, <3>2, <3>3, <3>4, <3>5 DEF RangeInv, InRange
  <2>6. CASE ~(reloading.port > range.last) /\ reloading.port \notin used
    <3>1. reloading' = [reloading EXCEPT !.pc = "insert"] BY <1>13, <2>6 DEF CheckPort
    <3>2. reloading'.pc = "insert" /\ reloading'.port = reloading.port BY <2>1, <3>1 DEF TypeOK
    <3>3. reloading.port <= range.last BY <2>3, <2>6 DEF Port
    <3> QED BY <2>1, <2>2, <3>2, <3>3 DEF RangeInv, InRange
  <2> QED BY <2>4, <2>5, <2>6
<1>14. CASE InsertPort
  <2>1. UNCHANGED <<range, used, st, even, inside, overlapped>> /\ reloading.pc = "insert"
    BY <1>14 DEF InsertPort
  <2>2. \A p : Transit(p)' <=> Transit(p)
    BY <2>1 DEF Transit, Pair
  <2>3. range.last \in Port /\ range.first \in Port /\ reloading.port \in Port
    BY DEF TypeOK
  <2>4. free' = free \cup {reloading.port} /\ reloading'.pc = "check" /\ reloading'.port = NextPort
    BY <1>14 DEF InsertPort
  <2>5. \A p \in InRange : p < reloading.port + 1 => p < reloading.port \/ p = reloading.port
    BY <2>3 DEF InRange, Port
  <2>6. ASSUME "release" \notin overlapped, range.last < Width - 1
        PROVE  /\ NextPort = reloading.port + 1 /\ range.first <= reloading.port + 1
               /\ reloading.port \in InRange
    <3>1. reloading.port <= range.last /\ range.first <= reloading.port
      BY <2>1, <2>6 DEF RangeInv
    <3> QED BY <2>3, <2>6, <3>1 DEF NextPort, InRange, Port
  <2> QED BY <2>1, <2>2, <2>4, <2>5, <2>6 DEF RangeInv, InRange
<1>15. CASE UNCHANGED poolVars
  BY <1>15 DEF poolVars, TypeOK, LockInv, RangeInv, Transit, Pair, InRange, Port, Taking, Giving
<1> QED
  BY <1>1, <1>2, <1>3, <1>4, <1>5, <1>6, <1>7, <1>8, <1>9, <1>10, <1>11, <1>12, <1>13, <1>14, <1>15 DEF PoolNext, Session, Reset

-----------------------------------------------------------------------------
(* The variables stay in their ranges, reloads at any time included.       *)
THEOREM TypeCorrect == PoolSpec => []TypeOK
<1>1. PoolInit => TypeOK /\ PortsInv
  <2> SUFFICES ASSUME PoolInit PROVE TypeOK /\ PortsInv
    OBVIOUS
  <2>1. range \in [first : Port, last : Port] BY RangesAssumption DEF PoolInit
  <2>2. free \subseteq Port
    <3>1. range.first \in Int /\ range.last \in Int /\ range.first >= 0 /\ range.last <= Width - 1
      BY <2>1, WidthAssumption DEF Port
    <3>2. free = range.first .. range.last BY DEF PoolInit, InRange
    <3> QED BY <3>1, <3>2, WidthAssumption DEF Port
  <2>3. 0 \in Port BY WidthAssumption DEF Port
  <2>4. even \in [Sessions -> Port] BY <2>3, Zenon DEF PoolInit
  <2>5. reloading \in [pc : ReloadPcs, port : Port] BY <2>3 DEF PoolInit, ReloadPcs
  <2>6. st \in [Sessions -> SessionPcs] BY DEF PoolInit, SessionPcs
  <2> QED BY <2>1, <2>2, <2>4, <2>5, <2>6 DEF PoolInit, TypeOK, PortsInv
<1>2. TypeOK /\ PortsInv /\ [PoolNext]_poolVars => (TypeOK /\ PortsInv)'
  BY TypeStep
<1> QED BY <1>1, <1>2, PTL DEF PoolSpec

(* The mutex and the pairs, with reloads at any moment.                    *)
LEMMA PairsInvariant == PoolSpec => [](LockInv /\ PairInv)
<1>1. PoolInit => LockInv /\ PairInv
  BY DEF PoolInit, LockInv, PairInv, Holding, Taking, Giving
<1>2. TypeOK /\ LockInv /\ PairInv /\ [PoolNext]_poolVars => (LockInv /\ PairInv)'
  BY LockStep, PairStep
<1> QED BY <1>1, <1>2, TypeCorrect, PTL DEF PoolSpec

(* No port is given to two sessions, and no used port is offered, until a  *)
(* reload runs in the midst of a getPair (getPair, release, reset).        *)
THEOREM PortsExclusive == PoolSpec => [](Exclusive /\ HeldAreUsed)
<1>1. PairInv => Exclusive /\ HeldAreUsed
  BY DEF PairInv, Exclusive, HeldAreUsed
<1> QED BY <1>1, PairsInvariant, PTL

(* No port of the range gets lost and none of another is offered, until a  *)
(* reload runs in the midst of a release.                                  *)
THEOREM PortsKept == PoolSpec => []NoPortLost
<1>1. PoolInit => RangeInv
  BY DEF PoolInit, RangeInv, InRange
<1>2. TypeOK /\ LockInv /\ RangeInv /\ [PoolNext]_poolVars => RangeInv'
  BY RangeStep
<1>3. LockInv /\ RangeInv => NoPortLost
  BY NobodyAssumption DEF LockInv, RangeInv, Transit, Taking, Giving, NoPortLost
<1> QED BY <1>1, <1>2, <1>3, TypeCorrect, PairsInvariant, PTL DEF PoolSpec

-----------------------------------------------------------------------------
(***************************************************************************)
(* The connections. A client that was let in finds room when it is entered *)
(* (RoomInv), as nothing but its own entry makes the list longer; what     *)
(* else may interfere is a reload that lowers the limit in between, which  *)
(* the server does not notice and the model records (raced).               *)
(***************************************************************************)
(* What the list and the limit may be.                                     *)
ListType == list \in Seq(Listed) /\ max \in Nat /\ raced \in BOOLEAN

(* For a client that was let in there is room, as the limit was then.      *)
RoomInv == pc = "add" /\ max # 0 /\ ~raced => Len(list) < max

LimitInv == ListType /\ RoomInv /\ LimitKept

(* What is not longer, and not in other's way, keeps the limit.            *)
LEMMA NoLonger ==
  ASSUME LimitInv, UNCHANGED <<max, sig, raced>>, list' \in Seq(Listed'), Len(list') <= Len(list),
         pc' = "add" => pc = "add"
  PROVE  LimitInv'
<1>1. Len(list) \in Nat /\ Len(list') \in Nat /\ max \in Nat
      BY DEF LimitInv, ListType
<1>. QED
  BY <1>1 DEF LimitInv, ListType, RoomInv, LimitKept

(* erase_if never makes the list longer.                                   *)
LEMMA ErasedIsShorter ==
  ASSUME list \in Seq(Listed), erase_if
  PROVE  list' \in Seq(Listed') /\ Len(list') <= Len(list)
<1>0. Len(list) \in Nat /\ DOMAIN list = 1 .. Len(list)
      OBVIOUS
<1>1. IsFiniteSet(1 .. Len(list)) /\ Cardinality(1 .. Len(list)) = Len(list)
      BY <1>0, FS_Interval
<1>2. Cardinality(Kept) \in Nat /\ Cardinality(Kept) <= Len(list)
  <2>1. Kept \subseteq 1 .. Len(list)
        BY <1>0 DEF Kept
  <2>2. IsFiniteSet(Kept) /\ Cardinality(Kept) <= Cardinality(1 .. Len(list))
        BY <1>1, <2>1, FS_Subset
  <2>. QED
    BY <1>1, <2>2, FS_CardinalityType
<1>3. PICK n \in Nat : n = Cardinality(Kept)
      BY <1>2
<1>4. list' = [k \in 1 .. n |-> list[CHOOSE i \in Kept : Cardinality({j \in Kept : j <= i}) = k]]
      BY <1>3 DEF erase_if
<1>5. DOMAIN list' = 1 .. n
      BY <1>4
<1>6. list' \in [1 .. n -> Listed']
      BY <1>4, <1>5, Zenon DEF Listed
<1>7. list' \in Seq(Listed')
      BY <1>6, <1>3
<1>8. Len(list') = n
      BY <1>7, <1>5, <1>3
<1>. QED
  BY <1>2, <1>3, <1>7, <1>8

(* pop_back.                                                               *)
LEMMA AllButLast ==
  ASSUME NEW S, NEW s \in Seq(S), Len(s) > 0
  PROVE  SubSeq(s, 1, Len(s) - 1) \in Seq(S) /\ Len(SubSeq(s, 1, Len(s) - 1)) = Len(s) - 1
<1>1. Len(s) \in Nat /\ Len(s) - 1 \in Nat /\ DOMAIN s = 1 .. Len(s)
      OBVIOUS
<1>2. \A i \in 1 .. Len(s) - 1 : i \in 1 .. Len(s) /\ s[i] \in S
      BY <1>1
<1>3. SubSeq(s, 1, Len(s) - 1) = [i \in 1 .. Len(s) - 1 |-> s[i]]
      BY <1>1
<1>. QED
  BY <1>1, <1>2, <1>3

(* The server begins with an empty list.                                   *)
LEMMA InitLimit == Init => LimitInv
<1> SUFFICES ASSUME Init PROVE LimitInv
    OBVIOUS
<1>1. max \in Nat
      BY LimitsAssumption DEF Init
<1>2. list = <<>> /\ list \in Seq(Listed) /\ Len(list) = 0
      BY DEF Init
<1>3. raced \in BOOLEAN
      BY DEF Init
<1>4. RoomInv
      BY DEF Init, RoomInv
<1>5. LimitKept
      BY <1>1, <1>2 DEF LimitKept
<1>. QED
  BY <1>1, <1>2, <1>3, <1>4, <1>5 DEF LimitInv, ListType

(* Who is let in finds room, unless a reload was quicker.                  *)
LEMMA MainKeepsLimit == ASSUME LimitInv, Main PROVE LimitInv'
<1> USE DEF LimitInv, ListType
<1>1. CASE start \/ run \/ accept \/ acceptFails \/ destroyInstance \/ join \/ Sweep(MainThread)
  <2>1. UNCHANGED <<list, max, sig, raced>> /\ (pc' # "add" \/ UNCHANGED pc)
        BY <1>1 DEF start, run, accept, acceptFails, destroyInstance, join, Sweep
  <2>2. list' \in Seq(Listed') /\ Len(list') <= Len(list)
        BY <2>1 DEF Listed
  <2>. QED
    BY <2>1, <2>2, NoLonger
<1>2. CASE handle \/ keepAliveFails
  <2>1. UNCHANGED <<list, max, sig, raced>> /\ pc' # "add"
        BY <1>2 DEF handle, keepAliveFails
  <2>2. list' \in Seq(Listed') /\ Len(list') <= Len(list)
        BY <2>1 DEF Listed
  <2>. QED
    BY <2>1, <2>2, NoLonger
<1>3. CASE refuse
  <2>1. UNCHANGED <<max, sig, raced>> /\ pc' # "add" /\ erase_if
        BY <1>3 DEF refuse
  <2>. QED
    BY <2>1, ErasedIsShorter, NoLonger
<1>4. CASE admit
  <2>1. UNCHANGED <<max, sig, raced>> /\ erase_if /\ ~AtLimit(Len(list'))
        BY <1>4 DEF admit
  <2>2. list' \in Seq(Listed') /\ Len(list') \in Nat
        BY <2>1, ErasedIsShorter
  <2>3. max # 0 => Len(list') < max
        BY <2>1, <2>2 DEF AtLimit
  <2>. QED
    BY <2>1, <2>2, <2>3 DEF RoomInv, LimitKept
<1>5. CASE push_back
  <2>1. PICK n \in Conns : list' = Append(list, n)
        BY <1>5 DEF push_back
  <2>2. pc = "add" /\ pc' = "test" /\ UNCHANGED <<max, sig, raced>>
        BY <1>5 DEF push_back
  <2>3. Len(list') = Len(list) + 1 /\ Len(list) \in Nat /\ list' \in Seq(Listed \cup {n})
        BY <2>1
  <2>4. list' \in Seq(Listed')
        BY <2>3 DEF Listed
  <2>5. max # 0 /\ ~raced => Len(list') <= max
        BY <2>2, <2>3 DEF RoomInv
  <2>. QED
    BY <2>2, <2>4, <2>5 DEF RoomInv, LimitKept
<1>6. CASE clear
  <2>1. UNCHANGED <<max, sig, raced>> /\ pc' # "add"
        BY <1>6 DEF clear, Crash
  <2>2. UNCHANGED list \/ (list # <<>> /\ list' = Tail(list))
        BY <1>6 DEF clear
  <2>3. list' \in Seq(Listed) /\ Len(list') <= Len(list)
        BY <2>2
  <2>4. list' \in Seq(Listed')
        BY <2>3 DEF Listed
  <2>. QED
    BY <2>1, <2>3, <2>4, NoLonger
<1>. QED
  BY <1>1, <1>2, <1>3, <1>4, <1>5, <1>6 DEF Main

(* The cleaner only erases.                                                *)
LEMMA CleanerKeepsLimit == ASSUME LimitInv, Cleaner PROVE LimitInv'
<1> USE DEF LimitInv, ListType
<1>1. CASE clean \/ cleanLock \/ wakeup \/ Sweep(CleanerThread)
  <2>1. UNCHANGED <<list, max, sig, raced, pc>>
        BY <1>1 DEF clean, cleanLock, wakeup, Sweep
  <2>2. list' \in Seq(Listed') /\ Len(list') <= Len(list)
        BY <2>1 DEF Listed
  <2>. QED
    BY <2>1, <2>2, NoLonger
<1>2. CASE cleanErase
  <2>1. UNCHANGED <<max, sig, raced, pc>> /\ erase_if
        BY <1>2 DEF cleanErase
  <2>. QED
    BY <2>1, ErasedIsShorter, NoLonger
<1>. QED
  BY <1>1, <1>2 DEF Cleaner

(* The signal handler sets the limit, and drops what is beyond it.         *)
LEMMA HandlerKeepsLimit == ASSUME LimitInv, SigHandler PROVE LimitInv'
<1> USE DEF LimitInv, ListType
<1>1. CASE term
  <2>1. UNCHANGED <<list, max, raced>> /\ sig = "term" /\ (pc' = "add" => pc = "add")
        BY <1>1 DEF term, Crash, Interrupted
  <2>2. list' \in Seq(Listed')
        BY <2>1 DEF Listed
  <2>. QED
    BY <2>1, <2>2 DEF RoomInv, LimitKept
<1>2. CASE hup
  <2>1. /\ UNCHANGED list /\ sig = "hup" /\ (pc' = "add" => pc = "add")
        /\ \/ sig' = "reload" /\ max' \in Limits /\ raced' = (raced \/ pc = "add")
           \/ UNCHANGED <<max, raced>>
        BY <1>2 DEF hup, Return, Interrupted
  <2>2. list' \in Seq(Listed') /\ max' \in Nat /\ raced' \in BOOLEAN
        BY <2>1, LimitsAssumption DEF Listed
  <2>. QED
    BY <2>1, <2>2 DEF RoomInv, LimitKept
<1>3. CASE pop_back
  <2>1. /\ UNCHANGED <<max, sig, raced>> /\ (pc' = "add" => pc = "add")
        /\ list' = SubSeq(list, 1, Len(list) - 1) /\ Len(list) > max
        BY <1>3 DEF pop_back, Crash
  <2>2. Len(list) \in Nat /\ Len(list) - 1 \in Nat /\ Len(list) - 1 <= Len(list)
        BY <2>1
  <2>3. list' \in Seq(Listed) /\ Len(list') = Len(list) - 1
        BY <2>1, <2>2, AllButLast
  <2>4. list' \in Seq(Listed')
        BY <2>3 DEF Listed
  <2>. QED
    BY <2>1, <2>2, <2>3, <2>4, NoLonger
<1>4. CASE setupParameters
  <2>1. /\ UNCHANGED <<list, max>> /\ (max # 0 => Len(list) <= max)
        /\ raced' = (raced /\ pc = "add") /\ (pc' = "add" => pc = "add")
        BY <1>4 DEF setupParameters, Interrupted
  <2>2. list' \in Seq(Listed') /\ raced' \in BOOLEAN
        BY <2>1 DEF Listed
  <2>. QED
    BY <2>1, <2>2 DEF RoomInv, LimitKept
<1>. QED
  BY <1>1, <1>2, <1>3, <1>4 DEF SigHandler

(* Every step.                                                             *)
LEMMA NextKeepsLimit == ASSUME LimitInv, [Next]_vars PROVE LimitInv'
<1>1. CASE \/ Connect \/ \E c \in Conns : Serve(c) \/ Served(c) \/ Leave(c)
           \/ \E s \in {"term", "hup"}, t \in Threads : Signal(s, t)
           \/ UNCHANGED vars
  <2>1. UNCHANGED <<list, max, raced, pc>> /\ (sig' = sig \/ (sig = "none" /\ sig' # "none"))
        BY <1>1 DEF Connect, Serve, Served, Leave, Quiet, Signal, vars
  <2>2. list' \in Seq(Listed')
        BY <2>1 DEF Listed, LimitInv, ListType
  <2>. QED
    BY <2>1, <2>2 DEF LimitInv, ListType, RoomInv, LimitKept
<1>. QED
  BY <1>1, MainKeepsLimit, CleanerKeepsLimit, HandlerKeepsLimit DEF Next

(* There are never more connections than the limit says, with any number   *)
(* of clients and reloads, but for the one that a reload has come upon     *)
(* between the check and its entry (Server::handle, setupParameters).      *)
THEOREM LimitIsKept == Spec => []LimitKept
<1>1. LimitInv => LimitKept
      BY DEF LimitInv
<1>. QED
  BY <1>1, InitLimit, NextKeepsLimit, PTL DEF Spec

=============================================================================
