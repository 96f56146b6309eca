--------------------------- MODULE HttpApp_proofs ---------------------------
(***************************************************************************)
(* That the guard of the metrics admits the private blocks exactly, that a *)
(* ready answer and a join token mean what they say, for every number of   *)
(* requests and stores and whenever these fail.                            *)
(***************************************************************************)
EXTENDS HttpApp, TLAPS

USE HttpAppAssumption

-----------------------------------------------------------------------------
(* The guard of the metrics *)

\* The comparisons of the first two numbers of an IPv4 address are those of its blocks.
LEMMA Blocks4 ==
  ASSUME NEW a \in Octet, NEW b \in Octet
  PROVE  Private4(a, b) <=> \/ a = 127 \/ a = 10
                            \/ a = 172 /\ Second172(b)
                            \/ a = 192 /\ b = 168
                            \/ a = 169 /\ b = 254
<1> DEFINE address == a * 256 + b
<1>1. InBlock(address, 16, 8, 127 * 256) <=> a = 127
  <2>1. (a * 256 + b) \div 256 = (127 * 256) \div 256 <=> a = 127
    BY Z3T(30) DEF Octet
  <2>2. 2^(16 - 8) = 256
    BY SMT
  <2> QED BY <2>1, <2>2 DEF InBlock
<1>2. InBlock(address, 16, 8, 10 * 256) <=> a = 10
  <2>1. (a * 256 + b) \div 256 = (10 * 256) \div 256 <=> a = 10
    BY Z3T(30) DEF Octet
  <2>2. 2^(16 - 8) = 256
    BY SMT
  <2> QED BY <2>1, <2>2 DEF InBlock
<1>3. InBlock(address, 16, 12, 172 * 256 + 16) <=> a = 172 /\ Second172(b)
  <2>1. (a * 256 + b) \div 16 = (172 * 256 + 16) \div 16 <=> a = 172 /\ b >= 16 /\ b <= 31
    BY Z3T(30) DEF Octet
  <2>2. 2^(16 - 12) = 16
    BY SMT
  <2> QED BY <2>1, <2>2 DEF InBlock, Second172
<1>4. InBlock(address, 16, 16, 192 * 256 + 168) <=> a = 192 /\ b = 168
  <2>1. (a * 256 + b) \div 1 = (192 * 256 + 168) \div 1 <=> a = 192 /\ b = 168
    BY Z3T(30) DEF Octet
  <2>2. 2^(16 - 16) = 1
    BY SMT
  <2> QED BY <2>1, <2>2 DEF InBlock
<1>5. InBlock(address, 16, 16, 169 * 256 + 254) <=> a = 169 /\ b = 254
  <2>1. (a * 256 + b) \div 1 = (169 * 256 + 254) \div 1 <=> a = 169 /\ b = 254
    BY Z3T(30) DEF Octet
  <2>2. 2^(16 - 16) = 1
    BY SMT
  <2> QED BY <2>1, <2>2 DEF InBlock
<1> HIDE DEF address
<1>6. Private4(a, b) <=> \/ InBlock(address, 16, 8, 127 * 256)
                         \/ InBlock(address, 16, 8, 10 * 256)
                         \/ InBlock(address, 16, 12, 172 * 256 + 16)
                         \/ InBlock(address, 16, 16, 192 * 256 + 168)
                         \/ InBlock(address, 16, 16, 169 * 256 + 254)
  BY DEF Private4, address
<1> QED BY <1>1, <1>2, <1>3, <1>4, <1>5, <1>6

\* The first digits of the first group of an IPv6 address a caller may have are those of
\* its block: leading zeros, which are not written, would need an address of no block.
LEMMA Blocks6 ==
  ASSUME NEW group \in Group, InBlock(group, 16, 3, 8192) \/ InBlock(group, 16, 7, 64512)
                                \/ InBlock(group, 16, 10, 65152)
  PROVE  /\ (\E prefix \in {252, 253} : StartsWith(group, 2, prefix))
              <=> InBlock(group, 16, 7, 64512)
         /\ (\E prefix \in 4072..4075 : StartsWith(group, 3, prefix))
              <=> InBlock(group, 16, 10, 65152)
<1>1. /\ InBlock(group, 16, 3, 8192) <=> group \div 8192 = 1
      /\ InBlock(group, 16, 7, 64512) <=> group \div 512 = 126
      /\ InBlock(group, 16, 10, 65152) <=> group \div 64 = 1018
  <2>1. 2^(16 - 3) = 8192 /\ 2^(16 - 7) = 512 /\ 2^(16 - 10) = 64
    BY SMT
  <2>2. 8192 \div 8192 = 1 /\ 64512 \div 512 = 126 /\ 65152 \div 64 = 1018
    BY Z3T(30)
  <2> QED BY <2>1, <2>2 DEF InBlock
<1>2. 16^0 = 1 /\ 16^1 = 16 /\ 16^2 = 256
  BY SMT
<1>3. ASSUME NEW prefix
      PROVE  StartsWith(group, 2, prefix) <=>
               group \div 1 = prefix \/ group \div 16 = prefix \/ group \div 256 = prefix
  <2>1. StartsWith(group, 2, prefix) <=> \E rest \in {0, 1, 2} : group \div 16^rest = prefix
    BY DEF StartsWith
  <2> QED BY <1>2, <2>1
<1>4. ASSUME NEW prefix
      PROVE  StartsWith(group, 3, prefix) <=> group \div 1 = prefix \/ group \div 16 = prefix
  <2>1. StartsWith(group, 3, prefix) <=> \E rest \in {0, 1} : group \div 16^rest = prefix
    BY DEF StartsWith
  <2> QED BY <1>2, <2>1
<1>5. group \div 8192 = 1 \/ group \div 512 = 126 \/ group \div 64 = 1018
  BY <1>1
<1>6. group \div 1 \in Int /\ group \div 1 >= 8192
  BY <1>5, Z3T(30) DEF Group
<1>7. group \div 16 \in Int /\ group \div 16 >= 512
  BY <1>5, Z3T(30) DEF Group
<1>8. group \div 256 = 252 \/ group \div 256 = 253 <=> group \div 512 = 126
  BY Z3T(30) DEF Group
<1>9. group \div 16 \in 4072..4075 <=> group \div 64 = 1018
  BY Z3T(30) DEF Group
<1>10. group \div 1 \in 4072..4075 => FALSE
  BY <1>6
<1>11. (\E prefix \in {252, 253} : StartsWith(group, 2, prefix)) <=> group \div 512 = 126
  BY <1>3, <1>6, <1>7, <1>8
<1>12. (\E prefix \in 4072..4075 : StartsWith(group, 3, prefix)) <=> group \div 64 = 1018
  BY <1>4, <1>9, <1>10
<1> QED BY <1>1, <1>11, <1>12

\* The guard admits the callers of the private blocks, in whichever form their address
\* comes, and no others.
LEMMA GuardExact ==
  ASSUME NEW ip \in Address, MayConnect(ip)
  PROVE  IsMetricsAccessAllowed(ip) <=> FromInside(ip)
<1>1. CASE ip = NoAddress
  BY <1>1 DEF NoAddress, IsMetricsAccessAllowed, IsInternalAddress, NormalizeIp, FromInside
<1>2. CASE ip \in [version : {4}, mapped : BOOLEAN, a : Octet, b : Octet]
  <2>1. ip.version = 4 /\ ip.a \in Octet /\ ip.b \in Octet
    BY <1>2
  <2>2. /\ NormalizeIp(ip).version = 4 /\ ~NormalizeIp(ip).mapped
        /\ NormalizeIp(ip).a = ip.a /\ NormalizeIp(ip).b = ip.b
    BY <1>2, <2>1 DEF NormalizeIp
  <2> QED BY <2>1, <2>2, Blocks4 DEF IsMetricsAccessAllowed, IsInternalAddress, FromInside
<1>3. CASE ip \in [version : {6}, group : Group, one : BOOLEAN, zone : BOOLEAN]
  <2>1. ip.version = 6 /\ ip.group \in Group
    BY <1>3
  <2>2. /\ NormalizeIp(ip).version = 6 /\ NormalizeIp(ip).group = ip.group
        /\ NormalizeIp(ip).one = ip.one
    BY <1>3, <2>1 DEF NormalizeIp
  <2> QED BY <2>1, <2>2, Blocks6
          DEF IsMetricsAccessAllowed, IsInternalAddress, FromInside, MayConnect, Private6
<1> QED BY <1>1, <1>2, <1>3 DEF Address

-----------------------------------------------------------------------------
(* The invariant, for the requests and for the probes *)

\* What the invariant says of the requests of the join endpoint and of the metrics.
RequestsRight == RequestsByPhase /\ TokenWarranted /\ ServedInside

\* What it says of the readiness requests.
ProbesRight == ChecksNoted /\ WithinBudget /\ ReadyMeansReached

LEMMA RequestsKept ==
  ASSUME RequestsRight, UNCHANGED <<request, board, locked>>
  PROVE  RequestsRight'
BY DEF RequestsRight, RequestsByPhase, TokenWarranted, ServedInside

LEMMA ProbesKept ==
  ASSUME ProbesRight, UNCHANGED <<clock, store, healthy, probe, reached>>
  PROVE  ProbesRight'
<1>1. \A d : Working(d)' <=> Working(d)
  BY DEF Working
<1>2. ChecksNoted'
  BY <1>1 DEF ProbesRight, ChecksNoted, Ready
<1>3. WithinBudget' /\ ReadyMeansReached'
  BY DEF ProbesRight, WithinBudget, ReadyMeansReached
<1> QED BY <1>2, <1>3 DEF ProbesRight

\* Nothing was asked yet.
LEMMA AInitInv == AInit => AInv
<1> SUFFICES ASSUME AInit PROVE AInv
  OBVIOUS
<1>1. ATypeOK
  <2>1. probe \in [Probes -> ProbeState]
    <3>1. [d \in Checks |-> "pending"] \in [Checks -> Statuses]
      BY DEF Statuses
    <3>2. [phase |-> "idle", since |-> 0, status |-> [d \in Checks |-> "pending"]] \in ProbeState
      BY <3>1 DEF ProbeState
    <3> QED BY <3>2 DEF AInit
  <2>2. request \in [Requests -> RequestState]
    <3>1. [phase |-> "idle", code |-> 0, entitled |-> FALSE, late |-> FALSE, route |-> "none"]
            \in RequestState
      BY DEF RequestState, Codes
    <3> QED BY <3>1 DEF AInit
  <2>3. \A r \in Requests : (request[r].phase = "answered") <=> (request[r].code # 0)
    BY DEF AInit
  <2>4. healthy \in BOOLEAN /\ locked \in BOOLEAN
    BY DEF AInit
  <2>5. /\ clock \in 0..MaxClock /\ changes \in 0..MaxChanges
        /\ store \in [Stores -> {"up", "down", "hung"}]
        /\ board \in {"absent", "open", "protected"}
        /\ reached \in [Probes -> SUBSET Checks]
    BY DEF AInit
  <2> QED BY <2>1, <2>2, <2>3, <2>4, <2>5 DEF ATypeOK
<1>2. ChecksNoted /\ WithinBudget /\ ReadyMeansReached
  BY DEF AInit, ChecksNoted, WithinBudget, ReadyMeansReached
<1>3. RequestsByPhase /\ TokenWarranted /\ ServedInside
  BY DEF AInit, RequestsByPhase, TokenWarranted, ServedInside
<1> QED BY <1>1, <1>2, <1>3 DEF AInv

-----------------------------------------------------------------------------
(* The readiness requests *)

\* An update of one readiness request keeps the types.
LEMMA ProbeTyped ==
  ASSUME ATypeOK, NEW p \in Probes, NEW new \in ProbeState, probe' = [probe EXCEPT ![p] = new],
         reached' \in [Probes -> SUBSET Checks],
         UNCHANGED <<clock, store, healthy, changes, board, request, locked>>
  PROVE  ATypeOK'
<1>1. probe' \in [Probes -> ProbeState]
  BY DEF ATypeOK
<1>2. healthy' \in BOOLEAN /\ locked' \in BOOLEAN
  BY Zenon DEF ATypeOK
<1> QED BY <1>1, <1>2 DEF ATypeOK

\* A request over an insecure connection is refused.
LEMMA RefuseReadyzKeeps ==
  ASSUME AInv, NEW p \in Probes, RefuseReadyz(p)
  PROVE  AInv'
<1> DEFINE new == [probe[p] EXCEPT !.phase = "refused"]
<1>1. /\ probe' = [probe EXCEPT ![p] = new] /\ probe \in [Probes -> ProbeState]
      /\ UNCHANGED <<clock, store, healthy, changes, board, request, locked, reached>>
  BY DEF RefuseReadyz, envVars, AInv, ATypeOK
<1>2. new \in ProbeState /\ new.phase = "refused"
  BY <1>1 DEF ProbeState
<1> HIDE DEF new
<1>3. ATypeOK'
  BY <1>1, <1>2, ProbeTyped DEF AInv, ATypeOK
<1>4. RequestsRight'
  BY <1>1, RequestsKept DEF AInv, RequestsRight
<1>5. \A q \in Probes : probe'[q].phase = "refused" \/ probe'[q] = probe[q]
  BY <1>1, <1>2
<1>6. \A d : Working(d)' <=> Working(d)
  BY <1>1 DEF Working
<1>7. ChecksNoted'
  BY <1>1, <1>5, <1>6 DEF AInv, ChecksNoted, Ready
<1>8. WithinBudget' /\ ReadyMeansReached'
  BY <1>1, <1>5 DEF AInv, WithinBudget, ReadyMeansReached
<1> QED BY <1>3, <1>4, <1>7, <1>8 DEF AInv, RequestsRight

\* A request starts its checks: what works is noted, and the flag is among it when it is up.
LEMMA ReadyzKeeps ==
  ASSUME AInv, NEW p \in Probes, Readyz(p)
  PROVE  AInv'
<1> DEFINE status == [d \in Checks |-> IF d # Persistence THEN "pending"
                                        ELSE IF healthy THEN "ok" ELSE "failed"]
           new == [phase |-> "waiting", since |-> clock, status |-> status]
           working == {d \in Checks : Working(d)}
<1>1. /\ probe' = [probe EXCEPT ![p] = new] /\ probe \in [Probes -> ProbeState]
      /\ reached' = [reached EXCEPT ![p] = working] /\ reached \in [Probes -> SUBSET Checks]
      /\ clock \in 0..MaxClock
      /\ UNCHANGED <<clock, store, healthy, changes, board, request, locked>>
  BY DEF Readyz, envVars, AInv, ATypeOK
<1>2. /\ status \in [Checks -> Statuses]
      /\ \A d \in Checks : status[d] = "ok" => d \in working
  BY DEF Statuses, Working
<1>3. working \subseteq Checks /\ \A d \in Checks : Working(d) => d \in working
  OBVIOUS
<1> HIDE DEF status, working
<1>4. new \in ProbeState /\ new.phase = "waiting" /\ new.since = clock /\ new.status = status
  BY <1>1, <1>2 DEF ProbeState
<1> HIDE DEF new
<1>5. ATypeOK'
  <2>1. reached' \in [Probes -> SUBSET Checks]
    BY <1>1, <1>3
  <2> QED BY <1>1, <1>4, <2>1, ProbeTyped DEF AInv
<1>6. RequestsRight'
  BY <1>1, RequestsKept DEF AInv, RequestsRight
<1>7. \A q \in Probes : \/ q = p /\ probe'[q] = new /\ reached'[q] = working
                        \/ probe'[q] = probe[q] /\ reached'[q] = reached[q]
  BY <1>1
<1>8. \A d : Working(d)' <=> Working(d)
  BY <1>1 DEF Working
<1>9. ChecksNoted'
  BY <1>2, <1>3, <1>4, <1>7, <1>8 DEF AInv, ChecksNoted, Ready
<1>10. WithinBudget'
  BY <1>1, <1>4, <1>7 DEF AInv, WithinBudget
<1>11. ReadyMeansReached'
  BY <1>4, <1>7 DEF AInv, ReadyMeansReached
<1> QED BY <1>5, <1>6, <1>9, <1>10, <1>11 DEF AInv, RequestsRight

\* A check settles as ok only when its store has answered, and so works.
LEMMA SettleKeeps ==
  ASSUME AInv, NEW p \in Probes, NEW d \in Stores, Settle(p, d)
  PROVE  AInv'
<1>1. PICK s \in {"ok", "failed"} :
        /\ s = "ok" => store[d] = "up"
        /\ probe' = [probe EXCEPT ![p].status[d] = s]
  BY DEF Settle, TimeoutStatus
<1> DEFINE new == [probe[p] EXCEPT !.status = [probe[p].status EXCEPT ![d] = s]]
<1>2. /\ probe' = [probe EXCEPT ![p] = new] /\ probe \in [Probes -> ProbeState]
      /\ probe[p] \in ProbeState /\ probe[p].phase = "waiting"
      /\ UNCHANGED <<clock, store, healthy, changes, board, request, locked, reached>>
  BY <1>1 DEF Settle, envVars, AInv, ATypeOK
<1>3. d \in Checks /\ d # Persistence
  BY DEF Checks
<1>4. /\ probe[p].status \in [Checks -> Statuses]
      /\ [probe[p].status EXCEPT ![d] = s] \in [Checks -> Statuses]
  BY <1>2, <1>3 DEF ProbeState, Statuses
<1>5. /\ new \in ProbeState /\ new.phase = "waiting" /\ new.since = probe[p].since
      /\ \A e \in Checks : new.status[e] = IF e = d THEN s ELSE probe[p].status[e]
  BY <1>2, <1>4 DEF ProbeState
<1> HIDE DEF new
<1>6. ATypeOK'
  BY <1>2, <1>5, ProbeTyped DEF AInv, ATypeOK
<1>7. RequestsRight'
  BY <1>2, RequestsKept DEF AInv, RequestsRight
<1>8. \A q \in Probes : (q = p /\ probe'[q] = new) \/ probe'[q] = probe[q]
  BY <1>2
<1>9. \A e : Working(e)' <=> Working(e)
  BY <1>2 DEF Working
<1>10. s = "ok" => d \in reached[p]
  BY <1>1, <1>2, <1>3 DEF AInv, ChecksNoted, Working
<1>11. ChecksNoted'
  <2>1. SUFFICES ASSUME NEW q \in Probes
                 PROVE  /\ probe'[q].phase = "waiting" =>
                             \A e \in Checks : Working(e) => e \in reached[q]
                        /\ probe'[q].phase \in {"waiting", "ready"} =>
                             \A e \in Checks : probe'[q].status[e] = "ok" => e \in reached[q]
                        /\ probe'[q].phase = "ready" => Ready(probe'[q].status)
    BY <1>2, <1>9 DEF ChecksNoted, Ready
  <2>2. CASE q = p /\ probe'[q] = new
    BY <1>2, <1>5, <1>10, <2>2 DEF AInv, ChecksNoted
  <2>3. CASE probe'[q] = probe[q]
    BY <2>3 DEF AInv, ChecksNoted
  <2> QED BY <1>8, <2>2, <2>3
<1>12. WithinBudget'
  BY <1>2, <1>5, <1>8 DEF AInv, WithinBudget
<1>13. ReadyMeansReached'
  BY <1>2, <1>5, <1>8 DEF AInv, ReadyMeansReached
<1> QED BY <1>6, <1>7, <1>11, <1>12, <1>13 DEF AInv, RequestsRight

\* A request is answered ready when all its checks are ok, each of what was reached.
LEMMA RespondKeeps ==
  ASSUME AInv, NEW p \in Probes, Respond(p)
  PROVE  AInv'
<1> DEFINE answer == IF Ready(probe[p].status) THEN "ready" ELSE "not_ready"
           new == [probe[p] EXCEPT !.phase = answer]
<1>1. /\ probe' = [probe EXCEPT ![p] = new] /\ probe \in [Probes -> ProbeState]
      /\ probe[p] \in ProbeState /\ probe[p].phase = "waiting"
      /\ reached \in [Probes -> SUBSET Checks]
      /\ UNCHANGED <<clock, store, healthy, changes, board, request, locked, reached>>
  BY DEF Respond, envVars, AInv, ATypeOK
<1>2. /\ answer \in {"ready", "not_ready"}
      /\ answer = "ready" => Ready(probe[p].status)
  OBVIOUS
<1> HIDE DEF answer
<1>3. new \in ProbeState /\ new.phase = answer /\ new.status = probe[p].status
  BY <1>1, <1>2 DEF ProbeState
<1> HIDE DEF new
<1>4. ATypeOK'
  BY <1>1, <1>3, ProbeTyped DEF AInv
<1>5. RequestsRight'
  BY <1>1, RequestsKept DEF AInv, RequestsRight
<1>6. \A q \in Probes : (q = p /\ probe'[q] = new) \/ probe'[q] = probe[q]
  BY <1>1
<1>7. \A d : Working(d)' <=> Working(d)
  BY <1>1 DEF Working
<1>8. ChecksNoted'
  <2>1. SUFFICES ASSUME NEW q \in Probes
                 PROVE  /\ probe'[q].phase = "waiting" =>
                             \A e \in Checks : Working(e) => e \in reached[q]
                        /\ probe'[q].phase \in {"waiting", "ready"} =>
                             \A e \in Checks : probe'[q].status[e] = "ok" => e \in reached[q]
                        /\ probe'[q].phase = "ready" => Ready(probe'[q].status)
    BY <1>1, <1>7 DEF ChecksNoted, Ready
  <2>2. CASE q = p /\ probe'[q] = new
    BY <1>1, <1>2, <1>3, <2>2 DEF AInv, ChecksNoted
  <2>3. CASE probe'[q] = probe[q]
    BY <2>3 DEF AInv, ChecksNoted
  <2> QED BY <1>6, <2>2, <2>3
<1>9. WithinBudget'
  BY <1>1, <1>2, <1>3, <1>6 DEF AInv, WithinBudget
<1>10. ReadyMeansReached'
  <2>1. SUFFICES ASSUME NEW q \in Probes, probe'[q].phase = "ready"
                 PROVE  reached[q] = Checks
    BY <1>1 DEF ReadyMeansReached
  <2>2. CASE q = p /\ probe'[q] = new
    <3>1. \A d \in Checks : probe[p].status[d] = "ok" /\ d \in reached[p]
      BY <1>1, <1>2, <1>3, <2>1, <2>2 DEF AInv, ChecksNoted, Ready
    <3> QED BY <1>1, <2>2, <3>1
  <2>3. CASE probe'[q] = probe[q]
    BY <2>1, <2>3 DEF AInv, ReadyMeansReached
  <2> QED BY <1>6, <2>2, <2>3
<1> QED BY <1>4, <1>5, <1>8, <1>9, <1>10 DEF AInv, RequestsRight

\* Time does not pass the budget of a check that has not settled.
LEMMA AdvanceKeeps == AInv /\ Advance => AInv'
<1> SUFFICES ASSUME AInv, Advance PROVE AInv'
  OBVIOUS
<1>1. /\ clock < MaxClock /\ clock' = clock + 1 /\ clock \in 0..MaxClock
      /\ UNCHANGED <<store, healthy, changes, board, probe, request, reached, locked>>
  BY DEF Advance, envVars, AInv, ATypeOK
<1>2. ATypeOK'
  <2>1. healthy' \in BOOLEAN /\ locked' \in BOOLEAN
    BY <1>1, Zenon DEF AInv, ATypeOK
  <2> QED BY <1>1, <2>1 DEF AInv, ATypeOK
<1>3. RequestsRight'
  BY <1>1, RequestsKept DEF AInv, RequestsRight
<1>4. ChecksNoted' /\ ReadyMeansReached'
  <2>1. \A d : Working(d)' <=> Working(d)
    BY <1>1 DEF Working
  <2> QED BY <1>1, <2>1 DEF AInv, ChecksNoted, Ready, ReadyMeansReached
<1>5. WithinBudget'
  <2>1. SUFFICES ASSUME NEW p \in Probes, probe[p].phase = "waiting"
                 PROVE  clock + 1 <= probe[p].since + Budget
    BY <1>1 DEF WithinBudget
  <2>2. clock <= probe[p].since + Budget
    BY <2>1 DEF AInv, WithinBudget
  <2>3. clock # probe[p].since + Budget
    BY <2>1 DEF Advance, Due
  <2>4. probe[p].since \in 0..MaxClock
    BY DEF AInv, ATypeOK, ProbeState
  <2> QED BY <1>1, <2>2, <2>3, <2>4
<1> QED BY <1>2, <1>3, <1>4, <1>5 DEF AInv, RequestsRight

\* What comes to work while a request waits is noted.
LEMMA ChangeKeeps == AInv /\ Change => AInv'
<1> SUFFICES ASSUME AInv, Change PROVE AInv'
  OBVIOUS
<1> DEFINE working == {d \in Checks : Working(d)'}
<1>1. /\ changes' \in 0..MaxChanges
      /\ reached' = [p \in Probes |-> IF probe[p].phase = "waiting"
                                       THEN reached[p] \union working ELSE reached[p]]
      /\ UNCHANGED <<clock, board, probe, request, locked>>
  BY DEF Change, AInv, ATypeOK
<1>2. store' \in [Stores -> {"up", "down", "hung"}]
  BY DEF Change, AInv, ATypeOK
<1>3. healthy' \in BOOLEAN
  BY DEF Change, AInv, ATypeOK
<1>4. working \subseteq Checks /\ \A d \in Checks : Working(d)' => d \in working
  OBVIOUS
<1> HIDE DEF working
<1>5. \A p \in Probes : /\ reached[p] \subseteq reached'[p] /\ reached'[p] \subseteq Checks
                        /\ probe[p].phase = "waiting" => reached'[p] = reached[p] \union working
                        /\ probe[p].phase # "waiting" => reached'[p] = reached[p]
  BY <1>1, <1>4 DEF AInv, ATypeOK
<1>6. ATypeOK'
  <2>1. reached' \in [Probes -> SUBSET Checks]
    BY <1>1, <1>5
  <2>2. locked' \in BOOLEAN
    BY <1>1, Zenon DEF AInv, ATypeOK
  <2> QED BY <1>1, <1>2, <1>3, <2>1, <2>2 DEF AInv, ATypeOK
<1>7. RequestsRight'
  BY <1>1, RequestsKept DEF AInv, RequestsRight
<1>8. ChecksNoted'
  BY <1>1, <1>4, <1>5 DEF AInv, ChecksNoted, Ready
<1>9. WithinBudget' /\ ReadyMeansReached'
  BY <1>1, <1>5 DEF AInv, WithinBudget, ReadyMeansReached
<1> QED BY <1>6, <1>7, <1>8, <1>9 DEF AInv, RequestsRight

-----------------------------------------------------------------------------
(* The join endpoint and the metrics *)

\* What a request may become while it is served, the board given.
Served(q, protected) ==
  /\ q \in RequestState
  /\ q.phase = "answered" <=> q.code # 0
  /\ q.phase # "idle"
  /\ q.phase \in {"lookup", "compare", "ensure"} => q.route = "join"
  /\ q.phase = "scrape" => q.route = "metrics" /\ q.entitled
  /\ q.late => locked
  /\ q.phase = "ensure" /\ q.late => q.entitled
  /\ q.route = "join" /\ q.code = 200 => protected # "absent" /\ (q.late => q.entitled)
  /\ q.route = "metrics" => (q.entitled <=> q.phase = "scrape" \/ q.code \in {200, 500})

\* A step that serves one request, and at most creates the row of the board.
LEMMA ServedKeeps ==
  ASSUME AInv, NEW r \in Requests, NEW new, request' = [request EXCEPT ![r] = new],
         Served(new, board'), board' = board \/ (board = "absent" /\ board' = "open"),
         UNCHANGED <<clock, store, healthy, changes, probe, reached, locked>>
  PROVE  AInv'
<1>1. /\ request \in [Requests -> RequestState] /\ new \in RequestState
      /\ request' \in [Requests -> RequestState]
      /\ board' \in {"absent", "open", "protected"}
  BY DEF AInv, ATypeOK, Served
<1>2. \A q \in Requests : (q = r /\ request'[q] = new) \/ request'[q] = request[q]
  BY <1>1
<1>3. ATypeOK'
  <2>1. healthy' \in BOOLEAN /\ locked' \in BOOLEAN
    BY Zenon DEF AInv, ATypeOK
  <2>2. \A q \in Requests : (request'[q].phase = "answered") <=> (request'[q].code # 0)
    BY <1>2 DEF AInv, ATypeOK, Served
  <2> QED BY <1>1, <2>1, <2>2 DEF AInv, ATypeOK
<1>4. ProbesRight'
  BY ProbesKept DEF AInv, ProbesRight
<1>5. RequestsByPhase'
  <2>1. locked => board' = "protected"
    BY DEF AInv, RequestsByPhase
  <2> QED BY <1>2, <2>1 DEF AInv, RequestsByPhase, Served
<1>6. TokenWarranted'
  BY <1>2 DEF AInv, TokenWarranted, Served
<1>7. ServedInside'
  BY <1>2 DEF AInv, ServedInside, Served
<1> QED BY <1>3, <1>4, <1>5, <1>6, <1>7 DEF AInv, ProbesRight

\* What the fields of a request are after a step of it.
LEMMA MovedRequest ==
  ASSUME AInv, NEW r \in Requests, NEW code \in Codes,
         NEW phase \in {"compare", "ensure", "answered"}, request' = Moved(r, phase, code)
  PROVE  \E new \in RequestState :
           /\ request' = [request EXCEPT ![r] = new]
           /\ new.phase = phase /\ new.code = code
           /\ new.entitled = request[r].entitled /\ new.late = request[r].late
           /\ new.route = request[r].route
<1> DEFINE new == [request[r] EXCEPT !.phase = phase, !.code = code]
<1>1. request \in [Requests -> RequestState] /\ request[r] \in RequestState
  BY DEF AInv, ATypeOK
<1>2. request' = [request EXCEPT ![r] = new]
  BY <1>1 DEF Moved
<1>3. /\ new \in RequestState /\ new.phase = phase /\ new.code = code
      /\ new.entitled = request[r].entitled /\ new.late = request[r].late
      /\ new.route = request[r].route
  BY <1>1 DEF RequestState
<1> HIDE DEF new
<1> QED BY <1>2, <1>3

\* A join request is refused, or goes on to look the board up.
LEMMA PostJoinKeeps ==
  ASSUME AInv, NEW r \in Requests, PostJoin(r)
  PROVE  AInv'
<1>1. UNCHANGED <<clock, store, healthy, changes, probe, reached, locked, board>>
  BY DEF PostJoin, joinFrame, envVars
<1>2. CASE \E code \in {400, 429} \union {403 : secure \in Insecure} : Refused(r, code)
  <2>1. PICK code \in {400, 403, 429} : Refused(r, code)
    BY <1>2
  <2> DEFINE new == [phase |-> "answered", code |-> code, entitled |-> FALSE, late |-> FALSE,
                     route |-> "none"]
  <2>2. request' = [request EXCEPT ![r] = new]
    BY <2>1 DEF Refused
  <2>3. Served(new, board')
    BY DEF Served, RequestState, Codes
  <2> HIDE DEF new
  <2> QED BY <1>1, <2>2, <2>3, ServedKeeps
<1>3. ASSUME NEW entitled \in BOOLEAN,
             request' = [request EXCEPT ![r] = [phase |-> "lookup", code |-> 0, late |-> locked,
                                                entitled |-> entitled, route |-> "join"]]
      PROVE  AInv'
  <2> DEFINE new == [phase |-> "lookup", code |-> 0, late |-> locked,
                     entitled |-> entitled, route |-> "join"]
  <2>1. new \in RequestState
    BY DEF RequestState, Codes, AInv, ATypeOK
  <2>2. Served(new, board')
    BY <2>1 DEF Served
  <2> HIDE DEF new
  <2>3. request' = [request EXCEPT ![r] = new]
    BY <1>3 DEF new
  <2> QED BY <1>1, <2>2, <2>3, ServedKeeps
<1> QED BY <1>2, <1>3 DEF PostJoin

\* A late request finds the board protected, and so is compared.
LEMMA LookedUpKeeps ==
  ASSUME AInv, NEW r \in Requests, LookedUp(r)
  PROVE  AInv'
<1> DEFINE phase == IF board = "protected" THEN "compare" ELSE "ensure"
<1>1. /\ UNCHANGED <<clock, store, healthy, changes, probe, reached, locked, board>>
      /\ request[r].phase = "lookup" /\ request' = Moved(r, phase, 0)
  BY DEF LookedUp, joinFrame, envVars
<1>2. phase \in {"compare", "ensure"} /\ (phase = "ensure" => ~locked)
  BY DEF AInv, RequestsByPhase
<1> HIDE DEF phase
<1>3. 0 \in Codes
  BY DEF Codes
<1>4. PICK new \in RequestState :
        /\ request' = [request EXCEPT ![r] = new]
        /\ new.phase = phase /\ new.code = 0
        /\ new.late = request[r].late /\ new.route = request[r].route
  BY <1>1, <1>2, <1>3, MovedRequest
<1>5. new.route = "join" /\ (new.late => locked)
  BY <1>1, <1>4 DEF AInv, RequestsByPhase
<1>6. Served(new, board')
  BY <1>2, <1>4, <1>5 DEF Served
<1> QED BY <1>1, <1>4, <1>6, ServedKeeps

\* Only who has the password goes on.
LEMMA ComparedKeeps ==
  ASSUME AInv, NEW r \in Requests, Compared(r)
  PROVE  AInv'
<1>1. /\ UNCHANGED <<clock, store, healthy, changes, probe, reached, locked, board>>
      /\ request[r].phase = "compare" /\ request[r].route = "join"
      /\ request[r].late => locked
  BY DEF Compared, joinFrame, envVars, AInv, RequestsByPhase
<1>2. PICK phase \in {"ensure", "answered"}, code \in {0, 403} :
        /\ request' = Moved(r, phase, code)
        /\ phase = "answered" <=> code # 0
        /\ phase = "ensure" => request[r].entitled
  BY DEF Compared, Matches
<1>3. code \in Codes
  BY DEF Codes
<1>4. PICK new \in RequestState :
        /\ request' = [request EXCEPT ![r] = new]
        /\ new.phase = phase /\ new.code = code
        /\ new.entitled = request[r].entitled
        /\ new.late = request[r].late /\ new.route = request[r].route
  BY <1>2, <1>3, MovedRequest
<1>5. Served(new, board')
  BY <1>1, <1>2, <1>4 DEF Served
<1> QED BY <1>1, <1>4, <1>5, ServedKeeps

\* The token is issued once the row exists.
LEMMA EnsuredKeeps ==
  ASSUME AInv, NEW r \in Requests, Ensured(r)
  PROVE  AInv'
<1>1. /\ UNCHANGED <<clock, store, healthy, changes, probe, reached, locked>>
      /\ request[r].phase = "ensure" /\ request' = Moved(r, "answered", 200)
      /\ board' = board \/ (board = "absent" /\ board' = "open")
      /\ board' # "absent"
  BY DEF Ensured, Inserted, joinFrame, envVars
<1>2. 200 \in Codes
  BY DEF Codes
<1>3. PICK new \in RequestState :
        /\ request' = [request EXCEPT ![r] = new]
        /\ new.phase = "answered" /\ new.code = 200
        /\ new.entitled = request[r].entitled
        /\ new.late = request[r].late /\ new.route = request[r].route
  BY <1>1, <1>2, MovedRequest
<1>4. new.route = "join" /\ (new.late => locked) /\ (new.late => new.entitled)
  BY <1>1, <1>3 DEF AInv, RequestsByPhase
<1>5. Served(new, board')
  BY <1>1, <1>3, <1>4 DEF Served
<1> QED BY <1>1, <1>3, <1>5, ServedKeeps

\* A failed query answers 500.
LEMMA QueryFailsKeeps ==
  ASSUME AInv, NEW r \in Requests, QueryFails(r)
  PROVE  AInv'
<1>1. /\ UNCHANGED <<clock, store, healthy, changes, probe, reached, locked, board>>
      /\ request[r].phase \in {"lookup", "ensure"} /\ request' = Moved(r, "answered", 500)
  BY DEF QueryFails, joinFrame, envVars
<1>2. 500 \in Codes
  BY DEF Codes
<1>3. PICK new \in RequestState :
        /\ request' = [request EXCEPT ![r] = new]
        /\ new.phase = "answered" /\ new.code = 500
        /\ new.late = request[r].late /\ new.route = request[r].route
  BY <1>1, <1>2, MovedRequest
<1>4. new.route = "join" /\ (new.late => locked)
  BY <1>1, <1>3 DEF AInv, RequestsByPhase
<1>5. Served(new, board')
  BY <1>1, <1>3, <1>4 DEF Served
<1> QED BY <1>1, <1>3, <1>5, ServedKeeps

\* The guard lets through whom the blocks hold.
LEMMA GetMetricsKeeps ==
  ASSUME AInv, NEW r \in Requests, GetMetrics(r)
  PROVE  AInv'
<1>1. UNCHANGED <<clock, store, healthy, changes, probe, reached, locked, board>>
  BY DEF GetMetrics, joinFrame, envVars
<1>2. CASE Refused(r, 403)
  <2> DEFINE new == [phase |-> "answered", code |-> 403, entitled |-> FALSE, late |-> FALSE,
                     route |-> "none"]
  <2>1. request' = [request EXCEPT ![r] = new]
    BY <1>2 DEF Refused
  <2>2. Served(new, board')
    BY DEF Served, RequestState, Codes
  <2> HIDE DEF new
  <2> QED BY <1>1, <2>1, <2>2, ServedKeeps
<1>3. ASSUME NEW peer \in Peers,
             request' = [request EXCEPT ![r] =
               IF IsMetricsAccessAllowed(peer)
               THEN [phase |-> "scrape", code |-> 0, late |-> FALSE,
                     entitled |-> FromInside(peer), route |-> "metrics"]
               ELSE [phase |-> "answered", code |-> 403, late |-> FALSE,
                     entitled |-> FromInside(peer), route |-> "metrics"]]
      PROVE  AInv'
  <2> DEFINE inside == FromInside(peer)
             scrape == [phase |-> "scrape", code |-> 0, late |-> FALSE,
                        entitled |-> inside, route |-> "metrics"]
             refuse == [phase |-> "answered", code |-> 403, late |-> FALSE,
                        entitled |-> inside, route |-> "metrics"]
  <2>1. inside \in BOOLEAN
    BY DEF FromInside, Private4, Private6
  <2>2. IsMetricsAccessAllowed(peer) <=> inside
    BY GuardExact
  <2>3. request' = [request EXCEPT ![r] = IF IsMetricsAccessAllowed(peer) THEN scrape ELSE refuse]
    BY <1>3
  <2> HIDE DEF inside
  <2>4. scrape \in RequestState /\ refuse \in RequestState
    BY <2>1 DEF RequestState, Codes
  <2>5. CASE inside
    <3>1. Served(scrape, board')
      BY <2>4, <2>5 DEF Served
    <3> HIDE DEF scrape, refuse
    <3>2. request' = [request EXCEPT ![r] = scrape]
      BY <2>2, <2>3, <2>5
    <3> QED BY <1>1, <3>1, <3>2, ServedKeeps
  <2>6. CASE ~inside
    <3>1. Served(refuse, board')
      BY <2>4, <2>6 DEF Served
    <3> HIDE DEF scrape, refuse
    <3>2. request' = [request EXCEPT ![r] = refuse]
      BY <2>2, <2>3, <2>6
    <3> QED BY <1>1, <3>1, <3>2, ServedKeeps
  <2> QED BY <2>5, <2>6
<1> QED BY <1>2, <1>3 DEF GetMetrics

\* The registry is served, or its serialization fails.
LEMMA SerializedKeeps ==
  ASSUME AInv, NEW r \in Requests, Serialized(r)
  PROVE  AInv'
<1>1. /\ UNCHANGED <<clock, store, healthy, changes, probe, reached, locked, board>>
      /\ request[r].phase = "scrape" /\ request[r].route = "metrics" /\ request[r].entitled
      /\ request[r].late => locked
  BY DEF Serialized, joinFrame, envVars, AInv, RequestsByPhase
<1>2. PICK code \in {200, 500} : request' = Moved(r, "answered", code)
  BY DEF Serialized
<1>3. code \in Codes
  BY DEF Codes
<1>4. PICK new \in RequestState :
        /\ request' = [request EXCEPT ![r] = new]
        /\ new.phase = "answered" /\ new.code = code
        /\ new.entitled = request[r].entitled
        /\ new.late = request[r].late /\ new.route = request[r].route
  BY <1>2, <1>3, MovedRequest
<1>5. Served(new, board')
  BY <1>1, <1>4 DEF Served
<1> QED BY <1>1, <1>4, <1>5, ServedKeeps

\* A board that is given a password has a row from then on.
LEMMA ProtectKeeps == AInv /\ Protect => AInv'
<1> SUFFICES ASSUME AInv, Protect PROVE AInv'
  OBVIOUS
<1>1. /\ board' = "protected" /\ locked' = TRUE
      /\ UNCHANGED <<clock, store, healthy, changes, probe, request, reached>>
  BY DEF Protect, envVars
<1>2. ATypeOK'
  <2>1. healthy' \in BOOLEAN /\ locked' \in BOOLEAN
    BY <1>1, Zenon DEF AInv, ATypeOK
  <2> QED BY <1>1, <2>1 DEF AInv, ATypeOK
<1>3. ProbesRight'
  BY <1>1, ProbesKept DEF AInv, ProbesRight
<1>4. RequestsByPhase' /\ TokenWarranted' /\ ServedInside'
  BY <1>1 DEF AInv, RequestsByPhase, TokenWarranted, ServedInside
<1> QED BY <1>2, <1>3, <1>4 DEF AInv, ProbesRight

\* Every step keeps the invariant, and so does stuttering.
LEMMA ANextKeepsInv == AInv /\ [ANext]_avars => AInv'
<1> SUFFICES ASSUME AInv, [ANext]_avars PROVE AInv'
  OBVIOUS
<1>1. CASE Advance \/ Change \/ Protect
  BY <1>1, AdvanceKeeps, ChangeKeeps, ProtectKeeps
<1>2. CASE \E p \in Probes : RefuseReadyz(p) \/ Readyz(p) \/ (\E d \in Stores : Settle(p, d)) \/ Respond(p)
  BY <1>2, RefuseReadyzKeeps, ReadyzKeeps, SettleKeeps, RespondKeeps
<1>3. CASE \E r \in Requests : PostJoin(r) \/ GetMetrics(r)
  BY <1>3, PostJoinKeeps, GetMetricsKeeps
<1>4. CASE Serve
  BY <1>4, LookedUpKeeps, ComparedKeeps, EnsuredKeeps, QueryFailsKeeps, SerializedKeeps DEF Serve
<1>5. CASE UNCHANGED avars
  <2>1. UNCHANGED <<clock, store, healthy, changes, board, probe, request, reached, locked>>
    BY <1>5 DEF avars, envVars
  <2>2. ATypeOK'
    <3>1. healthy' \in BOOLEAN /\ locked' \in BOOLEAN
      BY <2>1, Zenon DEF AInv, ATypeOK
    <3> QED BY <2>1, <3>1 DEF AInv, ATypeOK
  <2> QED BY <2>1, <2>2, RequestsKept, ProbesKept DEF AInv, RequestsRight, ProbesRight
<1> QED BY <1>1, <1>2, <1>3, <1>4, <1>5 DEF ANext

-----------------------------------------------------------------------------
(* What it gives *)

\* The requests keep their inductive invariant whatever the datastores and the operator do.
THEOREM HttpInvariance == ASpec => []AInv
BY AInitInv, ANextKeepsInv, PTL DEF ASpec

\* The state of the requests keeps its types, and a request has a code once it is answered.
THEOREM HttpTypes == ASpec => []ATypeOK
<1>1. AInv => ATypeOK
  BY DEF AInv
<1> QED BY <1>1, HttpInvariance, PTL

\* No readiness request is still waiting beyond its budget (evaluateReadiness of health.ts).
THEOREM BudgetHeld == ASpec => []WithinBudget
<1>1. AInv => WithinBudget
  BY DEF AInv
<1> QED BY <1>1, HttpInvariance, PTL

\* A ready answer has seen every dependency work since its request began
\* (evaluateReadiness and withTimeout of health.ts).
THEOREM ReadySound == ASpec => []ReadyMeansReached
<1>1. AInv => ReadyMeansReached
  BY DEF AInv
<1> QED BY <1>1, HttpInvariance, PTL

\* A join token is issued only for a board whose row exists, and to no request without the
\* password that began after the board was given one (the join endpoint of app.ts).
THEOREM TokensWarranted == ASpec => []TokenWarranted
<1>1. AInv => TokenWarranted
  BY DEF AInv
<1> QED BY <1>1, HttpInvariance, PTL

\* The metrics are served to the callers of the private blocks exactly
\* (isMetricsAccessAllowed of metrics.ts).
THEOREM MetricsInside == ASpec => []ServedInside
<1>1. AInv => ServedInside
  BY DEF AInv
<1> QED BY <1>1, HttpInvariance, PTL

=============================================================================
