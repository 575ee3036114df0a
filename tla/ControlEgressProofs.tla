------------------------- MODULE ControlEgressProofs -------------------------
(***************************************************************************)
(* Proofs about LocalEgress, PacketFilter and the passes of ControlEgress  *)
(* that compose them, for every list of domains, every answer, all         *)
(* addresses, interfaces, protocols, ports and policies, and any number of *)
(* outages, errors and interferences.                                      *)
(***************************************************************************)
EXTENDS ControlEgress, TLAPS, FiniteSetTheorems, SequenceTheorems, WellFoundedInduction

-----------------------------------------------------------------------------
(* The name servers of a snapshot.                                         *)

(* A set of numbers that is not empty has a least one.                     *)
LEMMA Least == ASSUME NEW T, T \subseteq Nat, T # {} PROVE \E x \in T : \A y \in T : x <= y
<1> DEFINE R == {pair \in Nat \X Nat : pair[1] < pair[2]}
<1>1. IsWellFoundedOn(R, Nat)
  BY NatLessThanWellFounded DEF OpToRel
<1> HIDE DEF R
<1>2. PICK x \in T : \A y \in T : ~(<<y, x>> \in R)
  BY <1>1, WFMin, Zenon
<1>3. ASSUME NEW y \in T PROVE x <= y
  <2>1. x \in Nat /\ y \in Nat /\ ~(<<y, x>> \in R)
    BY <1>2
  <2>2. y < x => <<y, x>> \in R
    BY <2>1 DEF R
  <2> QED BY <2>1, <2>2
<1> QED BY <1>3

(* How many of the numbers of F are at most i.                             *)
Rank(F, i) == Cardinality({j \in F : j <= i})

(* The position of a line among those that are kept is a number.           *)
LEMMA RankType ==
  ASSUME NEW n \in Nat, NEW F \in SUBSET (1..n), NEW i \in Nat
  PROVE  IsFiniteSet({j \in F : j <= i}) /\ Rank(F, i) \in Nat
<1>1. IsFiniteSet(1..n)
  BY FS_Interval
<1>2. {j \in F : j <= i} \in SUBSET (1..n)
  BY Zenon
<1>3. IsFiniteSet({j \in F : j <= i})
  BY <1>1, <1>2, FS_Subset
<1> QED BY <1>3, FS_CardinalityType DEF Rank

(* The rank goes up by one at each number of F.                            *)
LEMMA RankStep ==
  ASSUME NEW n \in Nat, NEW F \in SUBSET (1..n), NEW i \in Nat \ {0}
  PROVE  Rank(F, i) = Rank(F, i - 1) + (IF i \in F THEN 1 ELSE 0)
<1> DEFINE Below == {j \in F : j <= i - 1}
<1>0. i - 1 \in Nat /\ \A j \in F : j <= i <=> j <= i - 1 \/ j = i
  OBVIOUS
<1>1. IsFiniteSet(Below) /\ Rank(F, i - 1) \in Nat
  BY <1>0, RankType, Zenon
<1>2. CASE i \in F
  <2>1. {j \in F : j <= i} = Below \cup {i}
    BY <1>0, <1>2, Zenon
  <2>2. i \notin Below
    OBVIOUS
  <2>3. Cardinality(Below \cup {i}) = Cardinality(Below) + 1
    BY <1>1, <2>2, FS_AddElement
  <2> QED BY <1>2, <2>1, <2>3 DEF Rank
<1>3. CASE i \notin F
  <2>1. {j \in F : j <= i} = Below
    BY <1>0, <1>3, Zenon
  <2>2. Rank(F, i) = Rank(F, i - 1)
    BY <2>1 DEF Rank
  <2> QED BY <1>1, <1>3, <2>2
<1> QED BY <1>2, <1>3

(* Every rank is the rank of some number of F: the least one where the     *)
(* rank is reached.                                                        *)
LEMMA RankIsReached ==
  ASSUME NEW n \in Nat, NEW F \in SUBSET (1..n), NEW k \in 1..Cardinality(F)
  PROVE  \E i \in F : Rank(F, i) = k
<1> DEFINE T == {i \in Nat : Rank(F, i) >= k}
<1>1. Rank(F, n) = Cardinality(F)
  <2>1. \A j \in F : j <= n
    OBVIOUS
  <2>2. {j \in F : j <= n} = F
    BY <2>1, Zenon
  <2> QED BY <2>2 DEF Rank
<1>2. Cardinality(F) \in Nat
  BY <1>1, RankType, Zenon
<1>3. n \in T
  BY <1>1, <1>2
<1>4. PICK i \in T : \A j \in T : i <= j
  <2>1. T \subseteq Nat /\ T # {}
    BY <1>3
  <2> QED BY <2>1, Least, Zenon
<1>5. Rank(F, 0) = 0
  <2>1. \A j \in F : ~(j <= 0)
    OBVIOUS
  <2>2. {j \in F : j <= 0} = {}
    BY <2>1, Zenon
  <2> QED BY <2>2, FS_EmptySet DEF Rank
<1>6. i \in Nat \ {0}
  BY <1>2, <1>4, <1>5
<1>7. Rank(F, i - 1) \in Nat /\ Rank(F, i - 1) < k
  <2>1. i - 1 \in Nat /\ i - 1 \notin T
    BY <1>4, <1>6
  <2>2. Rank(F, i - 1) \in Nat
    BY <2>1, RankType, Zenon
  <2> QED BY <1>2, <2>1, <2>2
<1>8. Rank(F, i) >= k
  BY <1>4
<1>9. Rank(F, i) = Rank(F, i - 1) + (IF i \in F THEN 1 ELSE 0)
  BY <1>6, RankStep, Zenon
<1> QED BY <1>2, <1>7, <1>8, <1>9

(* What the snapshot holds are lines of the file, each of them first.      *)
LEMMA UniqueAreLines ==
  ASSUME NEW lines \in Seq(STRING), NEW k \in DOMAIN uniqueAddresses(lines)
  PROVE  \E i \in FirstLines(lines) :
           uniqueAddresses(lines)[k] = lines[i] /\ Rank(FirstLines(lines), i) = k
<1> DEFINE F == FirstLines(lines)
           first == CHOOSE i \in F : Rank(F, i) = k
<1>1. Len(lines) \in Nat /\ F \subseteq 1..Len(lines)
  BY LenProperties DEF FirstLines
<1>2. k \in 1..Cardinality(F) /\ uniqueAddresses(lines)[k] = lines[first]
  BY DEF uniqueAddresses, Rank
<1>3. first \in F /\ Rank(F, first) = k
  <2>1. \E i \in F : Rank(F, i) = k
    BY <1>1, <1>2, RankIsReached, Zenon
  <2> QED BY <2>1
<1> QED BY <1>2, <1>3, Zenon

(* Two lines that are kept have different positions.                       *)
LEMMA RankIsInjective ==
  ASSUME NEW n \in Nat, NEW F \in SUBSET (1..n), NEW i \in F, NEW j \in F,
         Rank(F, i) = Rank(F, j)
  PROVE  i = j
<1>1. ASSUME NEW a \in F, NEW b \in F, a < b PROVE Rank(F, a) < Rank(F, b)
  <2>1. a \in Nat /\ b \in Nat
    OBVIOUS
  <2>2. IsFiniteSet({m \in F : m <= b}) /\ Rank(F, a) \in Nat /\ Rank(F, b) \in Nat
    BY <2>1, RankType, Zenon
  <2>3. /\ \A m \in F : m <= a => m <= b
        /\ b <= b /\ ~(b <= a)
    BY <1>1
  <2>4. /\ {m \in F : m <= a} \subseteq {m \in F : m <= b}
        /\ {m \in F : m <= a} # {m \in F : m <= b}
    BY <2>3, Zenon
  <2>5. Rank(F, a) <= Rank(F, b) /\ Rank(F, a) # Rank(F, b)
    BY <2>2, <2>4, FS_Subset DEF Rank
  <2> QED BY <2>2, <2>5
<1>2. i \in Nat /\ j \in Nat
  OBVIOUS
<1>3. Rank(F, i) \in Nat /\ Rank(F, j) \in Nat
  BY <1>2, RankType, Zenon
<1> QED BY <1>1, <1>2, <1>3

(* uniqueAddresses keeps every name server of the file, and each of them   *)
(* once, however often and in whatever order it is listed                  *)
(* (resolver.go:208-223).                                                  *)
THEOREM EachServerOnce ==
  ASSUME NEW lines \in Seq(STRING)
  PROVE  /\ Range(uniqueAddresses(lines)) = Range(lines)
         /\ \A k, l \in DOMAIN uniqueAddresses(lines) :
              uniqueAddresses(lines)[k] = uniqueAddresses(lines)[l] => k = l
<1> DEFINE F == FirstLines(lines)
           u == uniqueAddresses(lines)
<1>1. Len(lines) \in Nat /\ DOMAIN lines = 1..Len(lines) /\ F \subseteq 1..Len(lines)
  BY LenProperties DEF FirstLines
<1>2. \A i, j \in F : lines[i] = lines[j] => i = j
  BY <1>1 DEF FirstLines
<1>3. \A k \in DOMAIN u : \E i \in F : u[k] = lines[i] /\ Rank(F, i) = k
  BY UniqueAreLines
<1>4. \A k, l \in DOMAIN u : u[k] = u[l] => k = l
  <2> HIDE DEF F, u
  <2> QED BY <1>2, <1>3
<1>5. Range(u) \subseteq Range(lines)
  <2> HIDE DEF F, u
  <2> QED BY <1>1, <1>3 DEF Range
<1>6. ASSUME NEW i \in 1..Len(lines) PROVE lines[i] \in Range(u)
  <2> DEFINE T == {j \in 1..Len(lines) : lines[j] = lines[i]}
  <2>1. PICK j \in T : \A m \in T : j <= m
    <3>1. T \subseteq Nat /\ T # {}
      BY <1>1
    <3> QED BY <3>1, Least, Zenon
  <2>2. j \in F /\ lines[j] = lines[i]
    BY <1>1, <2>1 DEF FirstLines
  <2>3. Rank(F, j) \in 1..Cardinality(F)
    <3>1. IsFiniteSet(F) /\ Cardinality(F) \in Nat
      <4>1. IsFiniteSet(1..Len(lines))
        BY <1>1, FS_Interval
      <4> QED BY <1>1, <4>1, FS_Subset, FS_CardinalityType
    <3>2. j \in Nat
      BY <1>1, <2>2
    <3>3. IsFiniteSet({m \in F : m <= j}) /\ Rank(F, j) \in Nat
      BY <1>1, <3>2, RankType, Zenon
    <3>4. j \in {m \in F : m <= j} /\ {m \in F : m <= j} \subseteq F
      BY <2>2, <3>2
    <3>5. Rank(F, j) # 0 /\ Rank(F, j) <= Cardinality(F)
      BY <3>1, <3>3, <3>4, FS_EmptySet, FS_Subset, Zenon DEF Rank
    <3> QED BY <3>1, <3>3, <3>5
  <2>4. Rank(F, j) \in DOMAIN u
    BY <2>3 DEF uniqueAddresses
  <2>5. PICK m \in F : u[Rank(F, j)] = lines[m] /\ Rank(F, m) = Rank(F, j)
    BY <1>3, <2>4
  <2>6. m = j
    BY <1>1, <2>2, <2>5, RankIsInjective, Zenon
  <2> QED BY <2>2, <2>4, <2>5, <2>6 DEF Range
<1> QED BY <1>1, <1>4, <1>5, <1>6 DEF Range

(* A list of name servers without repetitions is a sequence of them.       *)
LEMMA UniqueIsSeq ==
  ASSUME NEW lines \in Seq(STRING)
  PROVE  uniqueAddresses(lines) \in Seq({uniqueAddresses(lines)[k] :
                                           k \in DOMAIN uniqueAddresses(lines)})
<1>1. IsFiniteSet(1..Len(lines))
  <2>1. Len(lines) \in Nat
    BY LenProperties
  <2> QED BY <2>1, FS_Interval
<1>2. FirstLines(lines) \subseteq 1..Len(lines)
  BY DEF FirstLines
<1>3. Cardinality(FirstLines(lines)) \in Nat
  BY <1>1, <1>2, FS_Subset, FS_CardinalityType
<1>4. DOMAIN uniqueAddresses(lines) = 1..Cardinality(FirstLines(lines))
  BY DEF uniqueAddresses
<1>5. uniqueAddresses(lines)
        = [k \in 1..Cardinality(FirstLines(lines)) |-> uniqueAddresses(lines)[k]]
  BY DEF uniqueAddresses
<1> DEFINE n == Cardinality(FirstLines(lines))
           u == uniqueAddresses(lines)
           S == {u[k] : k \in DOMAIN u}
<1>6. u \in [1..n -> S] /\ n \in Nat
  BY <1>3, <1>4, <1>5
<1> HIDE DEF u, n, S
<1>7. u \in UNION {[1..m -> S] : m \in Nat}
  BY <1>6
<1>8. u \in Seq(S)
  BY <1>7, SeqDef, Zenon
<1> QED BY <1>8 DEF u, S

(* uniqueAddresses returns a finite list.                                  *)
LEMMA UniqueLength ==
  ASSUME NEW lines \in ResolvConfs PROVE Len(uniqueAddresses(lines)) \in Nat
BY UniqueIsSeq, LocalEgressAssumption, LenProperties

-----------------------------------------------------------------------------
(* The type of the cache, its agreement with what was heard, and the room  *)
(* a lookup has.                                                           *)
Entries == [addresses: SUBSET Usable, age: 0..Horizon]

Listed == (UNION {Range(lines) : lines \in ResolvConfs}) \ InvalidLines

CallOK ==
  /\ addressCache \in [DomainNames -> Entries] /\ heard = addressCache
  /\ elapsed \in Nat
  /\ step \in {"idle", "domain", "lookup", "resolved", "failed"}
  /\ Len(nameServers) \in Nat /\ serverIndex \in Nat
  /\ Range(nameServers) \subseteq Listed /\ combined \subseteq Usable
  /\ domainIndex \in 1..(Len(Domains) + 1)
  /\ failed \in BOOLEAN /\ outages \in Nat
  /\ step = "lookup" => /\ remaining \in Nat \ {0} /\ domainIndex \in 1..Len(Domains)
                        /\ refreshDue(Domain)

(* Every domain dealt with so far has a good entry, and the addresses      *)
(* collected are theirs, unless some domain has failed.                    *)
Collected ==
  /\ \A i \in 1..(domainIndex - 1) :
       exists(Domains[i]) /\ addressCache[Domains[i]].age <= MaximumStaleness
  /\ combined = UNION {addressCache[Domains[i]].addresses : i \in 1..(domainIndex - 1)}

EgressInv ==
  /\ CallOK
  /\ step \in {"domain", "lookup"} /\ ~failed => Collected
  /\ step = "resolved" => ~failed /\ Collected /\ domainIndex = Len(Domains) + 1

(* Every address that is read was on a nameserver line.                    *)
LEMMA ReadAreListed ==
  ASSUME NEW lines \in ResolvConfs, ~ReadFails(lines)
  PROVE  Range(uniqueAddresses(lines)) \subseteq Listed
<1>1. lines \in Seq(STRING)
  BY LocalEgressAssumption
<1>2. Range(uniqueAddresses(lines)) = Range(lines)
  BY <1>1, EachServerOnce
<1>3. Range(lines) \cap InvalidLines = {}
  BY DEF ReadFails, Range
<1>4. Range(lines) \subseteq UNION {Range(l) : l \in ResolvConfs}
  BY Zenon
<1>5. Range(lines) \subseteq (UNION {Range(l) : l \in ResolvConfs}) \ InvalidLines
  BY <1>3, <1>4, Zenon
<1> QED BY <1>2, <1>5, Zenon DEF Listed

(* The invariant contains the property of the runs.                        *)
LEMMA EgressInvImplies == ASSUME EgressInv PROVE ResultIsFresh
<1> SUFFICES ASSUME step = "resolved"
             PROVE  /\ \A d \in DomainNames :
                         heard[d].addresses # {} /\ heard[d].age <= MaximumStaleness
                    /\ combined = UNION {heard[d].addresses : d \in DomainNames}
  BY DEF ResultIsFresh
<1>1. Len(Domains) \in Nat /\ DOMAIN Domains = 1..Len(Domains)
  BY LocalEgressAssumption, LenProperties
<1>2. heard = addressCache /\ Collected /\ domainIndex - 1 = Len(Domains)
  BY <1>1 DEF EgressInv, CallOK
<1>3. DomainNames = {Domains[i] : i \in 1..(domainIndex - 1)}
  BY <1>1, <1>2 DEF DomainNames
<1>4. UNION {addressCache[Domains[i]].addresses : i \in 1..(domainIndex - 1)}
        = UNION {addressCache[d].addresses : d \in DomainNames}
  BY <1>3
<1> QED BY <1>2, <1>3, <1>4 DEF Collected, exists

(* An empty cache is fresh.                                                *)
LEMMA InitEgress == ASSUME EgressInit PROVE EgressInv
<1>1. Len(Domains) \in Nat /\ DOMAIN Domains = 1..Len(Domains)
  BY LocalEgressAssumption, LenProperties
<1>2. NoEntry \in Entries
  BY LocalEgressAssumption DEF NoEntry, Entries, Horizon
<1>3. Len(<<>>) = 0
  OBVIOUS
<1>4. addressCache \in [DomainNames -> Entries] /\ heard = addressCache
  BY <1>2 DEF EgressInit
<1>5. CallOK
  <2>1. /\ Len(nameServers) \in Nat /\ domainIndex \in 1..(Len(Domains) + 1)
        /\ Range(nameServers) \subseteq Listed /\ combined \subseteq Usable
    BY <1>1, <1>3 DEF EgressInit, Range
  <2>2. elapsed \in Nat /\ serverIndex \in Nat /\ failed \in BOOLEAN /\ outages \in Nat
    BY Zenon DEF EgressInit
  <2>3. step = "idle"
    BY DEF EgressInit
  <2> QED BY <1>4, <2>1, <2>2, <2>3 DEF CallOK
<1> QED BY <1>5 DEF EgressInit, EgressInv

(* Ageing keeps an entry an entry.                                         *)
LEMMA AgedEntry ==
  ASSUME NEW e \in Entries, elapsed \in Nat PROVE Aged(e) \in Entries
<1> DEFINE older == IF e.age + elapsed < Horizon THEN e.age + elapsed ELSE Horizon
<1>1. Horizon \in Nat
  BY LocalEgressAssumption DEF Horizon
<1>2. e.age \in Nat
  BY <1>1 DEF Entries
<1>3. older \in 0..Horizon
  BY <1>1, <1>2
<1>4. Aged(e) = [e EXCEPT !.age = older]
  BY DEF Aged
<1> HIDE DEF older
<1> QED BY <1>3, <1>4 DEF Entries

(* Dealing with one more domain, with a good entry or with an error.       *)
LEMMA NextDomainKeeps ==
  ASSUME EgressInv, NEW addresses, NEW error \in BOOLEAN,
         step \in {"domain", "lookup"}, domainIndex \in 1..Len(Domains),
         NextDomain(addresses, error), elapsed' = elapsed, outages' \in Nat,
         addresses \subseteq Usable,
         addressCache' \in [DomainNames -> Entries], heard' = addressCache',
         \A d \in DomainNames \ {Domain} : addressCache'[d] = addressCache[d],
         error \/ /\ addresses = addressCache'[Domain].addresses /\ addresses # {}
                  /\ addressCache'[Domain].age <= MaximumStaleness
  PROVE  EgressInv'
<1>1. Len(Domains) \in Nat /\ DOMAIN Domains = 1..Len(Domains)
  BY LocalEgressAssumption, LenProperties
<1>2. CallOK'
  BY <1>1 DEF EgressInv, CallOK, NextDomain
<1>3. ASSUME ~failed' PROVE Collected'
  <2>1. ~failed /\ ~error /\ Collected
    BY <1>3 DEF EgressInv, CallOK, NextDomain
  <2>2. 1..(domainIndex' - 1) = 1..(domainIndex - 1) \cup {domainIndex}
    BY <1>1 DEF NextDomain
  <2>3. \A i \in 1..(domainIndex - 1) : addressCache'[Domains[i]] = addressCache[Domains[i]]
    <3> TAKE i \in 1..(domainIndex - 1)
    <3>1. i \in DOMAIN Domains /\ domainIndex \in DOMAIN Domains /\ i # domainIndex
      BY <1>1
    <3>2. Domains[i] # Domains[domainIndex] /\ Domains[i] \in DomainNames
      BY <3>1, LocalEgressAssumption DEF DomainNames
    <3> QED BY <3>2 DEF Domain
  <2>4. \A i \in 1..(domainIndex' - 1) :
          /\ addressCache'[Domains[i]].addresses # {}
          /\ addressCache'[Domains[i]].age <= MaximumStaleness
    BY <2>1, <2>2, <2>3 DEF Collected, exists, Domain
  <2>5. UNION {addressCache'[Domains[i]].addresses : i \in 1..(domainIndex' - 1)}
          = (UNION {addressCache[Domains[i]].addresses : i \in 1..(domainIndex - 1)})
            \cup addressCache'[Domain].addresses
    BY <2>2, <2>3 DEF Domain
  <2>6. combined' = UNION {addressCache'[Domains[i]].addresses : i \in 1..(domainIndex' - 1)}
    BY <2>1, <2>5 DEF Collected, NextDomain
  <2> QED BY <2>4, <2>6 DEF Collected, exists
<1> QED BY <1>2, <1>3 DEF EgressInv, NextDomain

(* One domain that resolves keeps the cache in order,                      *)
LEMMA RefreshSucceedsKeeps ==
  ASSUME EgressInv, step = "lookup", UNCHANGED elapsed, outages' \in Nat,
         NEW addresses \in SUBSET Usable, addresses # {}, RefreshSucceeds(addresses)
  PROVE  EgressInv'
<1>1. Domain \in DomainNames /\ domainIndex \in 1..Len(Domains)
  <2>1. DOMAIN Domains = 1..Len(Domains)
    BY LocalEgressAssumption, LenProperties
  <2> QED BY <2>1 DEF EgressInv, CallOK, Domain, DomainNames
<1>2. Entry(addresses) \in Entries
  BY LocalEgressAssumption DEF Entry, Entries, Horizon
<1>3. /\ addressCache' \in [DomainNames -> Entries] /\ heard' = addressCache'
      /\ \A d \in DomainNames \ {Domain} : addressCache'[d] = addressCache[d]
      /\ addressCache'[Domain] = Entry(addresses)
  BY <1>1, <1>2 DEF RefreshSucceeds, EgressInv, CallOK
<1>4. /\ addresses = addressCache'[Domain].addresses
      /\ addressCache'[Domain].age <= MaximumStaleness
  BY <1>3, LocalEgressAssumption DEF Entry
<1> QED BY <1>1, <1>3, <1>4, NextDomainKeeps, Zenon DEF RefreshSucceeds

(* and so does one that does not, within its grace or after it.            *)
LEMMA RefreshFailsKeeps ==
  ASSUME EgressInv, step = "lookup", UNCHANGED elapsed, outages' \in Nat, RefreshFails
  PROVE  EgressInv'
<1>1. domainIndex \in 1..Len(Domains)
  BY DEF EgressInv, CallOK
<1>2. /\ addressCache' = addressCache /\ heard' = addressCache'
      /\ addressCache' \in [DomainNames -> Entries]
  BY DEF RefreshFails, cacheVars, EgressInv, CallOK
<1>3. CASE Retainable(Domain)
  <2>1. Domain \in DomainNames
    <3>1. DOMAIN Domains = 1..Len(Domains)
      BY LocalEgressAssumption, LenProperties
    <3> QED BY <1>1, <3>1 DEF Domain, DomainNames
  <2>2. addressCache[Domain].addresses \subseteq Usable
    BY <1>2, <2>1 DEF Entries
  <2> QED BY <1>1, <1>2, <1>3, <2>2, NextDomainKeeps, Zenon DEF RefreshFails, Retainable, exists
<1>4. CASE ~Retainable(Domain)
  <2>1. PICK addresses : addresses = {} /\ NextDomain(addresses, TRUE)
    BY <1>4, Zenon DEF RefreshFails
  <2>2. /\ addresses \subseteq Usable /\ TRUE \in BOOLEAN
        /\ \A d \in DomainNames \ {Domain} : addressCache'[d] = addressCache[d]
    BY <1>2, <2>1, Zenon
  <2> QED BY <1>1, <1>2, <2>1, <2>2, NextDomainKeeps, Zenon
<1> QED BY <1>3, <1>4

(* Every step of a resolution keeps the invariant.                         *)
LEMMA NextEgress == ASSUME EgressInv, [EgressNext]_egressVars PROVE EgressInv'
<1>0. /\ Len(Domains) \in Nat /\ DOMAIN Domains = 1..Len(Domains)
      /\ outages \in Nat
  BY LocalEgressAssumption, LenProperties DEF EgressInv, CallOK
<1>1. CASE Tick
  <2>1. CallOK'
    BY <1>1 DEF Tick, cacheVars, callVars, EgressInv, CallOK, refreshDue, exists, Domain
  <2>2. Collected' <=> Collected
    BY <1>1 DEF Tick, cacheVars, callVars, Collected, exists
  <2> QED BY <1>1, <2>1, <2>2 DEF Tick, cacheVars, callVars, EgressInv
<1>2. CASE BeginResolve
  <2>1. addressCache' \in [DomainNames -> Entries] /\ heard' = addressCache'
    BY <1>2, AgedEntry DEF BeginResolve, EgressInv, CallOK
  <2>2. /\ Len(nameServers') \in Nat /\ step' \in {"domain", "failed"}
        /\ outages' \in Nat /\ Range(nameServers)' \subseteq Listed
    <3>1. Len(<<>>) = 0 /\ Range(<<>>) = {}
      BY DEF Range
    <3> QED BY <1>0, <1>2, <3>1, UniqueLength, ReadAreListed DEF BeginResolve, Outage
  <2>3. CallOK'
    <3>1. /\ elapsed' \in Nat /\ serverIndex' \in Nat
          /\ domainIndex' \in 1..(Len(Domains) + 1)
      BY <1>0, <1>2 DEF BeginResolve
    <3>2. failed' \in BOOLEAN /\ combined' \subseteq Usable
      BY <1>2, Zenon DEF BeginResolve
    <3> QED BY <2>1, <2>2, <3>1, <3>2 DEF CallOK
  <2>4. Collected'
    BY <1>2 DEF BeginResolve, Collected
  <2> QED BY <2>2, <2>3, <2>4 DEF EgressInv
<1>3. CASE TakeDomain
  <2>0. /\ addressCache' = addressCache /\ heard' = heard /\ elapsed' = elapsed
        /\ outages' = outages
    BY <1>3 DEF TakeDomain, cacheVars
  <2>1. CASE refreshDue(Domain) /\ step' = "lookup"
    <3>1. CallOK'
      BY <1>0, <1>3, <2>0, <2>1, LocalEgressAssumption
      DEF TakeDomain, NextDomain, EgressInv, CallOK, refreshDue, exists, Domain
    <3>2. Collected' <=> Collected
      BY <1>3, <2>0, <2>1 DEF TakeDomain, NextDomain, Collected, exists
    <3> QED BY <1>3, <2>1, <3>1, <3>2 DEF TakeDomain, NextDomain, EgressInv
  <2>2. CASE ~refreshDue(Domain)
    <3>1. domainIndex \in 1..Len(Domains) /\ Domain \in DomainNames
      BY <1>0, <1>3 DEF TakeDomain, EgressInv, CallOK, Domain, DomainNames
    <3>2. addressCache[Domain] \in Entries
      BY <3>1 DEF EgressInv, CallOK
    <3>3. /\ addressCache[Domain].addresses # {}
          /\ addressCache[Domain].age <= MaximumStaleness
          /\ addressCache[Domain].addresses \subseteq Usable
      BY <2>2, <3>2, LocalEgressAssumption DEF refreshDue, exists, Entries, Horizon
    <3>4. NextDomain(addressCache[Domain].addresses, FALSE) /\ step = "domain"
      BY <1>3, <2>2, Zenon DEF TakeDomain
    <3>5. addressCache' \in [DomainNames -> Entries] /\ heard' = addressCache'
      BY <2>0 DEF EgressInv, CallOK
    <3> QED BY <1>0, <2>0, <3>1, <3>3, <3>4, <3>5, NextDomainKeeps, Zenon
  <2> QED BY <1>3, <2>1, <2>2, Zenon DEF TakeDomain
<1>4. CASE ServerAnswers
  <2>1. PICK answer \in Answers[Domain] :
          LET usable == answer \cap Usable
              good   == usable # {} /\ Cardinality(usable) <= MaximumResolved
          IN  IF good THEN RefreshSucceeds(usable) ELSE RefreshFails
    BY <1>4, Zenon DEF ServerAnswers
  <2>2. step = "lookup" /\ UNCHANGED elapsed /\ outages' \in Nat
    BY <1>0, <1>4 DEF ServerAnswers, Outage
  <2>3. RefreshFails
        \/ (answer \cap Usable # {} /\ RefreshSucceeds(answer \cap Usable))
    BY <2>1
  <2>4. answer \cap Usable \in SUBSET Usable
    OBVIOUS
  <2> QED BY <2>2, <2>3, <2>4, RefreshFailsKeeps, RefreshSucceedsKeeps
<1>5. CASE ServerFails
  <2>1. step = "lookup" /\ UNCHANGED elapsed /\ outages' \in Nat
    BY <1>0, <1>5 DEF ServerFails, Outage
  <2>2. CASE RefreshFails
    BY <2>1, <2>2, RefreshFailsKeeps
  <2>3. CASE ~RefreshFails
    <3>1. PICK time \in {0, resolverAttemptContext, remaining} :
            /\ time # remaining /\ ~(ServersLeft <= 1)
            /\ serverIndex' = serverIndex + 1 /\ remaining' = remaining - time
            /\ UNCHANGED <<cacheVars, step, nameServers, domainIndex, failed, combined>>
      BY <1>5, <2>3 DEF ServerFails
    <3>2. remaining \in Nat \ {0} /\ ServersLeft \in Int
      BY <2>1 DEF EgressInv, CallOK, ServersLeft
    <3>3. resolverAttemptContext \in 0..remaining
      <4>1. remaining \div ServersLeft \in 0..remaining
        BY <3>1, <3>2
      <4> QED BY <3>1, <4>1 DEF resolverAttemptContext
    <3>4. remaining' \in Nat \ {0}
      BY <3>1, <3>2, <3>3
    <3>5. CallOK'
      BY <2>1, <3>1, <3>4 DEF EgressInv, CallOK, cacheVars, refreshDue, exists, Domain
    <3>6. Collected' <=> Collected
      BY <3>1 DEF cacheVars, Collected, exists
    <3> QED BY <3>1, <3>5, <3>6 DEF EgressInv
  <2> QED BY <2>2, <2>3
<1>6. CASE FinishResolve
  <2>1. CallOK'
    BY <1>6 DEF FinishResolve, cacheVars, EgressInv, CallOK
  <2>2. Collected' <=> Collected
    BY <1>6 DEF FinishResolve, cacheVars, Collected, exists
  <2>3. domainIndex' = Len(Domains) + 1
    BY <1>0, <1>6 DEF FinishResolve, EgressInv, CallOK
  <2> QED BY <1>6, <2>1, <2>2, <2>3 DEF FinishResolve, EgressInv
<1>7. CASE LeaveResolve /\ (UNCHANGED cacheVars \/ NewCache)
  <2>1. addressCache' \in [DomainNames -> Entries] /\ heard' = addressCache'
    <3>1. NoEntry \in Entries
      BY LocalEgressAssumption DEF NoEntry, Entries, Horizon
    <3> QED BY <1>7, <3>1 DEF NewCache, cacheVars, EgressInv, CallOK
  <2>2. /\ Len(nameServers') \in Nat /\ Range(nameServers)' \subseteq Listed
        /\ combined' \subseteq Usable
    <3>1. Len(<<>>) = 0 /\ Range(<<>>) = {}
      BY DEF Range
    <3> QED BY <1>7, <3>1 DEF LeaveResolve
  <2>3. CallOK'
    <3>1. /\ step' = "idle" /\ domainIndex' = 1 /\ serverIndex' = 1 /\ failed' = FALSE
          /\ elapsed' = elapsed /\ outages' = outages
      BY <1>7, Zenon DEF LeaveResolve
    <3>2. elapsed \in Nat /\ 1 \in 1..(Len(Domains) + 1)
      BY <1>0 DEF EgressInv, CallOK
    <3> QED BY <1>0, <2>1, <2>2, <3>1, <3>2, Zenon DEF CallOK
  <2> QED BY <1>7, <2>3 DEF LeaveResolve, EgressInv
<1>8. CASE UNCHANGED egressVars
  <2>1. CallOK'
    BY <1>8 DEF egressVars, cacheVars, callVars, EgressInv, CallOK, refreshDue, exists, Domain
  <2>2. Collected' <=> Collected
    BY <1>8 DEF egressVars, cacheVars, callVars, Collected, exists
  <2> QED BY <1>8, <2>1, <2>2 DEF egressVars, cacheVars, callVars, EgressInv
<1> QED BY <1>1, <1>2, <1>3, <1>4, <1>5, <1>6, <1>7, <1>8 DEF EgressNext, ResolveStep

(* What resolveLocalEgress returns is complete and at most MaximumStaleness *)
(* old, whatever was refreshed, retained or refused before: the staleness   *)
(* check of each domain (reconciler.go:674-690) is inductive over the loop. *)
THEOREM ResolvedIsFresh == EgressSpec => []ResultIsFresh
<1>1. EgressSpec => []EgressInv
  BY InitEgress, NextEgress, PTL DEF EgressSpec
<1>2. EgressInv => ResultIsFresh
  BY EgressInvImplies
<1> QED BY <1>1, <1>2, PTL

(* A share of what is left is less than all of it, unless one name server  *)
(* is left.                                                                *)
LEMMA ShareIsPartial ==
  ASSUME NEW r \in Nat \ {0}, NEW k \in Nat, k > 1
  PROVE  r \div k < r
OBVIOUS

(* However many name servers are configured and whatever the timeout, a    *)
(* refresh fails without an outage only after the last one was asked       *)
(* (resolver.go:161-193).                                                  *)
THEOREM NoServerIsStarved == EgressSpec => EveryServerIsAsked
<1> DEFINE Asked == step = "lookup" /\ step' = "domain" /\ UNCHANGED <<addressCache, outages>>
                      => ServersLeft <= 1
<1>1. EgressSpec => []EgressInv
  BY InitEgress, NextEgress, PTL DEF EgressSpec
<1>2. ASSUME EgressInv, EgressNext,
             step = "lookup", step' = "domain", addressCache' = addressCache,
             outages' = outages
      PROVE  ServersLeft <= 1
  <2>0. /\ remaining \in Nat \ {0} /\ ServersLeft \in Int /\ outages \in Nat
        /\ refreshDue(Domain)
        /\ addressCache \in [DomainNames -> Entries] /\ Domain \in DomainNames
    <3>1. DOMAIN Domains = 1..Len(Domains)
      BY LocalEgressAssumption, LenProperties
    <3> QED BY <1>2, <3>1 DEF EgressInv, CallOK, ServersLeft, Domain, DomainNames
  <2>1. ~Outage
    BY <1>2, <2>0 DEF Outage
  <2>2. CASE ServerAnswers
    <3>1. PICK answer \in Answers[Domain] :
            answer \cap Usable # {} /\ RefreshSucceeds(answer \cap Usable)
      BY <2>1, <2>2, Zenon DEF ServerAnswers
    <3>2. addressCache[Domain] = Entry(answer \cap Usable)
      BY <1>2, <2>0, <3>1 DEF RefreshSucceeds
    <3> QED BY <2>0, <3>1, <3>2, LocalEgressAssumption DEF Entry, refreshDue, exists
  <2>3. CASE ServerFails
    <3>1. PICK time \in {0, resolverAttemptContext} : time = remaining \/ ServersLeft <= 1
      BY <1>2, <2>1, <2>3 DEF ServerFails
    <3> QED BY <2>0, <3>1, ShareIsPartial DEF resolverAttemptContext
  <2>4. ~Tick /\ ~BeginResolve /\ ~TakeDomain /\ ~FinishResolve /\ ~LeaveResolve
    BY <1>2 DEF Tick, callVars, BeginResolve, Returned, TakeDomain, FinishResolve, LeaveResolve
  <2> QED BY <1>2, <2>2, <2>3, <2>4 DEF EgressNext, ResolveStep
<1>3. EgressInv /\ [EgressNext]_egressVars => [Asked]_egressVars
  BY <1>2
<1> QED BY <1>1, <1>3, PTL DEF EgressSpec, EveryServerIsAsked
-----------------------------------------------------------------------------
(* The rules of a policy mean what EnforcedPolicy says it means.           *)

(* The forward chain drops what the policy asks for.                       *)
LEMMA ForwardRulesMean ==
  ASSUME NEW p \in PolicySet, NEW t, t.forward = forwardRuleSpecs(p)
  PROVE  Dropped({t}) = Enforced!ToDrop(p)
<1>1. ASSUME NEW q \in ForwardPackets
      PROVE  (\E rule \in forwardRuleSpecs(p) : prefixVerdictExpressions(rule, q))
               <=> p.closed /\ "tailnet" \in {q.source, q.destination}
  <2>1. CASE ~p.closed
    BY <2>1 DEF forwardRuleSpecs
  <2>2. CASE p.closed
    <3>1. q.family \in Families
      BY DEF ForwardPackets
    <3>2. /\ [family |-> q.family, side |-> "source"] \in forwardRuleSpecs(p)
          /\ [family |-> q.family, side |-> "destination"] \in forwardRuleSpecs(p)
      BY <2>2, <3>1 DEF forwardRuleSpecs
    <3>3. q.source = "tailnet" =>
            prefixVerdictExpressions([family |-> q.family, side |-> "source"], q)
      BY DEF prefixVerdictExpressions
    <3>4. q.destination = "tailnet" =>
            prefixVerdictExpressions([family |-> q.family, side |-> "destination"], q)
      BY DEF prefixVerdictExpressions
    <3>5. ASSUME NEW rule \in forwardRuleSpecs(p), prefixVerdictExpressions(rule, q)
          PROVE  "tailnet" \in {q.source, q.destination}
      BY <3>5 DEF prefixVerdictExpressions
    <3> QED BY <2>2, <3>2, <3>3, <3>4, <3>5
  <2> QED BY <2>1, <2>2
<1>2. Enforced!ForwardPackets = ForwardPackets
  BY DEF Enforced!ForwardPackets, ForwardPackets, Families
<1> QED BY <1>1, <1>2 DEF Dropped, Enforced!ToDrop

(* The local chain, with its address sets, marks what the policy asks for. *)
LEMMA LocalRulesMean ==
  ASSUME NEW p \in PolicySet, NEW t,
         t.local = localRuleSpecs(p), t.addresses = filterSetSpecs(p)
  PROVE  Marked({t}) = Enforced!ToMark(p)
<1>1. ASSUME NEW q \in OutputPackets
      PROVE  (\E rule \in localRuleSpecs(p) : localEgressExpressions(rule, p.local, q))
               <=> q.address \in p.local /\ q.protocol \in Protocols /\ q.port \in Ports
  <2>1. ASSUME q.address \in p.local, q.protocol \in Protocols, q.port \in Ports
        PROVE  \E rule \in localRuleSpecs(p) : localEgressExpressions(rule, p.local, q)
    <3> DEFINE r == [family |-> Family(q.address), protocol |-> q.protocol, port |-> q.port]
    <3>1. r \in localRuleSpecs(p)
      BY <2>1 DEF localRuleSpecs
    <3>2. localEgressExpressions(r, p.local, q)
      BY <2>1 DEF localEgressExpressions
    <3> QED BY <3>1, <3>2
  <2>2. ASSUME NEW rule \in localRuleSpecs(p), localEgressExpressions(rule, p.local, q)
        PROVE  q.address \in p.local /\ q.protocol \in Protocols /\ q.port \in Ports
    BY <2>2 DEF localRuleSpecs, localEgressExpressions
  <2> QED BY <2>1, <2>2
<1>2. Enforced!OutputPackets = OutputPackets
  BY DEF Enforced!OutputPackets, OutputPackets
<1> QED BY <1>1, <1>2 DEF Marked, Enforced!ToMark, filterSetSpecs

(* The nat table masquerades what the policy asks for,                     *)
LEMMA NATRulesMean ==
  ASSUME NEW p \in PolicySet, NEW t, t.masquerade = natRuleSpecs(p)
  PROVE  Masqueraded({t}) = Enforced!ToMasquerade(p)
<1>1. ASSUME NEW q \in PostroutingPackets
      PROVE  (\E rule \in natRuleSpecs(p) : dnsMasqueradeExpressions(rule, q))
               <=> /\ q.source = "tailnet" /\ q.port = 53
                   /\ \E d \in p.dns : d.address = q.address /\ d.interface = q.interface
  <2>1. ASSUME q.source = "tailnet", q.port = 53,
               NEW d \in p.dns, d.address = q.address, d.interface = q.interface
        PROVE  \E rule \in natRuleSpecs(p) : dnsMasqueradeExpressions(rule, q)
    <3> DEFINE r == [target |-> d, protocol |-> q.protocol]
    <3>1. r \in natRuleSpecs(p)
      BY DEF natRuleSpecs, PostroutingPackets
    <3>2. dnsMasqueradeExpressions(r, q)
      BY <2>1 DEF dnsMasqueradeExpressions
    <3> QED BY <3>1, <3>2
  <2>2. ASSUME NEW rule \in natRuleSpecs(p), dnsMasqueradeExpressions(rule, q)
        PROVE  /\ q.source = "tailnet" /\ q.port = 53
               /\ \E d \in p.dns : d.address = q.address /\ d.interface = q.interface
    <3>1. rule.target \in p.dns
      BY DEF natRuleSpecs
    <3> QED BY <2>2, <3>1 DEF dnsMasqueradeExpressions
  <2> QED BY <2>1, <2>2
<1>2. Enforced!PostroutingPackets = PostroutingPackets
  BY DEF Enforced!PostroutingPackets, PostroutingPackets
<1> QED BY <1>1, <1>2 DEF Masqueraded, Enforced!ToMasquerade

(* and without DNS targets no table is needed for it.                      *)
LEMMA NoTableNoNAT ==
  ASSUME NEW p \in PolicySet, p.dns = {}
  PROVE  Masqueraded({}) = Enforced!ToMasquerade(p)
BY DEF Masqueraded, Enforced!ToMasquerade

-----------------------------------------------------------------------------
(* The inductive invariant: a managed name holds at most one table; a      *)
(* listing nobody touched is what is there; what was found to agree with   *)
(* the request still agrees; and Apply flushes only what it owns.          *)

FilterTables ==
  [metadata: SUBSET (BOOLEAN \X SUBSET Addresses), extra: BOOLEAN,
   forward: SUBSET [family: Families, side: {"source", "destination"}],
   local: SUBSET [family: Families, protocol: Protocols, port: Ports],
   addresses: SUBSET Addresses]

NATTables ==
  [metadata: SUBSET SUBSET Targets, extra: BOOLEAN,
   masquerade: SUBSET [target: Targets, protocol: {"tcp", "udp"}]]

AtMostOne(S) == \A t, u \in S : t = u

StoreOK ==
  /\ filter \subseteq FilterTables /\ AtMostOne(filter)
  /\ nat \subseteq NATTables /\ AtMostOne(nat)
  /\ AtMostOne(listed.filter) /\ AtMostOne(listed.nat)
  /\ request \in PolicySet /\ interference \in Nat
  /\ call \in {"idle", "list", "filter", "nat", "relist", "own", "flush"}

FilterAgrees == validateFilterTable(filter, filter, request)

NATAgrees == IF request.dns = {} THEN nat = {} ELSE validateNATTable(nat, nat, request)

Seen ==
  /\ call # "idle" => result = "none"
  /\ call \in {"filter", "nat"} /\ calm => listed.filter = filter /\ listed.nat = nat
  /\ call = "nat" => "nat" \notin observation
  /\ call = "nat" /\ calm /\ "filter" \in observation => FilterAgrees
  /\ result = "match" /\ calm => FilterAgrees /\ NATAgrees

Owned ==
  call = "flush" =>
    /\ Changed("filter") => \A t \in listed.filter : t.metadata # {}
    /\ Changed("nat") => \A t \in listed.nat : t.metadata # {}

StoreInv == StoreOK /\ Seen /\ Owned

(* The invariant contains the property of the runs.                        *)
LEMMA StoreInvImplies == ASSUME StoreInv PROVE VerifiedMeansEnforced
<1> SUFFICES ASSUME result = "match", calm
             PROVE  /\ Dropped(filter) = Enforced!ToDrop(request)
                    /\ Marked(filter) = Enforced!ToMark(request)
                    /\ Masqueraded(nat) = Enforced!ToMasquerade(request)
  BY DEF VerifiedMeansEnforced
<1>1. FilterAgrees /\ NATAgrees /\ StoreOK /\ request \in PolicySet
  BY DEF StoreInv, Seen, StoreOK
<1>2. PICK u \in filter : /\ u.addresses = filterSetSpecs(request)
                          /\ u.forward = forwardRuleSpecs(request)
                          /\ u.local = localRuleSpecs(request)
  BY <1>1 DEF FilterAgrees, validateFilterTable
<1>3. filter = {u}
  BY <1>1 DEF StoreOK, AtMostOne
<1>4. Masqueraded(nat) = Enforced!ToMasquerade(request)
  <2>1. CASE request.dns = {}
    BY <1>1, <2>1, NoTableNoNAT DEF NATAgrees
  <2>2. CASE request.dns # {}
    <3>1. PICK v \in nat : v.masquerade = natRuleSpecs(request)
      BY <1>1, <2>2 DEF NATAgrees, validateNATTable
    <3>2. nat = {v}
      BY <1>1 DEF StoreOK, AtMostOne
    <3> QED BY <1>1, <3>1, <3>2, NATRulesMean
  <2> QED BY <2>1, <2>2
<1> QED BY <1>1, <1>2, <1>3, <1>4, ForwardRulesMean, LocalRulesMean

(* The tables that are added are tables.                                   *)
LEMMA TablesOfPolicy ==
  ASSUME NEW p \in PolicySet
  PROVE  addFilterTable(p) \in FilterTables /\ addNATTable(p) \in NATTables
<1>1. p.local \subseteq Addresses /\ p.closed \in BOOLEAN /\ p.dns \subseteq Targets
  BY DEF PolicySet
<1>2. FilterRevision(p) \in BOOLEAN \X SUBSET Addresses
  BY <1>1 DEF FilterRevision
<1>3. forwardRuleSpecs(p) \subseteq [family: Families, side: {"source", "destination"}]
  BY DEF forwardRuleSpecs
<1>4. localRuleSpecs(p) \subseteq [family: Families, protocol: Protocols, port: Ports]
  BY DEF localRuleSpecs, Family, Families
<1>5. natRuleSpecs(p) \subseteq [target: Targets, protocol: {"tcp", "udp"}]
  BY <1>1 DEF natRuleSpecs
<1>6. addFilterTable(p) \in FilterTables
  BY <1>1, <1>2, <1>3, <1>4 DEF addFilterTable, FilterTables, filterSetSpecs
<1>7. addNATTable(p) \in NATTables
  BY <1>1, <1>5 DEF addNATTable, NATTables, NATRevision
<1> QED BY <1>6, <1>7

(* A store that has not been read knows nothing.                           *)
LEMMA InitStore == ASSUME FilterInit PROVE StoreInv
<1>1. ForeignFilter \in FilterTables
  BY DEF ForeignFilter, FilterTables
<1>2. request \in PolicySet
  BY DEF FilterInit, safetyPacketFilterPolicy, Policy, PolicySet
<1>3. StoreOK
  BY <1>1, <1>2 DEF FilterInit, StoreOK, AtMostOne, NoTables
<1> QED BY <1>3 DEF FilterInit, StoreInv, Seen, Owned

-----------------------------------------------------------------------------
(* What a step does to the tables.                                         *)

(* A commit leaves a table alone, or puts the requested one in its place;  *)
(* the NAT table of a policy without targets is deleted.                   *)
LEMMA CommitTables ==
  ASSUME StoreOK, Commit
  PROVE  /\ filter' = filter
            \/ \E t \in FilterTables :
                 /\ filter' = {t} /\ t.forward = forwardRuleSpecs(request)
                 /\ t.local = localRuleSpecs(request) /\ t.addresses = filterSetSpecs(request)
         /\ \/ nat' = nat
            \/ nat' = {} /\ request.dns = {}
            \/ \E t \in NATTables : nat' = {t} /\ t.masquerade = natRuleSpecs(request)
<1>1. addFilterTable(request) \in FilterTables /\ addNATTable(request) \in NATTables
  BY TablesOfPolicy DEF StoreOK
<1>2. ASSUME NEW b \in BOOLEAN
      PROVE  /\ [addFilterTable(request) EXCEPT !.extra = b] \in FilterTables
             /\ [addNATTable(request) EXCEPT !.extra = b] \in NATTables
  BY <1>1 DEF FilterTables, NATTables
<1>3. ASSUME NEW b
      PROVE  LET t == [addFilterTable(request) EXCEPT !.extra = b] IN
               /\ t.forward = forwardRuleSpecs(request)
               /\ t.local = localRuleSpecs(request) /\ t.addresses = filterSetSpecs(request)
  BY DEF addFilterTable
<1>4. ASSUME NEW b
      PROVE  [addNATTable(request) EXCEPT !.extra = b].masquerade = natRuleSpecs(request)
  BY DEF addNATTable
<1>5. /\ addFilterTable(request).forward = forwardRuleSpecs(request)
      /\ addFilterTable(request).local = localRuleSpecs(request)
      /\ addFilterTable(request).addresses = filterSetSpecs(request)
      /\ addNATTable(request).masquerade = natRuleSpecs(request)
  BY DEF addFilterTable, addNATTable
<1> DEFINE FilterExtra == \E t \in filter : t.extra
           NATExtra == \E t \in nat : t.extra
<1>6. \/ filter' \in {filter, {addFilterTable(request)}}
      \/ filter' = {[addFilterTable(request) EXCEPT !.extra = FilterExtra]}
  BY DEF Commit, Flushed, Merged
<1>7. \/ nat' \in {nat, {addNATTable(request)}} \/ (nat' = {} /\ request.dns = {})
      \/ nat' = {[addNATTable(request) EXCEPT !.extra = NATExtra]}
  BY DEF Commit, Flushed, Merged
<1>8. FilterExtra \in BOOLEAN /\ NATExtra \in BOOLEAN
  OBVIOUS
<1> HIDE DEF FilterExtra, NATExtra
<1>9. filter' = filter
      \/ \E t \in FilterTables :
           /\ filter' = {t} /\ t.forward = forwardRuleSpecs(request)
           /\ t.local = localRuleSpecs(request) /\ t.addresses = filterSetSpecs(request)
  BY <1>1, <1>2, <1>3, <1>5, <1>6, <1>8, Zenon
<1>10. \/ nat' = nat
       \/ nat' = {} /\ request.dns = {}
       \/ \E t \in NATTables : nat' = {t} /\ t.masquerade = natRuleSpecs(request)
  BY <1>1, <1>2, <1>4, <1>5, <1>7, <1>8, Zenon
<1> QED BY <1>9, <1>10

(* Interference leaves at most one table of each name, which does no more  *)
(* to packets than the one before.                                         *)
LEMMA InterfereTables ==
  ASSUME StoreOK, Interfere
  PROVE  /\ filter' \subseteq FilterTables /\ AtMostOne(filter')
         /\ nat' \subseteq NATTables /\ AtMostOne(nat')
         /\ \A t \in filter' : t.forward = {} \/ \E u \in filter : t.forward = u.forward
         /\ \A t \in filter' : t.local = {} \/ \E u \in filter : t.local = u.local
                                                      /\ t.addresses = u.addresses
         /\ \A t \in nat' : t.masquerade = {} \/ \E u \in nat : t.masquerade = u.masquerade
<1>1. ForeignFilter \in FilterTables /\ ForeignNAT \in NATTables
  BY DEF ForeignFilter, FilterTables, ForeignNAT, NATTables
<1>2. ForeignFilter.forward = {} /\ ForeignFilter.local = {} /\ ForeignNAT.masquerade = {}
  BY DEF ForeignFilter, ForeignNAT
<1>3. ASSUME NEW t \in FilterTables
      PROVE  /\ [t EXCEPT !.forward = {}] \in FilterTables
             /\ [t EXCEPT !.local = {}] \in FilterTables
             /\ [t EXCEPT !.extra = TRUE] \in FilterTables
             /\ [t EXCEPT !.metadata = {}] \in FilterTables
  BY Zenon DEF FilterTables
<1>4. ASSUME NEW t \in FilterTables
      PROVE  /\ [t EXCEPT !.forward = {}].forward = {}
             /\ [t EXCEPT !.local = {}].local = {}
             /\ [t EXCEPT !.local = {}].forward = t.forward
             /\ \A x \in {[t EXCEPT !.forward = {}], [t EXCEPT !.extra = TRUE],
                          [t EXCEPT !.metadata = {}]} :
                   x.local = t.local /\ x.addresses = t.addresses
             /\ \A x \in {[t EXCEPT !.extra = TRUE], [t EXCEPT !.metadata = {}]} :
                   x.forward = t.forward
  BY DEF FilterTables
<1>5. ASSUME NEW t \in NATTables
      PROVE  /\ [t EXCEPT !.masquerade = {}] \in NATTables
             /\ [t EXCEPT !.masquerade = {}].masquerade = {}
  BY DEF NATTables
<1>6. CASE nat' = nat
  <2>1. \/ filter' = {} \/ filter' = {ForeignFilter}
        \/ \E t \in filter :
             \/ filter' = {[t EXCEPT !.forward = {}]} \/ filter' = {[t EXCEPT !.local = {}]}
             \/ filter' = {[t EXCEPT !.extra = TRUE]} \/ filter' = {[t EXCEPT !.metadata = {}]}
             \/ filter' = filter
    BY <1>6 DEF Interfere
  <2>2. CASE filter' = {} \/ filter' = {ForeignFilter} \/ filter' = filter
    BY <1>1, <1>2, <1>6, <2>2 DEF StoreOK, AtMostOne
  <2>3. ASSUME NEW t \in filter, NEW x, filter' = {x},
               x \in {[t EXCEPT !.forward = {}], [t EXCEPT !.local = {}],
                     [t EXCEPT !.extra = TRUE], [t EXCEPT !.metadata = {}]}
        PROVE  /\ x \in FilterTables
               /\ x.forward = {} \/ x.forward = t.forward
               /\ x.local = {} \/ (x.local = t.local /\ x.addresses = t.addresses)
    <3>0. t \in FilterTables
      BY DEF StoreOK
    <3>1. CASE x = [t EXCEPT !.forward = {}]
      BY <1>3, <1>4, <3>0, <3>1, Zenon
    <3>2. CASE x = [t EXCEPT !.local = {}]
      BY <1>3, <1>4, <3>0, <3>2, Zenon
    <3>3. CASE x = [t EXCEPT !.extra = TRUE]
      BY <1>3, <1>4, <3>0, <3>3, Zenon
    <3>4. CASE x = [t EXCEPT !.metadata = {}]
      BY <1>3, <1>4, <3>0, <3>4, Zenon
    <3> QED BY <2>3, <3>1, <3>2, <3>3, <3>4
  <2>4. ASSUME NEW t \in filter, NEW x, filter' = {x},
               x \in {[t EXCEPT !.forward = {}], [t EXCEPT !.local = {}],
                     [t EXCEPT !.extra = TRUE], [t EXCEPT !.metadata = {}]}
        PROVE  /\ filter' \subseteq FilterTables /\ AtMostOne(filter')
               /\ \A y \in filter' : y.forward = {} \/ \E u \in filter : y.forward = u.forward
               /\ \A y \in filter' : y.local = {} \/ \E u \in filter : y.local = u.local
                                                      /\ y.addresses = u.addresses
    BY <2>3, <2>4 DEF AtMostOne
  <2>5. nat' \subseteq NATTables /\ AtMostOne(nat')
        /\ \A t \in nat' : t.masquerade = {} \/ \E u \in nat : t.masquerade = u.masquerade
    BY <1>6 DEF StoreOK
  <2> QED BY <2>1, <2>2, <2>4, <2>5, Zenon
<1>7. CASE filter' = filter
  <2>1. \/ nat' = {} \/ nat' = {ForeignNAT} \/ nat' = nat
        \/ \E t \in nat : nat' = {[t EXCEPT !.masquerade = {}]}
    BY <1>7 DEF Interfere
  <2> QED BY <1>1, <1>2, <1>5, <1>7, <2>1, Zenon DEF StoreOK, AtMostOne
<1> QED BY <1>6, <1>7 DEF Interfere

-----------------------------------------------------------------------------
(* Every step preserves the invariant.                                     *)

(* A call that returns: with "match" only what is known to agree.          *)
LEMMA ReturnKeeps ==
  ASSUME StoreOK, NEW r, Return(r), interference' = interference,
         filter' \subseteq FilterTables, AtMostOne(filter'),
         nat' \subseteq NATTables, AtMostOne(nat'),
         r = "match" /\ calm' => FilterAgrees' /\ NATAgrees'
  PROVE  StoreInv'
<1>1. StoreOK'
  BY Zenon DEF StoreOK, Return, NoTables, AtMostOne
<1>2. Seen' /\ Owned'
  BY DEF Seen, Owned, Return
<1> QED BY <1>1, <1>2 DEF StoreInv

(* Every step of the store keeps the invariant.                            *)
LEMMA NextStore == ASSUME StoreInv, [StoreNext]_filterVars PROVE StoreInv'
<1>0. StoreOK /\ Seen /\ Owned
  BY DEF StoreInv
<1>1. ASSUME NEW p \in PolicySet, NEW final \in BOOLEAN, Request(p, final)
      PROVE  StoreInv'
  <2>1. StoreOK'
    BY <1>0, <1>1 DEF Request, tables, StoreOK
  <2>2. Seen' /\ Owned'
    BY <1>1 DEF Request, Seen, Owned
  <2> QED BY <2>1, <2>2 DEF StoreInv
<1>2. CASE ListTables
  <2>1. StoreOK'
    BY <1>0, <1>2 DEF ListTables, tables, StoreOK
  <2>2. Seen' /\ Owned'
    BY <1>0, <1>2 DEF ListTables, tables, Seen, Owned
  <2> QED BY <2>1, <2>2 DEF StoreInv
<1>3. CASE ReadFilter
  <2>0. UNCHANGED <<filter, nat, interference, calm>>
    BY <1>3 DEF ReadFilter, tables
  <2>1. CASE Return("error")
    BY <1>0, <2>0, <2>1, ReturnKeeps DEF StoreOK
  <2>2. CASE ~Return("error")
    <3>1. /\ call = "filter" /\ call' = "nat" /\ UNCHANGED <<request, listed, result>>
          /\ observation' = {t \in {"filter"} :
                               validateFilterTable(listed.filter, filter, request)}
      BY <1>3, <2>2 DEF ReadFilter
    <3>2. StoreOK'
      BY <1>0, <2>0, <3>1 DEF StoreOK
    <3>3. calm /\ "filter" \in observation' => FilterAgrees'
      BY <1>0, <2>0, <3>1 DEF Seen, FilterAgrees
    <3>4. Seen' /\ Owned'
      BY <1>0, <2>0, <3>1, <3>3 DEF Seen, Owned
    <3> QED BY <3>2, <3>4 DEF StoreInv
  <2> QED BY <2>1, <2>2
<1>4. CASE ReadNAT
  <2>0. UNCHANGED <<filter, nat, interference, calm>> /\ call = "nat"
    BY <1>4 DEF ReadNAT, tables
  <2> DEFINE matches == observation \cup {t \in {"nat"} : NATMatches(request)}
  <2>1. CASE \E r \in {"error", "drift"} : Return(r)
    BY <1>0, <2>0, <2>1, ReturnKeeps DEF StoreOK
  <2>2. CASE matches = {"filter", "nat"} /\ Return("match")
    <3>1. calm => FilterAgrees /\ NATAgrees
      <4> SUFFICES ASSUME calm PROVE FilterAgrees /\ NATAgrees
        OBVIOUS
      <4>1. listed.nat = nat /\ ("filter" \in observation => FilterAgrees)
        BY <1>0, <2>0 DEF Seen
      <4>2. FilterAgrees
        BY <2>2, <4>1
      <4>3. NATMatches(request) \/ "nat" \in observation
        BY <2>2
      <4>4. "nat" \notin observation
        BY <1>0, <2>0 DEF Seen
      <4> QED BY <4>1, <4>2, <4>3, <4>4 DEF NATMatches, NATAgrees
    <3>2. request' = request
      BY <2>2 DEF Return
    <3>3. calm' => FilterAgrees' /\ NATAgrees'
      BY <2>0, <3>1, <3>2 DEF FilterAgrees, NATAgrees
    <3> QED BY <1>0, <2>0, <2>2, <3>3, ReturnKeeps DEF StoreOK
  <2>3. CASE call' = "relist" /\ UNCHANGED <<request, listed, result>>
    <3>1. StoreOK'
      BY <1>0, <2>0, <2>3 DEF StoreOK
    <3>2. Seen' /\ Owned'
      BY <1>0, <2>0, <2>3 DEF Seen, Owned
    <3> QED BY <3>1, <3>2 DEF StoreInv
  <2> QED BY <1>4, <2>1, <2>2, <2>3 DEF ReadNAT
<1>5. CASE RelistTables
  <2>1. StoreOK'
    BY <1>0, <1>5 DEF RelistTables, tables, StoreOK
  <2>2. Seen' /\ Owned'
    BY <1>0, <1>5 DEF RelistTables, tables, Seen, Owned
  <2> QED BY <2>1, <2>2 DEF StoreInv
<1>6. CASE CheckOwnership
  <2>0. UNCHANGED <<filter, nat, interference, calm>>
    BY <1>6 DEF CheckOwnership, tables
  <2>1. CASE Return("error")
    BY <1>0, <2>0, <2>1, ReturnKeeps DEF StoreOK
  <2>2. CASE ~Return("error")
    <3>1. /\ call = "own" /\ call' = "flush"
          /\ UNCHANGED <<request, listed, observation, result>>
          /\ Changed("filter") => ~OwnershipConflict(listed.filter, filter)
          /\ Changed("nat") => ~OwnershipConflict(listed.nat, nat)
      BY <1>6, <2>2 DEF CheckOwnership
    <3>2. StoreOK'
      BY <1>0, <2>0, <3>1 DEF StoreOK
    <3>3. Seen'
      BY <1>0, <2>0, <3>1 DEF Seen
    <3>4. Owned'
      BY <1>0, <3>1 DEF Owned, Changed, OwnershipConflict, StoreOK, AtMostOne
    <3> QED BY <3>2, <3>3, <3>4 DEF StoreInv
  <2> QED BY <2>1, <2>2
<1>7. CASE Flush
  <2>0. interference' = interference /\ calm' = calm
    BY <1>7 DEF Flush
  <2>1. /\ filter' \subseteq FilterTables /\ AtMostOne(filter')
        /\ nat' \subseteq NATTables /\ AtMostOne(nat')
    <3>1. CASE Commit
      BY <1>0, <3>1, CommitTables DEF StoreOK, AtMostOne
    <3>2. CASE UNCHANGED tables
      BY <1>0, <3>2 DEF StoreOK, tables
    <3> QED BY <1>7, <3>1, <3>2 DEF Flush
  <2>2. CASE Return("error")
    BY <1>0, <2>0, <2>1, <2>2, ReturnKeeps
  <2>3. CASE ~Return("error")
    <3>1. /\ call = "flush" /\ call' = "list" /\ UNCHANGED <<request, result>>
          /\ listed' = NoTables
      BY <1>7, <2>3 DEF Flush
    <3>2. StoreOK'
      BY <1>0, <2>0, <2>1, <3>1 DEF StoreOK, NoTables, AtMostOne
    <3>3. Seen' /\ Owned'
      BY <1>0, <2>0, <3>1 DEF Seen, Owned
    <3> QED BY <3>2, <3>3 DEF StoreInv
  <2> QED BY <2>2, <2>3
<1>8. CASE StoreFails
  <2>1. Return("error") /\ UNCHANGED <<filter, nat, interference>>
    BY <1>8 DEF StoreFails, tables
  <2> QED BY <1>0, <2>1, ReturnKeeps DEF StoreOK
<1>9. CASE Interfere
  <2>1. /\ filter' \subseteq FilterTables /\ AtMostOne(filter')
        /\ nat' \subseteq NATTables /\ AtMostOne(nat')
    BY <1>0, <1>9, InterfereTables
  <2>2. /\ UNCHANGED <<call, request, listed, observation, result>>
        /\ calm' = FALSE /\ interference' = interference + 1
    BY <1>9 DEF Interfere, storeVars
  <2>3. StoreOK'
    BY <1>0, <2>1, <2>2 DEF StoreOK
  <2>4. Seen' /\ Owned'
    BY <1>0, <2>2 DEF Seen, Owned, Changed
  <2> QED BY <2>3, <2>4 DEF StoreInv
<1>10. CASE LeaveStore
  <2>1. StoreOK'
    BY <1>0, <1>10 DEF LeaveStore, tables, StoreOK, NoTables, AtMostOne,
                       safetyPacketFilterPolicy, Policy, PolicySet
  <2>2. Seen' /\ Owned'
    BY <1>10 DEF LeaveStore, Seen, Owned
  <2> QED BY <2>1, <2>2 DEF StoreInv
<1>11. CASE UNCHANGED filterVars
  <2>1. StoreOK'
    BY <1>0, <1>11 DEF filterVars, tables, storeVars, StoreOK
  <2>2. Seen' /\ Owned'
    BY <1>0, <1>11 DEF filterVars, tables, storeVars, Seen, Owned, Changed,
                      FilterAgrees, NATAgrees
  <2> QED BY <2>1, <2>2 DEF StoreInv
<1> QED BY <1>1, <1>2, <1>3, <1>4, <1>5, <1>6, <1>7, <1>8, <1>9, <1>10, <1>11
    DEF StoreNext, StoreStep

-----------------------------------------------------------------------------
(* Agreement that the store reports is enforcement, packet by packet, for  *)
(* every policy (store_linux.go:27-81, rules_linux.go, reconciler.go:      *)
(* 615-645).                                                               *)
THEOREM MatchIsEnforced == StoreSpec => []VerifiedMeansEnforced
<1>1. StoreSpec => []StoreInv
  BY InitStore, NextStore, PTL DEF StoreSpec
<1>2. StoreInv => VerifiedMeansEnforced
  BY StoreInvImplies
<1> QED BY <1>1, <1>2, PTL

(* The store never touches a table without ownership metadata that it has  *)
(* listed, whatever is deleted, created or stripped between the two        *)
(* listings and the commit (Apply: 100-128).                               *)
THEOREM ForeignTablesAreKept == StoreSpec => ForeignTableSurvives
<1> DEFINE Kept ==
      interference' = interference =>
        /\ \A t \in filter \cap listed.filter : t.metadata = {} => filter' = filter
        /\ \A t \in nat \cap listed.nat : t.metadata = {} => nat' = nat
<1>1. StoreSpec => []StoreInv
  BY InitStore, NextStore, PTL DEF StoreSpec
<1>2. ASSUME StoreInv, StoreNext PROVE Kept
  <2>1. CASE UNCHANGED tables
    BY <2>1 DEF tables
  <2>2. CASE Commit /\ call = "flush"
    BY <1>2, <2>2, Zenon DEF StoreInv, Owned, Commit, Changed
  <2>3. CASE Interfere
    BY <1>2, <2>3 DEF Interfere, StoreInv, StoreOK
  <2> QED BY <1>2, <2>1, <2>2, <2>3, Zenon
      DEF StoreNext, StoreStep, Request, ListTables, ReadFilter, ReadNAT, RelistTables,
          CheckOwnership, Flush, StoreFails, LeaveStore
<1>3. StoreInv /\ [StoreNext]_filterVars => [Kept]_filterVars
  BY <1>2, Zenon
<1> QED BY <1>1, <1>3, PTL DEF StoreSpec, ForeignTableSurvives

(* The first state of the store is one of the abstract store.              *)
LEMMA InitEnforced == ASSUME FilterInit PROVE Enforced!Init
BY DEF FilterInit, ForeignFilter, Enforced!Init, Dropped, Marked, Masqueraded

(* A step of the store is a step of EnforcedPolicy or changes nothing that *)
(* it speaks of.                                                           *)
LEMMA NextEnforced ==
  ASSUME StoreInv, [StoreNext]_filterVars
  PROVE  [Enforced!Ask \/ Enforced!Enforce \/ Enforced!Outside]_Enforced!enforcedVars
<1>0. StoreOK /\ request \in PolicySet
  BY DEF StoreInv, StoreOK
<1>1. CASE UNCHANGED <<filter, nat, interference>>
  <2>1. /\ Dropped(filter)' = Dropped(filter) /\ Marked(filter)' = Marked(filter)
        /\ Masqueraded(nat)' = Masqueraded(nat) /\ interference' = interference
    BY <1>1 DEF Dropped, Marked, Masqueraded
  <2> QED BY <2>1 DEF Enforced!Ask, Enforced!enforcedVars
<1>2. CASE Flush /\ Commit
  <2>0. interference' = interference /\ request' = request
    BY <1>2 DEF Flush, Return
  <2>1. \/ Dropped(filter)' = Dropped(filter) /\ Marked(filter)' = Marked(filter)
        \/ /\ Dropped(filter)' = Enforced!ToDrop(request)
           /\ Marked(filter)' = Enforced!ToMark(request)
    <3>1. CASE filter' = filter
      BY <3>1, Zenon DEF Dropped, Marked
    <3>2. ASSUME NEW t \in FilterTables,
                 filter' = {t}, t.forward = forwardRuleSpecs(request),
                 t.local = localRuleSpecs(request), t.addresses = filterSetSpecs(request)
          PROVE  /\ Dropped(filter)' = Enforced!ToDrop(request)
                 /\ Marked(filter)' = Enforced!ToMark(request)
      <4>1. Dropped(filter)' = Dropped({t}) /\ Marked(filter)' = Marked({t})
        BY <3>2 DEF Dropped, Marked
      <4> QED BY <1>0, <3>2, <4>1, ForwardRulesMean, LocalRulesMean
    <3> QED BY <1>0, <1>2, <3>1, <3>2, CommitTables, Zenon
  <2>2. \/ Masqueraded(nat)' = Masqueraded(nat)
        \/ Masqueraded(nat)' = Enforced!ToMasquerade(request)
    <3>1. CASE nat' = nat
      BY <3>1 DEF Masqueraded
    <3>2. CASE nat' = {} /\ request.dns = {}
      <4>1. Masqueraded(nat)' = Masqueraded({})
        BY <3>2 DEF Masqueraded
      <4> QED BY <1>0, <3>2, <4>1, NoTableNoNAT
    <3>3. ASSUME NEW t \in NATTables, nat' = {t}, t.masquerade = natRuleSpecs(request)
          PROVE  Masqueraded(nat)' = Enforced!ToMasquerade(request)
      <4>1. Masqueraded(nat)' = Masqueraded({t})
        BY <3>3 DEF Masqueraded
      <4> QED BY <1>0, <3>3, <4>1, NATRulesMean
    <3> QED BY <1>0, <1>2, <3>1, <3>2, <3>3, CommitTables
  <2> QED BY <2>0, <2>1, <2>2 DEF Enforced!Enforce
<1>3. CASE Interfere
  <2>1. interference' = interference + 1 /\ request' = request
    BY <1>3 DEF Interfere, storeVars
  <2>2. /\ \A t \in filter' : t.forward = {} \/ \E u \in filter : t.forward = u.forward
        /\ \A t \in filter' : t.local = {} \/ \E u \in filter : t.local = u.local
                                                     /\ t.addresses = u.addresses
        /\ \A t \in nat' : t.masquerade = {} \/ \E u \in nat : t.masquerade = u.masquerade
    BY <1>0, <1>3, InterfereTables
  <2>3. Dropped(filter)' \subseteq Dropped(filter)
    BY <2>2 DEF Dropped
  <2>4. Marked(filter)' \subseteq Marked(filter)
    BY <2>2 DEF Marked
  <2>5. Masqueraded(nat)' \subseteq Masqueraded(nat)
    BY <2>2 DEF Masqueraded
  <2> QED BY <2>1, <2>3, <2>4, <2>5 DEF Enforced!Outside
<1> QED BY <1>1, <1>2, <1>3, Zenon
    DEF StoreNext, StoreStep, Request, ListTables, ReadFilter, ReadNAT, RelistTables,
        CheckOwnership, Flush, StoreFails, LeaveStore, tables, filterVars

(* The store implements EnforcedPolicy: what is enforced changes only as a *)
(* whole and only to what the requested policy means, whichever call       *)
(* fails, even after its commit took effect (Apply: 109-138).              *)
THEOREM StoreImplementsPolicy == StoreSpec => ImplementsEnforcedPolicy
<1>1. StoreSpec => []StoreInv
  BY InitStore, NextStore, PTL DEF StoreSpec
<1>2. FilterInit => Enforced!Init
  BY InitEnforced
<1>3. StoreInv /\ [StoreNext]_filterVars
        => [Enforced!Ask \/ Enforced!Enforce \/ Enforced!Outside]_Enforced!enforcedVars
  BY NextEnforced
<1> QED BY <1>1, <1>2, <1>3, PTL DEF StoreSpec, ImplementsEnforcedPolicy, Enforced!Spec

-----------------------------------------------------------------------------
(* The passes compose the two components: whatever they do is a step of    *)
(* the address cache and a step of the store, so what is proved of each    *)
(* holds in the composition.                                               *)

(* A step of the composition is a step of the resolver or leaves it alone. *)
LEMMA EgressSteps == ASSUME [Next]_vars PROVE [EgressNext]_egressVars
<1> DEFINE Goal == UNCHANGED egressVars \/ (LeaveResolve /\ UNCHANGED cacheVars)
<1>1. CASE Resolver
  BY <1>1 DEF Resolver, EgressNext
<1>2. CASE Clock
  BY <1>2 DEF Clock, EgressNext
<1>3. CASE Store
  BY <1>3 DEF Store
<1>4. CASE Prepare
  <2>1. Goal
    BY <1>4, Zenon DEF Prepare, CallStore, CallResolver, EndPass
  <2> QED BY <2>1 DEF EgressNext
<1>5. CASE Reconcile
  <2>1. Goal
    BY <1>5, Zenon
    DEF Reconcile, BeginReconcile, ObserveDesired, reconcileNoDrift, CloseGate, OpenGate,
        verifyDataPlane, Publish, ReconcileFails, finalizeSuccessfulReconcile, CallStore,
        CallResolver, EndPass
  <2> QED BY <2>1 DEF EgressNext
<1>6. CASE failClosed
  <2>1. Goal
    BY <1>6, Zenon DEF failClosed, CallStore, CallResolver, EndPass
  <2> QED BY <2>1 DEF EgressNext
<1>7. CASE StopRequested \/ Shutdown
  BY <1>7, Zenon DEF StopRequested, Shutdown, CallStore
<1>8. CASE Exit \/ Kill
  BY <1>8 DEF Exit, Kill, Reboot, EgressNext
<1>9. CASE UNCHANGED vars
  BY <1>9 DEF vars
<1> QED BY <1>1, <1>2, <1>3, <1>4, <1>5, <1>6, <1>7, <1>8, <1>9 DEF Next

(* The policies the passes ask for are policies.                           *)
LEMMA SafetyIsPolicy == safetyPacketFilterPolicy \in PolicySet
BY DEF safetyPacketFilterPolicy, Policy, PolicySet

(* packetFilterPolicy makes a policy of what the resolver returned,        *)
LEMMA MarkingIsPolicy ==
  ASSUME EgressInv, NEW closed \in BOOLEAN, NEW dns \in SUBSET Targets
  PROVE  packetFilterPolicy(dns, combined, closed) \in PolicySet
<1>1. combined \subseteq Addresses
  BY ControlEgressAssumption DEF EgressInv, CallOK
<1> QED BY <1>1 DEF packetFilterPolicy, Policy, PolicySet

(* and DNSTargets makes targets of the name servers.                       *)
LEMMA TargetsAreTargets ==
  ASSUME EgressInv, NEW paths \in [Range(nameServers) -> Interfaces]
  PROVE  DNSTargets(paths) \in SUBSET Targets
<1>1. Listed \subseteq Addresses
  <2> SUFFICES ASSUME NEW a \in Listed PROVE a \in Addresses
    BY Zenon
  <2>1. a \notin InvalidLines /\ a \in UNION {Range(l) : l \in ResolvConfs}
    BY Zenon DEF Listed
  <2>2. PICK lines \in ResolvConfs : a \in Range(lines)
    BY <2>1, Zenon
  <2>3. PICK i \in DOMAIN lines : a = lines[i]
    BY <2>2, Zenon DEF Range
  <2> QED BY <2>1, <2>3, ControlEgressAssumption, Zenon
<1>2. Range(nameServers) \subseteq Addresses
  BY <1>1 DEF EgressInv, CallOK
<1> QED BY <1>2 DEF DNSTargets, Targets

(* Moving the gate changes nothing else of a policy.                       *)
LEMMA GateIsPolicy ==
  ASSUME NEW p \in PolicySet, NEW closed \in BOOLEAN
  PROVE  /\ [p EXCEPT !.closed = closed] \in PolicySet
         /\ [p EXCEPT !.closed = closed].closed = closed
         /\ [p EXCEPT !.closed = closed].local = p.local
BY DEF PolicySet

(* The policy fail-closed falls back on is a policy.                       *)
LEMMA LastIsPolicy ==
  ASSUME lastPacketPolicy \subseteq PolicySet PROVE LastClosed \in PolicySet
<1>1. CASE lastPacketPolicy = {}
  BY <1>1, SafetyIsPolicy DEF LastClosed
<1>2. CASE lastPacketPolicy # {}
  <2>1. (CHOOSE p \in lastPacketPolicy : TRUE) \in PolicySet
    BY <1>2
  <2> QED BY <1>2, <2>1, GateIsPolicy, Zenon DEF LastClosed
<1> QED BY <1>1, <1>2

(* A call of the store, or its end, or nothing it sees.                    *)
LEMMA StoreSteps ==
  ASSUME EgressInv, StoreInv, lastPacketPolicy \subseteq PolicySet, [Next]_vars
  PROVE  [StoreNext]_filterVars
<1> DEFINE Goal == \/ UNCHANGED filterVars \/ LeaveStore
                   \/ \E p \in PolicySet, final \in BOOLEAN : Request(p, final)
<1>0. request \in PolicySet /\ LastClosed \in PolicySet /\ {} \in SUBSET Targets
  BY LastIsPolicy DEF StoreInv, StoreOK
<1>1. CASE Resolver \/ Clock
  BY <1>1 DEF Resolver, Clock
<1>2. CASE Store
  BY <1>2 DEF Store, StoreNext
<1>3. CASE Prepare
  <2>1. packetFilterPolicy({}, combined, TRUE) \in PolicySet
    BY <1>0, MarkingIsPolicy, Zenon
  <2>2. Goal
    BY <1>3, <2>1, SafetyIsPolicy, Zenon DEF Prepare, CallStore, CallResolver, EndPass
  <2> QED BY <2>2 DEF StoreNext
<1>4. CASE BeginReconcile \/ ReconcileFails
  <2>1. Goal
    BY <1>4, Zenon DEF BeginReconcile, ReconcileFails, CallResolver, EndPass
  <2> QED BY <2>1 DEF StoreNext
<1>5. CASE ObserveDesired
  <2>1. \A paths \in [Range(nameServers) -> Interfaces] :
          packetFilterPolicy(DNSTargets(paths), combined, FALSE) \in PolicySet
    BY TargetsAreTargets, MarkingIsPolicy, Zenon
  <2>2. Goal
    BY <1>5, <2>1, Zenon DEF ObserveDesired, CallStore, EndPass
  <2> QED BY <2>2 DEF StoreNext
<1>6. CASE reconcileNoDrift \/ CloseGate \/ OpenGate \/ verifyDataPlane \/ Publish
  <2>1. /\ [request EXCEPT !.closed = TRUE] \in PolicySet
        /\ [request EXCEPT !.closed = FALSE] \in PolicySet
    BY <1>0, GateIsPolicy, Zenon
  <2>2. Goal
    BY <1>0, <1>6, <2>1, Zenon
    DEF reconcileNoDrift, CloseGate, OpenGate, verifyDataPlane, Publish,
        finalizeSuccessfulReconcile, CallStore, EndPass
  <2> QED BY <2>2 DEF StoreNext
<1>7. CASE failClosed
  <2>1. packetFilterPolicy({}, combined, TRUE) \in PolicySet
    BY <1>0, MarkingIsPolicy, Zenon
  <2>2. Goal
    BY <1>0, <1>7, <2>1, Zenon DEF failClosed, CallStore, CallResolver, EndPass
  <2> QED BY <2>2 DEF StoreNext
<1>8. CASE StopRequested \/ Shutdown
  BY <1>0, <1>8, Zenon DEF StopRequested, Shutdown, CallStore, StoreNext
<1>9. CASE Exit \/ Kill
  BY <1>9 DEF Exit, Kill, Reboot, StoreNext
<1>10. CASE UNCHANGED vars
  BY <1>10 DEF vars
<1> QED BY <1>1, <1>2, <1>3, <1>4, <1>5, <1>6, <1>7, <1>8, <1>9, <1>10 DEF Next, Reconcile

-----------------------------------------------------------------------------
(* What a pass has in its hands at each of its calls: no resolution is     *)
(* under way while it is elsewhere, the store is idle unless it is called, *)
(* and from the observation to the verification the policy asked for marks *)
(* what was resolved and, once the gate is open, drops nothing.            *)

Serving == {"observe", "close", "open", "verify"}

Placed ==
  /\ \/ /\ stage \in {"boot", "ready", "failing", "stopping"}
        /\ step = "idle" /\ call = "idle"
     \/ stage \in {"safety", "failclosed", "shutdown"} /\ step = "idle"
     \/ stage \in Resolving /\ call = "idle"
     \/ stage \in {"prepare", "recover"} /\ step = "resolved"
     \/ stage \in Serving /\ step = "resolved" /\ request.local = combined
  /\ stage \in {"observe", "open", "verify"} => request.closed = FALSE

PassInv ==
  /\ EgressInv /\ StoreInv /\ lastPacketPolicy \subseteq PolicySet
  /\ Placed /\ ServedMarksAreFresh

(* No pass has begun.                                                      *)
LEMMA InitPass == ASSUME Init PROVE PassInv
<1>1. EgressInv /\ StoreInv
  BY InitEgress, InitStore DEF Init
<1> QED BY <1>1 DEF Init, EgressInit, FilterInit, PassInv, Placed, ServedMarksAreFresh

(* What the Reconciler remembers of its policies is a policy.              *)
LEMMA LastStays ==
  ASSUME StoreInv, lastPacketPolicy \subseteq PolicySet, [Next]_vars
  PROVE  lastPacketPolicy' \subseteq PolicySet
<1>1. lastPacketPolicy' \in {lastPacketPolicy, {request}, {}}
  <2>1. CASE Resolver \/ Clock \/ Store \/ Exit \/ Kill \/ UNCHANGED vars
    BY <2>1 DEF Resolver, Clock, Store, Exit, Kill, Reboot, vars, passVars
  <2>2. CASE Prepare
    BY <2>2, Zenon DEF Prepare
  <2>3. CASE Reconcile
    BY <2>3, Zenon
    DEF Reconcile, BeginReconcile, ObserveDesired, reconcileNoDrift, CloseGate, OpenGate,
        verifyDataPlane, Publish, ReconcileFails, finalizeSuccessfulReconcile
  <2>4. CASE failClosed
    BY <2>4, Zenon DEF failClosed
  <2>5. CASE StopRequested \/ Shutdown
    BY <2>5, Zenon DEF StopRequested, Shutdown
  <2> QED BY <2>1, <2>2, <2>3, <2>4, <2>5 DEF Next
<1> QED BY <1>1 DEF StoreInv, StoreOK

(* Each step of the pass hands on what the resolver and the store          *)
(* returned.                                                               *)
LEMMA PlacedStays ==
  ASSUME EgressInv, StoreInv, Placed, lastPacketPolicy \subseteq PolicySet, [Next]_vars
  PROVE  Placed'
<1>0. request \in PolicySet
  BY DEF StoreInv, StoreOK
<1>1. CASE Resolver
  <2>1. stage \in Resolving /\ call = "idle"
    <3>1. CASE ResolveStep
      <4>1. step \in {"domain", "lookup"}
        BY <3>1, Zenon DEF ResolveStep, TakeDomain, ServerAnswers, ServerFails, FinishResolve
      <4> QED BY <4>1 DEF Placed
    <3>2. CASE stage \in Resolving /\ BeginResolve
      BY <3>2 DEF Placed, Resolving, Serving
    <3> QED BY <1>1, <3>1, <3>2 DEF Resolver
  <2>2. stage' = stage /\ call' = call
    BY <1>1 DEF Resolver, filterVars, storeVars, passVars
  <2> QED BY <2>1, <2>2 DEF Placed, Resolving
<1>2. CASE Clock
  <2>1. stage \in Resolving /\ stage' = stage /\ call' = call
    BY <1>2 DEF Clock, filterVars, storeVars, passVars
  <2> QED BY <2>1 DEF Placed, Resolving, Serving
<1>3. CASE Store
  <2>1. call # "idle" /\ stage' = stage /\ step' = step /\ combined' = combined
    BY <1>3 DEF Store, egressVars, callVars, passVars
  <2>2. request' = request
    BY <1>3
    DEF Store, StoreStep, ListTables, ReadFilter, ReadNAT, RelistTables, CheckOwnership, Flush,
        StoreFails, Interfere, Return, storeVars
  <2> QED BY <2>1, <2>2 DEF Placed
<1>4. ASSUME NEW next \in {"ready", "failing", "stopping"}, NEW end, EndPass(next, end)
      PROVE  Placed'
  BY <1>4 DEF EndPass, LeaveResolve, LeaveStore, Placed
<1>5. ASSUME NEW next \in Resolving, CallResolver(next), call = "idle"
      PROVE  Placed'
  BY <1>5 DEF CallResolver, filterVars, storeVars, Placed, Resolving
<1>6. ASSUME NEW next \in {"safety", "failclosed", "shutdown"}, NEW p, NEW final,
             CallStore(next, p, final), step = "idle"
      PROVE  Placed'
  BY <1>6 DEF CallStore, egressVars, callVars, Placed
<1>7. ASSUME NEW next \in {"prepare", "recover"}, NEW p, NEW final,
             CallStore(next, p, final), step = "resolved"
      PROVE  Placed'
  BY <1>7 DEF CallStore, egressVars, callVars, Placed
<1>8. ASSUME NEW next \in Serving, NEW p, NEW final, CallStore(next, p, final),
             step = "resolved", p.local = combined, next # "close" => p.closed = FALSE
      PROVE  Placed'
  BY <1>8 DEF CallStore, Request, egressVars, callVars, Placed, Serving
<1>9. CASE Prepare
  <2>1. stage = "boot" => step = "idle"
    BY DEF Placed, Resolving, Serving
  <2> QED BY <1>4, <1>5, <1>6, <1>7, <1>9, <2>1, Zenon
      DEF Prepare, Matched, StoreReturned, Resolved, Resolving
<1>10. CASE BeginReconcile \/ ReconcileFails
  <2>1. stage = "ready" => call = "idle"
    BY DEF Placed, Resolving, Serving
  <2> QED BY <1>4, <1>5, <1>10, <2>1 DEF BeginReconcile, ReconcileFails, Resolving
<1>11. CASE ObserveDesired
  <2>1. \A dns : /\ packetFilterPolicy(dns, combined, FALSE).local = combined
                 /\ packetFilterPolicy(dns, combined, FALSE).closed = FALSE
    BY DEF packetFilterPolicy, Policy
  <2> QED BY <1>4, <1>8, <1>11, <2>1, Zenon DEF ObserveDesired, Resolved, Serving
<1>12. CASE reconcileNoDrift \/ CloseGate \/ OpenGate \/ verifyDataPlane \/ Publish
  <2>1. /\ [request EXCEPT !.closed = TRUE].local = request.local
        /\ [request EXCEPT !.closed = FALSE].local = request.local
        /\ [request EXCEPT !.closed = FALSE].closed = FALSE
    BY <1>0, GateIsPolicy
  <2>2. stage \in Serving => step = "resolved" /\ request.local = combined
    BY DEF Placed, Resolving, Serving
  <2>3. stage \in {"observe", "open"} => request.closed = FALSE
    BY DEF Placed
  <2> QED BY <1>4, <1>8, <1>12, <2>1, <2>2, <2>3, Zenon
      DEF reconcileNoDrift, CloseGate, OpenGate, verifyDataPlane, Publish,
          finalizeSuccessfulReconcile, Matched, StoreReturned, Serving
<1>13. CASE failClosed
  <2>1. stage = "failing" => step = "idle"
    BY DEF Placed, Resolving, Serving
  <2> QED BY <1>4, <1>5, <1>6, <1>7, <1>13, <2>1, Zenon
      DEF failClosed, StoreReturned, Resolved, Resolving
<1>14. CASE StopRequested
  BY <1>14 DEF StopRequested, egressVars, callVars, filterVars, storeVars, Placed, Resolving,
               Serving
<1>15. CASE Shutdown
  <2>1. stage = "stopping" => step = "idle"
    BY DEF Placed, Resolving, Serving
  <2> QED BY <1>6, <1>15, <2>1, Zenon DEF Shutdown
<1>16. CASE Exit \/ Kill
  BY <1>16 DEF Exit, Kill, Reboot, LeaveResolve, LeaveStore, Placed
<1>17. CASE UNCHANGED vars
  BY <1>17 DEF vars, egressVars, callVars, filterVars, storeVars, passVars, Placed
<1> QED BY <1>1, <1>2, <1>3, <1>9, <1>10, <1>11, <1>12, <1>13, <1>14, <1>15, <1>16, <1>17
    DEF Next, Reconcile

(* A pass that succeeds leaves in force what it asked for, and it asked    *)
(* for what it had resolved.                                               *)
LEMMA ServedIsFresh ==
  ASSUME EgressInv, StoreInv, Placed, stage \in {"observe", "verify"}, result = "match", calm
  PROVE  /\ Dropped(filter) = {}
         /\ \A d \in DomainNames : heard[d].age <= MaximumStaleness
         /\ \A p \in Marked(filter) : \E d \in DomainNames : p.address \in heard[d].addresses
         /\ \A d \in DomainNames : \A a \in heard[d].addresses :
              \E p \in Marked(filter) : p.address = a
<1>1. /\ Dropped(filter) = Enforced!ToDrop(request)
      /\ Marked(filter) = Enforced!ToMark(request)
  BY StoreInvImplies DEF VerifiedMeansEnforced
<1>2. step = "resolved" /\ request.local = combined /\ request.closed = FALSE
  BY DEF Placed, Resolving, Serving
<1>3. /\ \A d \in DomainNames : heard[d].age <= MaximumStaleness
      /\ combined = UNION {heard[d].addresses : d \in DomainNames}
  BY <1>2, EgressInvImplies DEF ResultIsFresh
<1>4. Dropped(filter) = {}
  BY <1>1, <1>2 DEF Enforced!ToDrop
<1>5. \A p \in Marked(filter) : \E d \in DomainNames : p.address \in heard[d].addresses
  BY <1>1, <1>2, <1>3 DEF Enforced!ToMark
<1>6. ASSUME NEW d \in DomainNames, NEW a \in heard[d].addresses
      PROVE  \E p \in Marked(filter) : p.address = a
  <2>1. PICK protocol \in Protocols, port \in Ports : protocol \in {"tcp", "udp"}
    BY PacketFilterAssumption, Zenon
  <2>2. a \in combined /\ a \in Addresses
    BY <1>3, ControlEgressAssumption DEF EgressInv, CallOK
  <2> DEFINE p == [address |-> a, protocol |-> protocol, port |-> port]
  <2>3. p \in Enforced!ToMark(request)
    BY <1>2, <2>1, <2>2 DEF Enforced!ToMark, Enforced!OutputPackets
  <2>4. p.address = a
    OBVIOUS
  <2> HIDE DEF p
  <2> QED BY <1>1, <2>3, <2>4, Zenon
<1> QED BY <1>3, <1>4, <1>5, <1>6, Zenon

(* What a pass serves was fresh when it was resolved.                      *)
LEMMA ServedStays ==
  ASSUME PassInv, [Next]_vars PROVE ServedMarksAreFresh'
<1> SUFFICES ASSUME outcome' = "served", stage' = "ready", calm' PROVE ServedMarksAreFresh'
  BY Zenon DEF ServedMarksAreFresh
<1>1. CASE finalizeSuccessfulReconcile /\ stage \in {"observe", "verify"} /\ result = "match"
  <2>1. UNCHANGED <<filter, calm, heard>>
    BY <1>1, Zenon DEF finalizeSuccessfulReconcile, EndPass, LeaveStore, tables, cacheVars
  <2>2. calm
    BY <2>1
  <2> QED BY <1>1, <2>1, <2>2, ServedIsFresh, Zenon
      DEF PassInv, ServedMarksAreFresh, Dropped, Marked
<1>2. CASE UNCHANGED <<outcome, stage, calm, filter, heard>>
  BY <1>2, Zenon DEF PassInv, ServedMarksAreFresh, Dropped, Marked
<1>3. ASSUME stage = "ready" PROVE ~Resolver /\ ~Clock /\ ~Store
  BY <1>3, Zenon
  DEF Resolver, Clock, Store, ResolveStep, TakeDomain, ServerAnswers, ServerFails,
      FinishResolve, PassInv, Placed, Resolving, Serving
<1>4. ASSUME NEW next, NEW end, end # "served" PROVE ~EndPass(next, end)
  BY <1>4 DEF EndPass
<1>5. ASSUME NEW next, next # "ready" PROVE ~CallResolver(next)
  BY <1>5 DEF CallResolver
<1>6. ASSUME NEW next, NEW p, NEW final, next # "ready" PROVE ~CallStore(next, p, final)
  BY <1>6 DEF CallStore
<1>7. ~Prepare
  BY <1>4, <1>5, <1>6, Zenon DEF Prepare
<1>8. ~failClosed
  BY <1>4, <1>5, <1>6, Zenon DEF failClosed
<1>9. ~StopRequested /\ ~Shutdown /\ ~Exit /\ ~Kill
  BY <1>6, Zenon DEF StopRequested, Shutdown, Exit, Kill, Reboot
<1>10. Reconcile => /\ finalizeSuccessfulReconcile /\ stage \in {"observe", "verify"}
                    /\ result = "match"
  BY <1>4, <1>5, <1>6, Zenon
  DEF Reconcile, BeginReconcile, ObserveDesired, reconcileNoDrift, CloseGate, OpenGate,
      verifyDataPlane, Publish, ReconcileFails, Matched, StoreReturned
<1>11. ~Resolver /\ ~Clock /\ ~Store
  BY <1>3 DEF Resolver, Clock, Store, passVars
<1>12. UNCHANGED vars => UNCHANGED <<outcome, stage, calm, filter, heard>>
  BY Zenon DEF vars, egressVars, cacheVars, filterVars, tables, passVars
<1> QED BY <1>1, <1>2, <1>7, <1>8, <1>9, <1>10, <1>11, <1>12, Zenon DEF Next

(* Every step keeps the invariant of the composition.                      *)
LEMMA NextPass == ASSUME PassInv, [Next]_vars PROVE PassInv'
<1>1. EgressInv'
  BY EgressSteps, NextEgress DEF PassInv
<1>2. StoreInv'
  BY StoreSteps, NextStore DEF PassInv
<1>3. lastPacketPolicy' \subseteq PolicySet
  BY LastStays DEF PassInv
<1>4. Placed'
  BY PlacedStays DEF PassInv
<1> QED BY <1>1, <1>2, <1>3, <1>4, ServedStays DEF PassInv

(* It holds in every reachable state.                                      *)
LEMMA PassInductive == Spec => []PassInv
BY InitPass, NextPass, PTL DEF Spec

(* After a Reconcile that succeeded nothing from or to the Tailnet is      *)
(* dropped, and the host's packets are marked for exactly the addresses    *)
(* that the last answers gave, none of them older than MaximumStaleness    *)
(* when it resolved: through every retry, retained answer, refused         *)
(* transaction and policy handed from call to call (reconciler.go:116-387, *)
(* 615-704).                                                               *)
THEOREM ServedIsEnforced == Spec => []ServedMarksAreFresh
<1>1. PassInv => ServedMarksAreFresh
  BY DEF PassInv
<1> QED BY <1>1, PassInductive, PTL

(* The passes use the address cache and the store as their own             *)
(* specifications allow: what is proved of resolveLocalEgress and of the   *)
(* nftables store holds in Prepare, Reconcile, FailClosed and Shutdown,    *)
(* whenever these fail, stop or are killed (reconciler.go:70-114, 116-248, *)
(* 305-364, 419-540).                                                      *)
THEOREM PassesCompose == Spec => EgressSpec /\ StoreSpec
<1>1. Init => EgressInit /\ FilterInit
  BY DEF Init
<1>2. [Next]_vars => [EgressNext]_egressVars
  BY EgressSteps
<1>3. PassInv /\ [Next]_vars => [StoreNext]_filterVars
  BY StoreSteps DEF PassInv
<1> QED BY <1>1, <1>2, <1>3, PassInductive, PTL DEF Spec, EgressSpec, StoreSpec

(* So the five properties of the components hold of the passes.            *)
COROLLARY ComponentsInPasses ==
  Spec => /\ []ResultIsFresh /\ EveryServerIsAsked /\ []VerifiedMeansEnforced
          /\ ForeignTableSurvives /\ ImplementsEnforcedPolicy
BY PassesCompose, ResolvedIsFresh, NoServerIsStarved, MatchIsEnforced, ForeignTablesAreKept,
   StoreImplementsPolicy, PTL
=============================================================================
