---------------------------- MODULE LocalEgress ----------------------------
(***************************************************************************)
(* The addresses of the local-control domains: resolveLocalEgress and its  *)
(* address cache (internal/application/reconciler.go), over the resolver   *)
(* snapshot and name-server pool of internal/adapter/resolver.             *)
(*                                                                         *)
(* Time is counted from the moment the last call read the clock: an entry  *)
(* that was `age' old then is age + elapsed old now.  Ages are not told    *)
(* apart beyond Horizon, where every entry is too stale to be used.  The   *)
(* time a lookup may take is counted in finer units of its own             *)
(* (LookupTimeout).                                                        *)
(***************************************************************************)
EXTENDS Integers, Sequences, FiniteSets

CONSTANTS
  Domains,            \* the configured domains, in order
  Answers,            \* what a name server may answer for each domain
  Usable,             \* the addresses without a zone
  Accepted,           \* those of them a packet filter policy accepts
  ResolvConfs,        \* contents of resolv.conf: sequences of nameserver lines
  InvalidLines,       \* the lines that do not parse
  MaximumNameServers,
  MaximumResolved,
  LookupTimeout,
  RefreshInterval,
  MaximumStaleness,
  Reliable,           \* name servers that fail only by an outage
  MaxPassTime,        \* bound on the time one call takes
  MaxOutages          \* bound on outages

(* What configuration validation accepts (domain/configuration.go:336-387) *)
(* and the limits of the resolver.                                         *)
ASSUME LocalEgressAssumption ==
  /\ Domains \in Seq(STRING) /\ Domains # <<>>
  /\ \A i, j \in DOMAIN Domains : Domains[i] = Domains[j] => i = j
  /\ ResolvConfs \subseteq Seq(STRING)
  /\ MaximumNameServers \in Nat /\ MaximumResolved \in Nat
  /\ LookupTimeout \in Nat \ {0}
  /\ RefreshInterval \in Nat \ {0}
  /\ MaximumStaleness \in Nat /\ MaximumStaleness > RefreshInterval
  /\ MaxPassTime \in Nat /\ MaxOutages \in Nat

VARIABLES
  addressCache,  \* per domain the addresses, none if it has no entry, and their age
  elapsed,       \* time since the last call read the clock
  step,          \* where the call is
  nameServers,   \* the snapshot of this call
  domainIndex,   \* the domain being resolved
  serverIndex,   \* the name server being asked
  remaining,     \* what is left of the lookup's time
  failed,        \* resolutionErrors is not empty
  combined,      \* the addresses collected; the result once step = "resolved"
  outages,
  heard          \* history: the last good answer for each domain and its age, at most

cacheVars == <<addressCache, heard>>
callVars  == <<step, nameServers, domainIndex, serverIndex, remaining, failed, combined>>
egressVars == <<cacheVars, callVars, elapsed, outages>>

DomainNames == {Domains[i] : i \in DOMAIN Domains}

Horizon == MaximumStaleness + 1

NoEntry == [addresses |-> {}, age |-> Horizon]

EgressInit ==
  /\ addressCache = [d \in DomainNames |-> NoEntry]
  /\ heard = [d \in DomainNames |-> NoEntry]
  /\ elapsed = 0 /\ outages = 0
  /\ step = "idle"
  /\ nameServers = <<>> /\ domainIndex = 1 /\ serverIndex = 1 /\ remaining = 0
  /\ failed = FALSE /\ combined = {}

Outage == outages < MaxOutages /\ outages' = outages + 1

Returned == step \in {"idle", "resolved", "failed"}

(* A call spends its time waiting for name servers, at most until the      *)
(* deadline of the pass.                                                   *)
Tick ==
  /\ Returned \/ step = "lookup"
  /\ elapsed < (IF Returned THEN Horizon ELSE MaxPassTime)
  /\ elapsed' = elapsed + 1
  /\ UNCHANGED <<cacheVars, callVars, outages>>

-----------------------------------------------------------------------------
(* The resolver snapshot.                                                  *)

(* The first line of each name server, in order.                           *)
FirstLines(lines) == {i \in 1..Len(lines) : \A j \in 1..(i - 1) : lines[j] # lines[i]}

uniqueAddresses(lines) ==
  [k \in 1..Cardinality(FirstLines(lines)) |->
     lines[CHOOSE i \in FirstLines(lines) : Cardinality({j \in FirstLines(lines) : j <= i}) = k]]

(* A single bad line, no usable line or too many of them is an error.      *)
ReadFails(lines) ==
  \/ \E i \in DOMAIN lines : lines[i] \in InvalidLines
  \/ uniqueAddresses(lines) = <<>>
  \/ Len(uniqueAddresses(lines)) > MaximumNameServers

Aged(entry) ==
  [entry EXCEPT !.age = IF @ + elapsed < Horizon THEN @ + elapsed ELSE Horizon]

(* Snapshot, then the clock is read once for all domains.                  *)
BeginResolve ==
  /\ Returned
  /\ elapsed' = 0
  /\ addressCache' = [d \in DomainNames |-> Aged(addressCache[d])]
  /\ heard' = [d \in DomainNames |-> Aged(heard[d])]
  /\ domainIndex' = 1 /\ serverIndex' = 1 /\ remaining' = 0
  /\ failed' = FALSE /\ combined' = {}
  /\ \E lines \in ResolvConfs :
       \/ /\ ~ReadFails(lines)
          /\ nameServers' = uniqueAddresses(lines) /\ step' = "domain"
          /\ UNCHANGED outages
       \/ /\ ReadFails(lines) /\ Outage
          /\ nameServers' = <<>> /\ step' = "failed"

-----------------------------------------------------------------------------
(* The loop over the domains.                                              *)

Domain == Domains[domainIndex]

exists(d) == addressCache[d].addresses # {}

(* One more domain is dealt with.                                          *)
NextDomain(addresses, error) ==
  /\ step' = "domain" /\ domainIndex' = domainIndex + 1
  /\ combined' = combined \cup addresses
  /\ failed' = (failed \/ error)
  /\ serverIndex' = 1 /\ remaining' = 0
  /\ UNCHANGED nameServers

refreshDue(d) == ~exists(d) \/ addressCache[d].age >= RefreshInterval

TakeDomain ==
  /\ step = "domain" /\ domainIndex <= Len(Domains)
  /\ \/ /\ refreshDue(Domain)
        /\ step' = "lookup" /\ serverIndex' = 1 /\ remaining' = LookupTimeout
        /\ UNCHANGED <<nameServers, domainIndex, failed, combined>>
     \/ ~refreshDue(Domain) /\ NextDomain(addressCache[Domain].addresses, FALSE)
  /\ UNCHANGED <<cacheVars, elapsed, outages>>

FinishResolve ==
  /\ step = "domain" /\ domainIndex > Len(Domains)
  /\ step' = IF failed \/ combined = {} THEN "failed" ELSE "resolved"
  /\ UNCHANGED <<cacheVars, nameServers, domainIndex, serverIndex, remaining, failed,
                 combined, elapsed, outages>>

Entry(addresses) == [addresses |-> addresses, age |-> 0]

(* A refresh that succeeds is dated at the start of the call, the earliest *)
(* moment the answer can have been given.                                  *)
RefreshSucceeds(addresses) ==
  /\ addressCache' = [addressCache EXCEPT ![Domain] = Entry(addresses)]
  /\ heard' = [heard EXCEPT ![Domain] = Entry(addresses)]
  /\ NextDomain(addresses, FALSE)

RetainableForever(d) == exists(d)

Retainable(d) == exists(d) /\ addressCache[d].age <= MaximumStaleness

RefreshFails ==
  /\ UNCHANGED cacheVars
  /\ IF Retainable(Domain) THEN NextDomain(addressCache[Domain].addresses, FALSE)
                           ELSE NextDomain({}, TRUE)

-----------------------------------------------------------------------------
(* LookupNetIP: the name servers are asked in order.                       *)

Server == nameServers[serverIndex]

ServersLeft == Len(nameServers) - serverIndex + 1

WholeRemainder == remaining

(* resolverAttemptContext: an equal share of what is left; the last server *)
(* may use all of it.                                                      *)
resolverAttemptContext == IF ServersLeft <= 1 THEN remaining ELSE remaining \div ServersLeft

(* An answer takes a unit of time.  The first server with an answer ends   *)
(* the lookup, whether or not Resolve accepts the answer.                  *)
ServerAnswers ==
  /\ step = "lookup" /\ resolverAttemptContext > 0
  /\ \E answer \in Answers[Domain] :
       LET result == answer \cap Usable
           good   == result # {} /\ Cardinality(result) <= MaximumResolved
       IN  /\ IF good THEN RefreshSucceeds(result) ELSE RefreshFails
           /\ IF good /\ result \subseteq Accepted THEN UNCHANGED outages ELSE Outage
  /\ UNCHANGED elapsed

(* An error or an empty answer takes no time; silence takes the server's   *)
(* share; the end of the pass's context takes everything.                  *)
ServerFails ==
  /\ step = "lookup"
  /\ \E time \in {0, resolverAttemptContext, remaining} :
       /\ \/ /\ Server \in Reliable => resolverAttemptContext = 0
             /\ time \in {0, resolverAttemptContext}
             /\ UNCHANGED outages
          \/ Outage
       /\ IF time = remaining \/ ServersLeft <= 1
          THEN RefreshFails
          ELSE /\ serverIndex' = serverIndex + 1 /\ remaining' = remaining - time
               /\ UNCHANGED <<cacheVars, step, nameServers, domainIndex, failed, combined>>
  /\ UNCHANGED elapsed

(* The caller has used the result: the call's variables are gone.          *)
LeaveResolve ==
  /\ step' = "idle" /\ nameServers' = <<>>
  /\ domainIndex' = 1 /\ serverIndex' = 1 /\ remaining' = 0
  /\ failed' = FALSE /\ combined' = {}
  /\ UNCHANGED <<elapsed, outages>>

(* A new process has no entries.                                           *)
NewCache == addressCache' = [d \in DomainNames |-> NoEntry] /\ heard' = addressCache'

ResolveStep == TakeDomain \/ ServerAnswers \/ ServerFails \/ FinishResolve

EgressNext ==
  \/ Tick \/ BeginResolve \/ ResolveStep
  \/ LeaveResolve /\ (UNCHANGED cacheVars \/ NewCache)

EgressSpec == EgressInit /\ [][EgressNext]_egressVars

-----------------------------------------------------------------------------
(* Properties.                                                             *)

(* resolveLocalEgress never returns an address set that lacks a domain,    *)
(* mixes an old answer with a newer one of the same domain, or rests on an *)
(* answer given more than MaximumStaleness before the call, whatever       *)
(* failed, succeeded or was retained in this and earlier calls (664-703).  *)
ResultIsFresh ==
  step = "resolved" =>
    /\ \A d \in DomainNames : heard[d].addresses # {} /\ heard[d].age <= MaximumStaleness
    /\ combined = UNION {heard[d].addresses : d \in DomainNames}

(* Silent name servers cannot use up the lookup: without an outage no      *)
(* refresh fails before the last name server of the snapshot was asked     *)
(* (LookupNetIP, resolverAttemptContext: 161-193).                         *)
EveryServerIsAsked ==
  [][step = "lookup" /\ step' = "domain" /\ UNCHANGED <<addressCache, outages>>
       => ServersLeft <= 1]_egressVars
=============================================================================
