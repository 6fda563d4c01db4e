----------------------------- MODULE CustomDomain -----------------------------
(***************************************************************************)
(* Status pages on hostnames of their own: services/                       *)
(* custom-domain.service.ts keeps a row per hostname, proves its ownership *)
(* by a TXT record, and resolves hostnames for the edge.                   *)
(*                                                                         *)
(* A verification reads the row, asks the DNS and writes what it found;    *)
(* several may be under way, and the DNS changes or fails in between.  A   *)
(* token is named by the row it belongs to, and hostnames are normalized.  *)
(***************************************************************************)
EXTENDS Page, Naturals, FiniteSets

CONSTANTS
  Domain,
  Lookup,     \* verifications that may be under way at once
  MaxChanges  \* bound: changes of the DNS records

VARIABLES
  domain,     \* the rows; the unique index covers deleted ones too
  txt,        \* what the challenge record of a hostname holds
  lookup,     \* the verifications
  published,  \* hostnames whose owner once published the token
  changes

domainVars == <<domain, txt, lookup, published, changes>>

DomainInit ==
  /\ domain = [d \in Domain |-> [is |-> "none"]]
  /\ txt = [d \in Domain |-> "nothing"]
  /\ lookup = [l \in Lookup |-> [stage |-> "idle"]]
  /\ published = {}
  /\ changes = 0

\* create: a unique violation is answered with a conflict.
CreateDomain(d) ==
  /\ ~page.deleted
  /\ domain[d].is = "none"
  /\ domain' = [domain EXCEPT ![d] = [is |-> "row", status |-> "PENDING", verifiedAt |-> FALSE]]
  /\ UNCHANGED <<page, txt, lookup, published, changes>>

RemoveDomain(d) ==
  /\ domain[d].is = "row"
  /\ domain' = [domain EXCEPT ![d].is = "deleted"]
  /\ UNCHANGED <<page, txt, lookup, published, changes>>

\* The owner of the zone, whoever it is.
TxtChanges(d) ==
  /\ changes < MaxChanges
  /\ changes' = changes + 1
  /\ \E t \in {"nothing", "other", "token"} \ {txt[d]} :
       /\ t = "token" => domain[d].is # "none"
       /\ txt' = [txt EXCEPT ![d] = t]
       /\ published' = IF t = "token" THEN published \cup {d} ELSE published
  /\ UNCHANGED <<page, domain, lookup>>

BeginVerify(l, d) ==
  /\ lookup[l].stage = "idle"
  /\ domain[d].is = "row"
  /\ lookup' = [lookup EXCEPT ![l] = [stage |-> "ask", of |-> d, verifiedAt |-> domain[d].verifiedAt]]
  /\ UNCHANGED <<page, domain, txt, published, changes>>

\* Mutant of Verdict: any record will do.
VerdictOnAny(answer) == IF answer \in {"token", "other"} THEN "VERIFIED" ELSE "PENDING"

\* No record and a failed lookup both mean: not yet.
Verdict(answer) ==
  CASE answer = "token" -> "VERIFIED"
    [] answer = "other" -> "FAILED"
    [] answer \in {"nothing", "error"} -> "PENDING"

\* resolveTxt answers with what the record holds, or throws.
Ask(l) ==
  /\ lookup[l].stage = "ask"
  /\ \E answer \in {txt[lookup[l].of], "error"} :
       lookup' = [lookup EXCEPT ![l] =
         [stage |-> "write", of |-> @.of, verifiedAt |-> @.verifiedAt, status |-> Verdict(answer)]]
  /\ UNCHANGED <<page, domain, txt, published, changes>>

\* The row is written by its id, deleted or not; verifiedAt is the first time.
WriteVerdict(l) ==
  LET now == lookup[l]
  IN  /\ now.stage = "write"
      /\ domain' = [domain EXCEPT ![now.of].status = now.status,
                                  ![now.of].verifiedAt = now.verifiedAt \/ now.status = "VERIFIED"]
      /\ lookup' = [lookup EXCEPT ![l] = [stage |-> "idle"]]
      /\ UNCHANGED <<page, txt, published, changes>>

DomainNext ==
  \/ \E d \in Domain : CreateDomain(d) \/ RemoveDomain(d) \/ TxtChanges(d)
  \/ \E l \in Lookup : Ask(l) \/ WriteVerdict(l) \/ \E d \in Domain : BeginVerify(l, d)
  \/ PageNext /\ UNCHANGED domainVars

DomainSpec == PageInit /\ DomainInit /\ [][DomainNext]_<<page, domainVars>>

-----------------------------------------------------------------------------
(* What it is checked for *)

Outcome == {"PENDING", "VERIFIED", "FAILED"}

DomainTypeOK ==
  /\ domain \in [Domain -> [is : {"none"}] \cup
                           [is : {"row", "deleted"}, status : Outcome, verifiedAt : BOOLEAN]]
  /\ txt \in [Domain -> {"nothing", "other", "token"}]
  /\ lookup \in [Lookup -> [stage : {"idle"}] \cup
                           [stage : {"ask"}, of : Domain, verifiedAt : BOOLEAN] \cup
                           [stage : {"write"}, of : Domain, verifiedAt : BOOLEAN, status : Outcome]]
  /\ published \subseteq Domain

\* What /tls/authorize and the edge resolve: the page itself is not looked at.
resolve(d) == domain[d].is = "row" /\ domain[d].status = "VERIFIED"

\* "Ownership is proven by a DNS TXT challenge": however lookups overlap and records
\* change, a hostname resolves only if its token was once published there, and the
\* row remembers that it was.
ResolvedIsProven == \A d \in Domain : resolve(d) => d \in published /\ domain[d].verifiedAt

=============================================================================
