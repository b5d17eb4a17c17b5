---------------------------- MODULE CertsProofs ----------------------------
(***************************************************************************)
(* The domains, their certificates and the orders, for any number of       *)
(* domains, calls of add_domain, tokens, certificates and deaths of the    *)
(* gateway.  The cycle has one domain in hand at a time, whose row says    *)
(* "issuing" from the first write to the last one (HandIssues): nobody     *)
(* takes the files of such a domain for whole while they are written, and  *)
(* what has been written so far is known from where the cycle is (Written).*)
(***************************************************************************)
EXTENDS Certs, FiniteSetTheorems, TLAPS

\* What a call of add_domain has still to write to Redis is in PostgreSQL.
Requested ==
    \A a \in Adds : pc[a] = "saved" =>
        /\ request[a] \in [domain : Domains, upstream : Upstreams]
        /\ request[a].upstream \in saved[request[a].domain]

Ordered == cycle \in {"answering", "polling"} => token \in Tokens

HandIssues == hand # None => row[hand].status = "issuing"

Written ==
    /\ cycle \in {"writing_key", "mirroring"} => disk[hand].cert = issued
    /\ cycle = "mirroring" => disk[hand].key = DomainKey(issued)

FilesAndRows == HandIssues /\ Written /\ IssuedIsWhole /\ StuckOnlyIfBroken

Inv ==
    /\ TypeOK /\ Requested /\ Ordered
    /\ FilesAndRows /\ TokensWithdrawn /\ RoutedIsSaved

\* No context of a domain is ever loaded.
DefaultOnly == \A d \in Domains : contexts[d] = 0

-----------------------------------------------------------------------------
(* Types.                                                                  *)

\* While an order is placed or its result is written, a domain is in hand.
LEMMA InHand ==
    TypeOK /\ cycle \in {"ordering", "answering", "polling", "failing", "writing_cert",
                         "writing_key", "mirroring"} => hand \in Domains
<1> SUFFICES ASSUME TypeOK, cycle \in {"ordering", "answering", "polling", "failing",
                                       "writing_cert", "writing_key", "mirroring"}
             PROVE hand \in Domains
  OBVIOUS
<1>1. cycle \notin Boot \union {"starting", "dead", "asleep", "checking"}
  BY DEF Boot
<1>. QED
  BY <1>1 DEF TypeOK

\* Every step keeps the type of the rows.
LEMMA RowsStep == TypeOK /\ [Next]_vars => row' \in [Domains -> Rows]
<1> SUFFICES ASSUME TypeOK, [Next]_vars PROVE row' \in [Domains -> Rows]
  OBVIOUS
<1>1. /\ row \in [Domains -> Rows] /\ issued \in Serials
      /\ hand \in Domains \union {None} /\ DomainKey(issued) \in KeyFiles
  BY DEF TypeOK, KeyFiles
<1>2. RecordFailure \/ MirrorAndReload => hand \in Domains
  BY InHand DEF RecordFailure, MirrorAndReload, OrderStep
<1>3. ASSUME NEW a \in Adds, NEW d \in Domains, NEW u \in Upstreams, AddDomain(a, d, u)
      PROVE row' \in [Domains -> Rows]
  <2>1. row[d] \in Rows
    BY <1>1
  <2>2. [row[d] EXCEPT !.upstream = u,
                       !.status = IF @ = "absent" THEN "pending" ELSE @] \in Rows
    BY <2>1 DEF Rows
  <2>. QED
    BY <1>1, <1>3, <2>1, <2>2 DEF AddDomain
<1>4. ASSUME NEW d \in Domains, NEW s \in {"issuing", "failed"},
             row' = [row EXCEPT ![d].status = s]
      PROVE row' \in [Domains -> Rows]
  <2>1. [row[d] EXCEPT !.status = s] \in Rows
    BY <1>1 DEF Rows
  <2>. QED
    BY <1>1, <1>4, <2>1
<1>5. CASE MirrorAndReload
  <2>1. row[hand] \in Rows /\ hand \in Domains
    BY <1>1, <1>2, <1>5
  <2>2. [row[hand] EXCEPT !.status = "issued", !.cert = issued,
                          !.key = DomainKey(issued), !.expires = "far"] \in Rows
    BY <1>1, <2>1 DEF Rows
  <2>. QED
    BY <1>1, <1>5, <2>1, <2>2 DEF MirrorAndReload, UpdateDomainCert
<1>6. ASSUME NEW d \in Domains, Age(d) PROVE row' \in [Domains -> Rows]
  <2>1. [row[d] EXCEPT !.expires = "soon"] \in Rows
    BY <1>1 DEF Rows
  <2>. QED
    BY <1>1, <1>6, <2>1 DEF Age
<1>7. CASE row' = row
  BY <1>1, <1>7
<1>8. ASSUME NEW d \in Domains, IssueForDomain(d) PROVE row' \in [Domains -> Rows]
  BY <1>4, <1>8 DEF IssueForDomain
<1>9. CASE RecordFailure
  BY <1>2, <1>4, <1>9 DEF RecordFailure
<1>10. ASSUME NEW a \in Adds, HashDomain(a) \/ AddFails(a) PROVE row' = row
  BY <1>10 DEF HashDomain, AddFails
<1>11. CASE \/ OpenDefaultKey \/ WriteDefaultKey \/ BuildContext \/ BootFails \/ BootAgain
            \/ Startup \/ StartupFails \/ CheckAll \/ EndCycle \/ CycleRaises
            \/ WriteCert \/ WriteKey \/ Thread \/ AuthorityVisits \/ Crash
            \/ UNCHANGED vars \/ \E d \in Domains : Handshake(d)
  BY <1>7, <1>11 DEF OpenDefaultKey, WriteDefaultKey, BuildContext, BootFails, BootAgain,
       Startup, StartupFails, CheckAll, EndCycle, CycleRaises, WriteCert, WriteKey,
       Thread, Offer, Answered, AnswerRefused, Finalize, IssueFails, AuthorityVisits,
       Crash, Handshake, vars
<1>. QED
  BY <1>3, <1>5, <1>6, <1>7, <1>8, <1>9, <1>10, <1>11 DEF Next, DomainsAPI, Cycle

\* restore_certs_from_db restores nothing, as the rows it is given have no key.
LEMMA NothingRestored == TypeOK /\ Startup => disk' = disk
<1> SUFFICES ASSUME TypeOK, Startup PROVE disk' = disk
  OBVIOUS
<1>1. row \in [Domains -> Rows] /\ disk \in [Domains -> Files]
  BY DEF TypeOK
<1>2. ASSUME NEW d \in Domains PROVE ListRows[d].key = None
  <2>1. row[d] \in Rows /\ ListRows[d] = [row[d] EXCEPT !.key = None]
    BY <1>1 DEF ListRows
  <2>. QED
    BY <2>1 DEF Rows
<1>. QED
  BY <1>1, <1>2 DEF Startup

\* A token that is offered was not pending.
LEMMA Fresh == TypeOK /\ pending # Tokens => FreshToken \in Tokens \ pending
  BY DEF TypeOK, FreshToken

\* Every step keeps the type of the files.
LEMMA FilesStep == TypeOK /\ [Next]_vars => disk' \in [Domains -> Files]
<1> SUFFICES ASSUME TypeOK, [Next]_vars PROVE disk' \in [Domains -> Files]
  OBVIOUS
<1>1. /\ disk \in [Domains -> Files] /\ issued \in Serials
      /\ hand \in Domains \union {None} /\ DomainKey(issued) \in KeyFiles
  BY DEF TypeOK, KeyFiles
<1>2. WriteCert \/ WriteKey => hand \in Domains
  BY InHand DEF WriteCert, WriteKey, OrderStep
<1>3. CASE WriteCert
  <2>1. hand \in Domains /\ [disk[hand] EXCEPT !.cert = issued] \in Files
    BY <1>1, <1>2, <1>3 DEF Files
  <2>. QED
    BY <1>1, <1>3, <2>1 DEF WriteCert
<1>4. CASE WriteKey
  <2>1. hand \in Domains /\ [disk[hand] EXCEPT !.key = DomainKey(issued)] \in Files
    BY <1>1, <1>2, <1>4 DEF Files
  <2>. QED
    BY <1>1, <1>4, <2>1 DEF WriteKey
<1>5. CASE Crash
  <2>1. NoFiles \in Files
    BY CertsAssumption DEF NoFiles, Files, Serials, KeyFiles
  <2>. QED
    BY <1>1, <1>5, <2>1 DEF Crash, filesVars
<1>6. CASE Startup
  BY <1>1, <1>6, NothingRestored
<1>7. CASE disk' = disk
  BY <1>1, <1>7
<1>8. CASE DomainsAPI
  BY <1>7, <1>8 DEF DomainsAPI, AddDomain, HashDomain, AddFails, storeVars, filesVars
<1>9. CASE \/ OpenDefaultKey \/ WriteDefaultKey \/ BuildContext \/ BootFails \/ BootAgain
           \/ StartupFails \/ CheckAll \/ EndCycle \/ CycleRaises \/ RecordFailure
           \/ MirrorAndReload \/ Thread \/ AuthorityVisits \/ UNCHANGED vars
  BY <1>7, <1>9 DEF OpenDefaultKey, WriteDefaultKey, BuildContext, BootFails, BootAgain,
       StartupFails, CheckAll, EndCycle, CycleRaises, RecordFailure, MirrorAndReload,
       Thread, Offer, Answered, AnswerRefused, Finalize, IssueFails, AuthorityVisits,
       vars, storeVars, filesVars
<1>10. ASSUME NEW d \in Domains, IssueForDomain(d) \/ Handshake(d) \/ Age(d) PROVE disk' = disk
  BY <1>10 DEF IssueForDomain, Handshake, Age, storeVars, filesVars
<1>. QED
  BY <1>3, <1>4, <1>5, <1>6, <1>7, <1>8, <1>9, <1>10 DEF Next, Cycle

\* The two counters stay within their bounds.
LEMMA Bounded ==
    /\ TypeOK /\ Finalize => issued' \in Serials
    /\ TypeOK /\ Crash => crashes' \in 0 .. MaxCrashes
    /\ 0 \in Serials
<1>1. ASSUME issued \in 0 .. MaxCerts, issued < MaxCerts, issued' = issued + 1
      PROVE issued' \in Serials
  BY <1>1, CertsAssumption DEF Serials
<1>2. ASSUME crashes \in 0 .. MaxCrashes, crashes < MaxCrashes, crashes' = crashes + 1
      PROVE crashes' \in 0 .. MaxCrashes
  BY <1>2, CertsAssumption
<1>3. TypeOK => issued \in 0 .. MaxCerts /\ crashes \in 0 .. MaxCrashes
  BY DEF TypeOK, Serials
<1>4. 0 \in Serials
  BY CertsAssumption DEF Serials
<1>. QED
  BY <1>1, <1>2, <1>3, <1>4 DEF Finalize, Crash

\* Whatever the order of the listing, it is a sequence of domains.
LEMMA ListingTyped ==
    ASSUME NEW S \in SUBSET Domains
    PROVE  SetToSeqs(S) \subseteq Seq(Domains)
<1>1. Cardinality(S) \in Nat
  BY CertsAssumption, FS_Subset, FS_CardinalityType
<1>. QED
  BY <1>1 DEF SetToSeqs

\* Every step keeps the types.
LEMMA TypeStep == TypeOK /\ Requested /\ Ordered /\ [Next]_vars => TypeOK'
<1> SUFFICES ASSUME TypeOK, Requested, Ordered, [Next]_vars PROVE TypeOK'
  OBVIOUS
<1>. row' \in [Domains -> Rows] /\ disk' \in [Domains -> Files]
  BY RowsStep, FilesStep
<1> USE CertsAssumption DEF TypeOK, Requested, Ordered, Serials, KeyFiles, apiVars, orderVars,
        cycleVars, filesVars, storeVars, OrderStep, Abandon, Boot
<1>1. ASSUME NEW a \in Adds, NEW d \in Domains, NEW u \in Upstreams, AddDomain(a, d, u)
      PROVE TypeOK'
  BY <1>1 DEF AddDomain
<1>2. ASSUME NEW a \in Adds, HashDomain(a) \/ AddFails(a) PROVE TypeOK'
  BY <1>2 DEF HashDomain, AddFails, EndAdd
<1>3. CASE OpenDefaultKey \/ WriteDefaultKey \/ BuildContext \/ BootFails \/ BootAgain
  BY <1>3 DEF OpenDefaultKey, WriteDefaultKey, BuildContext, BootFails, BootAgain
<1>4. CASE Startup
  BY <1>4, NothingRestored DEF Startup
<1>5. CASE StartupFails \/ EndCycle
  BY <1>5 DEF StartupFails, EndCycle
<1>19. CASE CheckAll
  BY <1>19, ListingTyped DEF CheckAll
<1>6. CASE CycleRaises
  BY <1>6 DEF CycleRaises, MayRaise
<1>7. ASSUME NEW d \in Domains, IssueForDomain(d) PROVE TypeOK'
  <2>1. Tail(todo) \in Seq(Domains)
    BY <1>7 DEF IssueForDomain
  <2>. QED
    BY <1>7, <2>1 DEF IssueForDomain
<1>8. CASE RecordFailure
  BY <1>8 DEF RecordFailure
<1>9. CASE WriteCert \/ WriteKey
  BY <1>9 DEF WriteCert, WriteKey, DomainKey
<1>10. CASE MirrorAndReload
  <2>1. contexts' \in [Domains -> Serials]
    BY <1>10, InHand DEF MirrorAndReload, Loaded, Files
  <2>. QED
    BY <1>10, <2>1 DEF MirrorAndReload
<1>11. CASE Offer
  BY <1>11, Fresh DEF Offer
<1>12. CASE Answered \/ AnswerRefused
  BY <1>12 DEF Answered, AnswerRefused
<1>13. CASE Finalize
  <2>1. issued' \in Serials
    BY <1>13, Bounded
  <2>. QED
    BY <1>13, <2>1 DEF Finalize
<1>14. CASE IssueFails \/ AuthorityVisits
  BY <1>14 DEF IssueFails, AuthorityVisits
<1>15. CASE Crash
  <2>1. crashes' \in 0 .. MaxCrashes /\ contexts' \in [Domains -> Serials]
    BY <1>15, Bounded DEF Crash
  <2>2. lost' \subseteq Domains /\ defaultKey' \in {"absent", "torn", "whole"}
    BY <1>15 DEF Crash
  <2>3. hand' = None /\ cycle' = "booting" /\ broken' \subseteq Domains
    BY <1>15 DEF Crash
  <2>. QED
    BY <1>15, <2>1, <2>2, <2>3 DEF Crash
<1>16. ASSUME NEW d \in Domains, Handshake(d) PROVE TypeOK'
  <2>1. contexts' \in [Domains -> Serials]
    BY <1>16 DEF Handshake, Loaded, Files
  <2>. QED
    BY <1>16, <2>1 DEF Handshake
<1>17. ASSUME NEW d \in Domains, Age(d) PROVE TypeOK'
  BY <1>17 DEF Age
<1>18. CASE UNCHANGED vars
  BY <1>18 DEF vars
<1>. QED
  BY <1>1, <1>2, <1>3, <1>4, <1>5, <1>6, <1>7, <1>8, <1>9, <1>10, <1>11, <1>12, <1>13,
     <1>14, <1>15, <1>16, <1>17, <1>18, <1>19 DEF Next, DomainsAPI, Cycle, Thread

-----------------------------------------------------------------------------
(* Requests and orders.                                                    *)

\* What a call of add_domain has still to write was saved, and the token of
\* an order is one of the tokens.
LEMMA RequestStep == Inv /\ [Next]_vars => Requested' /\ Ordered'
<1> SUFFICES ASSUME Inv, [Next]_vars PROVE Requested' /\ Ordered'
  OBVIOUS
<1>1. /\ pc \in [Adds -> {"idle", "saved", "ended"}]
      /\ request \in [Adds -> {None} \union [domain : Domains, upstream : Upstreams]]
      /\ saved \in [Domains -> SUBSET Upstreams]
  BY DEF Inv, TypeOK
<1>2. Requested /\ Ordered
  BY DEF Inv
<1>3. ASSUME NEW a \in Adds, NEW d \in Domains, NEW u \in Upstreams, AddDomain(a, d, u)
      PROVE Requested'
  BY <1>1, <1>2, <1>3 DEF AddDomain, Requested
<1>4. ASSUME NEW a \in Adds, HashDomain(a) \/ AddFails(a) PROVE Requested'
  BY <1>1, <1>2, <1>4 DEF HashDomain, AddFails, EndAdd, Requested
<1>5. DomainsAPI => Ordered'
  BY <1>2 DEF DomainsAPI, AddDomain, HashDomain, AddFails, cycleVars, orderVars, Ordered
<1>6. CASE Offer
  BY <1>2, <1>6, Fresh DEF Offer, OrderStep, apiVars, Requested, Ordered, Inv
<1>7. CASE Cycle \/ BootAgain \/ Crash
  BY <1>2, <1>7 DEF Cycle, OpenDefaultKey, WriteDefaultKey, BuildContext, BootFails, BootAgain,
       Startup, StartupFails, CheckAll, EndCycle, CycleRaises, IssueForDomain, RecordFailure,
       WriteCert, WriteKey, MirrorAndReload, Crash, OrderStep, apiVars, orderVars,
       Requested, Ordered
<1>8. CASE Answered \/ AnswerRefused \/ Finalize \/ IssueFails \/ AuthorityVisits
  BY <1>2, <1>8 DEF Answered, AnswerRefused, Finalize, IssueFails, AuthorityVisits, OrderStep,
       apiVars, cycleVars, Requested, Ordered
<1>9. CASE UNCHANGED vars \/ \E d \in Domains : Handshake(d) \/ Age(d)
  BY <1>2, <1>9 DEF Handshake, Age, vars, apiVars, orderVars, cycleVars, Requested, Ordered
<1>. QED
  BY <1>3, <1>4, <1>5, <1>6, <1>7, <1>8, <1>9 DEF Next, DomainsAPI, Thread

\* A token is withdrawn, or refused, before its order ends.
LEMMA TokensStep == Inv /\ [Next]_vars => TokensWithdrawn'
<1> SUFFICES ASSUME Inv, [Next]_vars PROVE TokensWithdrawn'
  OBVIOUS
<1>1. TokensWithdrawn /\ TypeOK
  BY DEF Inv
<1> USE DEF TokensWithdrawn, orderVars
<1>2. CASE Offer
  BY <1>1, <1>2 DEF Offer, OrderStep
<1>3. CASE Answered \/ AnswerRefused
  BY <1>1, <1>3 DEF Answered, AnswerRefused, OrderStep
<1>4. CASE Finalize \/ IssueFails \/ AuthorityVisits
  BY <1>1, <1>4 DEF Finalize, IssueFails, AuthorityVisits, OrderStep, cycleVars
<1>5. CASE DomainsAPI \/ \E d \in Domains : Handshake(d) \/ Age(d)
  BY <1>1, <1>5 DEF DomainsAPI, AddDomain, HashDomain, AddFails, Handshake, Age, cycleVars
<1>6. CASE Cycle \/ BootAgain
  BY <1>1, <1>6 DEF Cycle, OpenDefaultKey, WriteDefaultKey, BuildContext, BootFails, BootAgain,
       Startup, StartupFails, CheckAll, EndCycle, CycleRaises, MayRaise, IssueForDomain,
       RecordFailure, WriteCert, WriteKey, MirrorAndReload, OrderStep
<1>7. CASE Crash
  BY <1>7 DEF Crash
<1>8. CASE UNCHANGED vars
  BY <1>1, <1>8 DEF vars, cycleVars
<1>. QED
  BY <1>2, <1>3, <1>4, <1>5, <1>6, <1>7, <1>8 DEF Next, Thread

\* The hash of a domain holds an upstream the table had before.
LEMMA RoutesStep == Inv /\ [Next]_vars => RoutedIsSaved'
<1> SUFFICES ASSUME Inv, [Next]_vars PROVE RoutedIsSaved'
  OBVIOUS
<1>1. /\ hash \in [Domains -> Upstreams \union {None}]
      /\ saved \in [Domains -> SUBSET Upstreams]
      /\ Requested /\ RoutedIsSaved
  BY DEF Inv, TypeOK
<1> USE DEF RoutedIsSaved, ForwardsTo
<1>2. ASSUME NEW a \in Adds, NEW d \in Domains, NEW u \in Upstreams, AddDomain(a, d, u)
      PROVE RoutedIsSaved'
  BY <1>1, <1>2 DEF AddDomain
<1>3. ASSUME NEW a \in Adds, HashDomain(a) PROVE RoutedIsSaved'
  BY <1>1, <1>3 DEF HashDomain, Requested
<1>4. ASSUME hash' = hash, saved' = saved PROVE RoutedIsSaved'
  BY <1>1, <1>4
<1>5. ASSUME NEW a \in Adds, AddFails(a) PROVE RoutedIsSaved'
  BY <1>4, <1>5 DEF AddFails
<1>6. CASE Cycle
  BY <1>4, <1>6 DEF Cycle, OpenDefaultKey, WriteDefaultKey, BuildContext, BootFails,
       Startup, StartupFails, CheckAll, EndCycle, CycleRaises, IssueForDomain, RecordFailure,
       WriteCert, WriteKey, MirrorAndReload, apiVars
<1>7. CASE \/ Thread \/ AuthorityVisits \/ Crash \/ BootAgain \/ UNCHANGED vars
           \/ \E d \in Domains : Handshake(d) \/ Age(d)
  BY <1>4, <1>7 DEF Thread, Offer, Answered, AnswerRefused, Finalize, IssueFails,
       AuthorityVisits, Crash, BootAgain, Handshake, Age, vars, apiVars
<1>. QED
  BY <1>2, <1>3, <1>5, <1>6, <1>7 DEF Next, DomainsAPI

-----------------------------------------------------------------------------
(* Files and rows.                                                         *)

\* A step that leaves the rows, the files and the domain in hand alone, and
\* does not write a file, keeps what is known of rows and files.
LEMMA Quiet ==
    ASSUME FilesAndRows, row' = row, disk' = disk, lost' = lost, hand' = hand,
           issued' = issued, broken' = broken,
           cycle' = cycle \/ cycle' \notin {"writing_key", "mirroring"}
    PROVE  FilesAndRows'
  BY DEF FilesAndRows, HandIssues, Written, IssuedIsWhole, StuckOnlyIfBroken

\* Most steps are of that kind.
LEMMA QuietSteps ==
    ASSUME TypeOK, FilesAndRows,
           \/ UNCHANGED vars
           \/ \E a \in Adds : HashDomain(a) \/ AddFails(a)
           \/ OpenDefaultKey \/ WriteDefaultKey \/ BuildContext \/ BootFails \/ BootAgain
           \/ Startup \/ StartupFails \/ CheckAll \/ EndCycle
           \/ Offer \/ Answered \/ AnswerRefused \/ IssueFails \/ AuthorityVisits
           \/ \E d \in Domains : Handshake(d)
    PROVE  FilesAndRows'
<1>1. ASSUME NEW a \in Adds, HashDomain(a) \/ AddFails(a) PROVE FilesAndRows'
  BY <1>1, Quiet DEF HashDomain, AddFails, cycleVars, orderVars, storeVars, filesVars
<1>2. CASE OpenDefaultKey \/ WriteDefaultKey \/ BuildContext \/ BootFails \/ BootAgain
  BY <1>2, Quiet DEF OpenDefaultKey, WriteDefaultKey, BuildContext, BootFails, BootAgain,
       orderVars, storeVars, filesVars
<1>3. CASE Startup
  BY <1>3, Quiet, NothingRestored DEF Startup, orderVars
<1>4. CASE StartupFails \/ CheckAll \/ EndCycle
  BY <1>4, Quiet DEF StartupFails, CheckAll, EndCycle, orderVars, storeVars, filesVars
<1>5. CASE Offer \/ Answered \/ AnswerRefused \/ IssueFails
  BY <1>5, Quiet DEF Offer, Answered, AnswerRefused, IssueFails, OrderStep, storeVars, filesVars
<1>6. CASE AuthorityVisits
  BY <1>6, Quiet DEF AuthorityVisits, cycleVars, storeVars, filesVars
<1>7. ASSUME NEW d \in Domains, Handshake(d) PROVE FilesAndRows'
  BY <1>7, Quiet DEF Handshake, cycleVars, orderVars, filesVars
<1>8. CASE UNCHANGED vars
  BY <1>8, Quiet DEF vars, cycleVars, orderVars, storeVars, filesVars
<1>. QED
  BY <1>1, <1>2, <1>3, <1>4, <1>5, <1>6, <1>7, <1>8

\* The other steps of the domains API, and the clock.
LEMMA RowSteps ==
    ASSUME TypeOK, FilesAndRows,
           \/ \E a \in Adds, d \in Domains, u \in Upstreams : AddDomain(a, d, u)
           \/ \E d \in Domains : Age(d)
    PROVE  FilesAndRows'
<1>1. row \in [Domains -> Rows]
  BY DEF TypeOK
<1>2. ASSUME NEW a \in Adds, NEW d \in Domains, NEW u \in Upstreams, AddDomain(a, d, u)
      PROVE FilesAndRows'
  <2>1. ASSUME NEW e \in Domains
        PROVE  /\ row'[e].cert = row[e].cert /\ row'[e].key = row[e].key
               /\ row'[e].expires = row[e].expires
               /\ \/ row'[e].status = row[e].status
                  \/ row[e].status = "absent" /\ row'[e].status = "pending"
    BY <1>1, <1>2 DEF AddDomain, Rows
  <2>2. UNCHANGED <<disk, lost, hand, issued, broken, cycle>>
    BY <1>2 DEF AddDomain, orderVars, cycleVars, storeVars, filesVars
  <2>. QED
    BY <2>1, <2>2 DEF TypeOK, FilesAndRows, HandIssues, Written, IssuedIsWhole, StuckOnlyIfBroken
<1>3. ASSUME NEW d \in Domains, Age(d) PROVE FilesAndRows'
  <2>1. ASSUME NEW e \in Domains
        PROVE  /\ row'[e].cert = row[e].cert /\ row'[e].key = row[e].key
               /\ row'[e].status = row[e].status
               /\ row'[e].expires = "never" => row[e].expires = "never"
    BY <1>1, <1>3 DEF Age, Rows
  <2>2. UNCHANGED <<disk, lost, hand, issued, broken, cycle>>
    BY <1>3 DEF Age, orderVars, cycleVars, storeVars, filesVars
  <2>. QED
    BY <2>1, <2>2 DEF TypeOK, FilesAndRows, HandIssues, Written, IssuedIsWhole, StuckOnlyIfBroken
<1>. QED
  BY <1>2, <1>3

\* The steps that take a domain in hand, let it go, or write about it.
LEMMA HandSteps ==
    ASSUME TypeOK, FilesAndRows,
           \/ \E d \in Domains : IssueForDomain(d)
           \/ Finalize \/ WriteCert \/ WriteKey \/ MirrorAndReload \/ RecordFailure
           \/ CycleRaises \/ Crash
    PROVE  FilesAndRows'
<1>1. /\ row \in [Domains -> Rows] /\ disk \in [Domains -> Files]
      /\ hand \in Domains \union {None} /\ None \notin Domains
      /\ broken \subseteq Domains /\ lost \subseteq Domains
  BY CertsAssumption DEF TypeOK
<1>2. HandIssues /\ Written /\ IssuedIsWhole /\ StuckOnlyIfBroken
  BY DEF FilesAndRows
<1>3. cycle = "checking" => hand = None
  BY DEF TypeOK
<1> USE DEF FilesAndRows, HandIssues, Written, IssuedIsWhole, StuckOnlyIfBroken, OrderStep
<1>4. ASSUME NEW d \in Domains, IssueForDomain(d) PROVE FilesAndRows'
  <2>1. \A e \in Domains \ {d} : row'[e] = row[e]
    BY <1>1, <1>4 DEF IssueForDomain
  <2>2. row'[d].status = "issuing" /\ hand' = d /\ hand = None
    BY <1>1, <1>3, <1>4 DEF IssueForDomain, Rows
  <2>3. cycle' = "ordering" /\ UNCHANGED <<disk, lost, issued, broken>>
    BY <1>4 DEF IssueForDomain, orderVars, storeVars, filesVars
  <2>. QED
    BY <1>1, <1>2, <2>1, <2>2, <2>3
<1>5. CASE Finalize
  <2>1. cycle' = "writing_cert" /\ UNCHANGED <<row, disk, lost, hand, broken>>
    BY <1>5 DEF Finalize, storeVars, filesVars
  <2>. QED
    BY <1>2, <2>1
<1>6. CASE WriteCert
  <2>1. hand \in Domains /\ hand # None /\ row[hand].status = "issuing"
    BY <1>1, <1>2, <1>6, InHand DEF WriteCert
  <2>2. /\ \A e \in Domains \ {hand} : disk'[e] = disk[e]
        /\ disk'[hand].cert = issued
    BY <1>1, <1>6, <2>1 DEF WriteCert, Files
  <2>3. cycle' = "writing_key" /\ UNCHANGED <<row, lost, hand, issued, broken>>
    BY <1>6 DEF WriteCert, orderVars
  <2>. QED
    BY <1>2, <2>1, <2>2, <2>3
<1>7. CASE WriteKey
  <2>1. hand \in Domains /\ hand # None /\ row[hand].status = "issuing"
    BY <1>1, <1>2, <1>7, InHand DEF WriteKey
  <2>2. /\ \A e \in Domains \ {hand} : disk'[e] = disk[e]
        /\ disk'[hand].cert = disk[hand].cert /\ disk'[hand].key = DomainKey(issued)
    BY <1>1, <1>7, <2>1 DEF WriteKey, Files
  <2>3. /\ cycle = "writing_key" /\ cycle' = "mirroring" /\ lost' = lost \ {hand}
        /\ UNCHANGED <<row, hand, issued, broken>>
    BY <1>7 DEF WriteKey, orderVars
  <2>4. HandIssues' /\ StuckOnlyIfBroken'
    BY <1>2, <2>3
  <2>5. Written'
    BY <1>2, <2>2, <2>3 DEF DomainKey
  <2>6. IssuedIsWhole'
    BY <1>2, <2>1, <2>2, <2>3
  <2>. QED
    BY <2>4, <2>5, <2>6
<1>8. CASE MirrorAndReload
  <2>1. hand \in Domains /\ hand # None
    BY <1>1, <1>8, InHand DEF MirrorAndReload
  <2>2. \A e \in Domains \ {hand} : row'[e] = row[e]
    BY <1>1, <1>8, <2>1 DEF MirrorAndReload, UpdateDomainCert
  <2>3. /\ row'[hand].status = "issued" /\ row'[hand].cert = issued
        /\ row'[hand].key = DomainKey(issued)
    BY <1>1, <1>8, <2>1 DEF MirrorAndReload, UpdateDomainCert, Rows
  <2>4. disk[hand] = [cert |-> issued, key |-> DomainKey(issued)]
    BY <1>1, <1>2, <1>8, <2>1 DEF MirrorAndReload, Files
  <2>5. cycle' = "checking" /\ hand' = None /\ UNCHANGED <<disk, lost, issued, broken>>
    BY <1>8 DEF MirrorAndReload, filesVars, orderVars
  <2>. QED
    BY <1>1, <1>2, <2>1, <2>2, <2>3, <2>4, <2>5
<1>9. CASE RecordFailure
  <2>1. hand \in Domains /\ hand # None
    BY <1>1, <1>9, InHand DEF RecordFailure
  <2>2. (\A e \in Domains \ {hand} : row'[e] = row[e]) /\ row'[hand].status = "failed"
    BY <1>1, <1>9, <2>1 DEF RecordFailure, Rows
  <2>3. cycle' = "checking" /\ hand' = None /\ UNCHANGED <<disk, lost, issued, broken>>
    BY <1>9 DEF RecordFailure, storeVars, filesVars, orderVars
  <2>. QED
    BY <1>1, <1>2, <2>1, <2>2, <2>3
<1>10. CASE CycleRaises
  <2>1. /\ cycle' = "asleep" /\ hand' = None /\ UNCHANGED <<row, disk, lost, issued>>
        /\ broken' = IF hand = None THEN broken ELSE broken \union {hand}
    BY <1>10 DEF CycleRaises, storeVars, filesVars, orderVars
  <2>. QED
    BY <1>1, <1>2, <2>1
<1>11. CASE Crash
  <2>1. /\ cycle' = "booting" /\ hand' = None /\ UNCHANGED <<row, issued>>
        /\ broken' = IF hand = None THEN broken ELSE broken \union {hand}
        /\ UNCHANGED <<disk, lost>> \/ lost' = Domains
    BY <1>11 DEF Crash, filesVars
  <2>. QED
    BY <1>1, <1>2, <2>1
<1>. QED
  BY <1>4, <1>5, <1>6, <1>7, <1>8, <1>9, <1>10, <1>11

-----------------------------------------------------------------------------
\* Inv is an invariant of the certificates.
THEOREM Invariance == Spec => []Inv
<1>1. Init => Inv
  <2> SUFFICES ASSUME Init PROVE Inv
    OBVIOUS
  <2> USE CertsAssumption DEF Init
  <2>1. TypeOK
    BY Bounded DEF TypeOK, Rows, Files, NoRow, NoFiles, KeyFiles, Serials, Boot
  <2>2. Requested /\ Ordered /\ TokensWithdrawn
    BY DEF Requested, Ordered, TokensWithdrawn
  <2>3. FilesAndRows
    BY DEF FilesAndRows, HandIssues, Written, IssuedIsWhole, StuckOnlyIfBroken, NoRow
  <2>4. RoutedIsSaved
    BY DEF RoutedIsSaved, ForwardsTo
  <2>. QED
    BY <2>1, <2>2, <2>3, <2>4 DEF Inv
<1>2. Inv /\ [Next]_vars => Inv'
  <2> SUFFICES ASSUME Inv, [Next]_vars PROVE Inv'
    OBVIOUS
  <2>1. TypeOK'
    BY TypeStep DEF Inv
  <2>2. FilesAndRows'
    BY QuietSteps, RowSteps, HandSteps DEF Inv, Next, DomainsAPI, Cycle, Thread
  <2>. QED
    BY <2>1, <2>2, RequestStep, TokensStep, RoutesStep DEF Inv
<1>. QED
  BY <1>1, <1>2, PTL DEF Spec

\* Type correctness of the domains, their rows, files and orders.
THEOREM TypeCorrect == Spec => []TypeOK
<1>1. Inv => TypeOK
  BY DEF Inv
<1>. QED
  BY <1>1, Invariance, PTL

\* A domain the table calls issued has both files of one order, and the
\* table has the same pair, wherever the three writes of cert_store.py were
\* cut short, unless the volume was lost since.
THEOREM FilesAreWhole == Spec => []IssuedIsWhole
<1>1. Inv => IssuedIsWhole
  BY DEF Inv, FilesAndRows
<1>. QED
  BY <1>1, Invariance, PTL

\* A first order is left in "issuing" only by an error or a crash in the
\* middle of the cycle (renewal_task.py).
THEOREM StuckHasACause == Spec => []StuckOnlyIfBroken
<1>1. Inv => StuckOnlyIfBroken
  BY DEF Inv, FilesAndRows
<1>. QED
  BY <1>1, Invariance, PTL

\* The challenge endpoint answers for no order but the one in progress, and
\* those whose answer was refused (acme_client.py).
THEOREM TokensAreWithdrawn == Spec => []TokensWithdrawn
<1>1. Inv => TokensWithdrawn
  BY DEF Inv
<1>. QED
  BY <1>1, Invariance, PTL

\* The HTTPS handler forwards only to upstreams PostgreSQL had for the domain
\* (domains_api.py).
THEOREM RoutesAreSaved == Spec => []RoutedIsSaved
<1>1. Inv => RoutedIsSaved
  BY DEF Inv
<1>. QED
  BY <1>1, Invariance, PTL

-----------------------------------------------------------------------------
\* The key on disk is never the certificate's.
LEMMA NothingLoads == TypeOK => \A d \in Domains : Loaded(d) = 0
<1> SUFFICES ASSUME TypeOK, NEW d \in Domains PROVE Loaded(d) = 0
  OBVIOUS
<1>1. disk[d].key \in KeyFiles /\ disk[d].cert \in Serials
  BY DEF TypeOK, Files
<1>2. \A n, m \in Nat : DomainKey(n) # CertifiedKey(m)
  BY DEF DomainKey, CertifiedKey
<1>3. \A n \in Serials : n \in Nat
  BY CertsAssumption DEF Serials
<1>. QED
  BY <1>1, <1>2, <1>3 DEF Loaded, HasCert, KeyFiles

\* No handshake ever gets the certificate of an order, whichever calls the
\* libraries accept: in no behaviour of acme_client.py, cert_store.py and
\* sni_router.py together is a context of a domain loaded, and the default
\* certificate stays, where ssl_gateway/main.py:102 says that "Once ACME issues
\* a real cert, the SNI callback switches to it automatically."
THEOREM NeverServed == Spec => []DefaultOnly
<1>1. Init => DefaultOnly
  BY DEF Init, DefaultOnly
<1>2. TypeOK /\ DefaultOnly /\ [Next]_vars => DefaultOnly'
  <2> SUFFICES ASSUME TypeOK, DefaultOnly, [Next]_vars PROVE DefaultOnly'
    OBVIOUS
  <2>1. contexts \in [Domains -> Serials]
    BY DEF TypeOK
  <2> USE DEF DefaultOnly
  <2>2. CASE MirrorAndReload
    BY <2>1, <2>2, InHand, NothingLoads DEF MirrorAndReload, OrderStep
  <2>3. ASSUME NEW d \in Domains, Handshake(d) PROVE DefaultOnly'
    BY <2>1, <2>3, NothingLoads DEF Handshake
  <2>4. CASE Crash
    BY <2>4 DEF Crash
  <2>5. CASE contexts' = contexts
    BY <2>5
  <2>6. CASE DomainsAPI \/ Thread \/ AuthorityVisits \/ BootAgain \/ UNCHANGED vars
    BY <2>5, <2>6 DEF DomainsAPI, AddDomain, HashDomain, AddFails, Thread, Offer, Answered,
         AnswerRefused, Finalize, IssueFails, AuthorityVisits, BootAgain, storeVars, vars
  <2>7. CASE Cycle \/ \E d \in Domains : Age(d)
    BY <2>2, <2>5, <2>7 DEF Cycle, OpenDefaultKey, WriteDefaultKey, BuildContext, BootFails,
         Startup, StartupFails, CheckAll, EndCycle, CycleRaises, IssueForDomain, RecordFailure,
         WriteCert, WriteKey, Age, storeVars
  <2>. QED
    BY <2>3, <2>4, <2>6, <2>7 DEF Next
<1>. QED
  BY <1>1, <1>2, TypeCorrect, PTL DEF Spec

-----------------------------------------------------------------------------
(* The libraries of ssl_gateway/requirements.txt.                          *)

\* No order has been placed.
NoOrder ==
    /\ cycle \notin {"answering", "polling", "writing_cert", "writing_key", "mirroring"}
    /\ pending = {} /\ issued = 0
    /\ disk = [d \in Domains |-> NoFiles]

\* Where make_csr does not take a domain for a private key, the gateway places
\* no order, answers no challenge and writes no certificate, whoever adds
\* domains, however often the cycle comes round and whatever crashes
\* (acme_client.py:76): every domain that is tried fails.
THEOREM NothingOrdered == ASSUME "make_csr" \notin Accepted PROVE Spec => []NoOrder
<1>1. Init => NoOrder
  BY DEF Init, NoOrder
<1>2. TypeOK /\ NoOrder /\ [Next]_vars => NoOrder'
  <2> SUFFICES ASSUME TypeOK, NoOrder, [Next]_vars PROVE NoOrder'
    OBVIOUS
  <2> USE DEF NoOrder, orderVars, cycleVars, storeVars, filesVars, OrderStep
  <2>1. CASE Thread
    BY <2>1 DEF Thread, Offer, Answered, AnswerRefused, Finalize, IssueFails
  <2>2. CASE Startup
    BY <2>2, NothingRestored DEF Startup
  <2>3. CASE DomainsAPI \/ AuthorityVisits \/ BootAgain \/ UNCHANGED vars
    BY <2>3 DEF DomainsAPI, AddDomain, HashDomain, AddFails, AuthorityVisits, BootAgain, vars
  <2>4. CASE Crash
    BY <2>4 DEF Crash
  <2>5. ASSUME NEW d \in Domains, IssueForDomain(d) \/ Handshake(d) \/ Age(d) PROVE NoOrder'
    BY <2>5 DEF IssueForDomain, Handshake, Age
  <2>6. CASE OpenDefaultKey \/ WriteDefaultKey \/ BuildContext \/ BootFails \/ StartupFails
    BY <2>6 DEF OpenDefaultKey, WriteDefaultKey, BuildContext, BootFails, StartupFails
  <2>7. CASE \/ CheckAll \/ EndCycle \/ CycleRaises \/ RecordFailure
             \/ WriteCert \/ WriteKey \/ MirrorAndReload
    BY <2>7 DEF CheckAll, EndCycle, CycleRaises, RecordFailure, WriteCert, WriteKey,
         MirrorAndReload
  <2>. QED
    BY <2>1, <2>2, <2>3, <2>4, <2>5, <2>6, <2>7 DEF Next, Cycle
<1>. QED
  BY <1>1, <1>2, TypeCorrect, PTL DEF Spec

-----------------------------------------------------------------------------
(* Whose certificate it is.  A certificate is new when it is issued, and   *)
(* written for the domain in hand only.                                    *)

Writing == cycle \in {"writing_cert", "writing_key", "mirroring"}

\* Nobody has a certificate that is not issued, and nobody but the domain in
\* hand has the one that is being written.
Older ==
    /\ \A d \in Domains : disk[d].cert <= issued /\ row[d].cert <= issued
    /\ Writing => /\ issued > 0
                  /\ \A d \in Domains : d # hand => disk[d].cert < issued /\ row[d].cert < issued

Has(d, n) == disk[d].cert = n \/ row[d].cert = n

\* No certificate is found under two domains, on disk or in the table, though
\* a cycle may end between the files and the row.
Apart == \A d, e \in Domains, n \in 1 .. MaxCerts : Has(d, n) /\ Has(e, n) => d = e

\* The row of a domain never goes back to an older certificate.
NewerOnly == [][\A d \in Domains : row'[d].cert >= row[d].cert]_vars

\* Serial numbers are natural numbers.
LEMMA Counts ==
    TypeOK => /\ issued \in Nat
              /\ \A d \in Domains : disk[d].cert \in Nat /\ row[d].cert \in Nat
<1> SUFFICES ASSUME TypeOK
             PROVE  issued \in Nat /\ \A d \in Domains : disk[d].cert \in Nat /\ row[d].cert \in Nat
  OBVIOUS
<1>1. \A n \in Serials : n \in Nat
  BY CertsAssumption DEF Serials
<1>2. issued \in Serials /\ \A d \in Domains : disk[d].cert \in Serials /\ row[d].cert \in Serials
  BY DEF TypeOK, Rows, Files
<1>. QED
  BY <1>1, <1>2

\* Certificates change one at a time, and as follows.
LEMMA CertSteps ==
    ASSUME TypeOK, [Next]_vars
    PROVE  /\ \A d \in Domains : \/ disk'[d].cert \in {0, disk[d].cert}
                                 \/ Writing /\ d = hand /\ disk'[d].cert = issued
           /\ \A d \in Domains : \/ row'[d].cert = row[d].cert
                                 \/ Writing /\ d = hand /\ row'[d].cert = issued
           /\ \/ issued' = issued /\ (Writing' => Writing /\ hand' = hand)
              \/ issued' = issued + 1 /\ UNCHANGED <<disk, row>>
<1>1. /\ row \in [Domains -> Rows] /\ disk \in [Domains -> Files] /\ hand \in Domains \union {None}
  BY DEF TypeOK
<1> DEFINE D == \A d \in Domains : \/ disk'[d].cert \in {0, disk[d].cert}
                                   \/ Writing /\ d = hand /\ disk'[d].cert = issued
           R == \A d \in Domains : \/ row'[d].cert = row[d].cert
                                   \/ Writing /\ d = hand /\ row'[d].cert = issued
           I == \/ issued' = issued /\ (Writing' => Writing /\ hand' = hand)
                \/ issued' = issued + 1 /\ UNCHANGED <<disk, row>>
<1> SUFFICES D /\ R /\ I
  OBVIOUS
<1>2. ASSUME NEW a \in Adds, NEW d \in Domains, NEW u \in Upstreams, AddDomain(a, d, u)
      PROVE  D /\ R /\ I
  BY <1>1, <1>2 DEF AddDomain, Rows, orderVars, cycleVars, storeVars, filesVars, Writing
<1>3. ASSUME NEW d \in Domains, Age(d) PROVE D /\ R /\ I
  BY <1>1, <1>3 DEF Age, Rows, orderVars, cycleVars, storeVars, filesVars, Writing
<1>4. ASSUME NEW d \in Domains, IssueForDomain(d) PROVE D /\ R /\ I
  BY <1>1, <1>4 DEF IssueForDomain, Rows, orderVars, storeVars, filesVars, Writing
<1>5. CASE RecordFailure
  BY <1>1, <1>5, InHand DEF RecordFailure, OrderStep, Rows, orderVars, storeVars, filesVars, Writing
<1>6. CASE WriteCert
  BY <1>1, <1>6, InHand DEF WriteCert, OrderStep, Files, orderVars, Writing
<1>7. CASE WriteKey
  BY <1>1, <1>7, InHand DEF WriteKey, OrderStep, Files, orderVars, Writing
<1>8. CASE MirrorAndReload
  BY <1>1, <1>8, InHand
     DEF MirrorAndReload, UpdateDomainCert, OrderStep, Rows, orderVars, filesVars, Writing
<1>9. CASE Finalize
  <2>1. disk' = disk /\ row' = row /\ issued' = issued + 1
    BY <1>9 DEF Finalize, storeVars, filesVars
  <2>. QED
    BY <2>1
<1>10. CASE Crash
  <2>1. row' = row /\ issued' = issued /\ ~Writing'
    BY <1>10 DEF Crash, Writing
  <2>2. disk' = disk \/ disk' = [d \in Domains |-> NoFiles]
    BY <1>10 DEF Crash, filesVars
  <2>3. D
    BY <2>2 DEF NoFiles
  <2>. QED
    BY <2>1, <2>3
<1>11. CASE Startup
  <2>1. disk' = disk /\ row' = row /\ issued' = issued /\ ~Writing'
    BY <1>11, NothingRestored DEF Startup, orderVars, Writing
  <2>. QED
    BY <2>1
<1>12. CASE \/ OpenDefaultKey \/ WriteDefaultKey \/ BuildContext \/ BootFails \/ BootAgain
            \/ StartupFails \/ CheckAll \/ EndCycle \/ CycleRaises
  BY <1>12 DEF OpenDefaultKey, WriteDefaultKey, BuildContext, BootFails, BootAgain, StartupFails,
       CheckAll, EndCycle, CycleRaises, Boot, Writing, orderVars, storeVars, filesVars
<1>13. CASE Offer \/ Answered \/ AnswerRefused \/ IssueFails \/ AuthorityVisits
  BY <1>13 DEF Offer, Answered, AnswerRefused, IssueFails, AuthorityVisits, OrderStep, Writing,
       cycleVars, storeVars, filesVars
<1>14. CASE \/ UNCHANGED vars \/ \E d \in Domains : Handshake(d)
            \/ \E a \in Adds : HashDomain(a) \/ AddFails(a)
  BY <1>14 DEF vars, Handshake, HashDomain, AddFails, Writing, orderVars, cycleVars, storeVars,
       filesVars
<1>. QED
  BY <1>2, <1>3, <1>4, <1>5, <1>6, <1>7, <1>8, <1>9, <1>10, <1>11, <1>12, <1>13, <1>14
     DEF Next, DomainsAPI, Cycle, Thread

\* The gateway starts before any certificate is issued.
LEMMA FirstCounts ==
    Init => Older /\ \A d \in Domains : disk[d].cert = 0 /\ row[d].cert = 0
<1> SUFFICES ASSUME Init
             PROVE  Older /\ \A d \in Domains : disk[d].cert = 0 /\ row[d].cert = 0
  OBVIOUS
<1>1. issued = 0 /\ ~Writing /\ \A d \in Domains : disk[d].cert = 0 /\ row[d].cert = 0
  BY DEF Init, Writing, NoFiles, NoRow
<1>. QED
  BY <1>1 DEF Older

\* A certificate in hand is newer than any other domain has.
LEMMA OlderStep == TypeOK /\ Older /\ TypeOK' /\ [Next]_vars => Older'
<1> SUFFICES ASSUME TypeOK, Older, TypeOK', [Next]_vars PROVE Older'
  OBVIOUS
<1>1. ASSUME NEW d \in Domains
      PROVE  /\ disk[d].cert \in Nat /\ row[d].cert \in Nat /\ issued \in Nat
             /\ disk[d].cert <= issued /\ row[d].cert <= issued
             /\ Writing /\ d # hand => disk[d].cert < issued /\ row[d].cert < issued
  BY Counts DEF Older
<1>2. CASE issued' = issued /\ (Writing' => Writing /\ hand' = hand)
  <2>1. ASSUME NEW d \in Domains
        PROVE  /\ disk'[d].cert <= issued' /\ row'[d].cert <= issued'
               /\ Writing' /\ d # hand' => disk'[d].cert < issued' /\ row'[d].cert < issued'
    <3>1. \/ disk'[d].cert \in {0, disk[d].cert}
          \/ Writing /\ d = hand /\ disk'[d].cert = issued
      BY CertSteps
    <3>2. row'[d].cert = row[d].cert \/ (Writing /\ d = hand /\ row'[d].cert = issued)
      BY CertSteps
    <3>3. Writing => issued > 0
      BY DEF Older
    <3>. QED
      BY <1>1, <1>2, <3>1, <3>2, <3>3
  <2>2. Writing' => issued' > 0
    BY <1>2 DEF Older
  <2>. QED
    BY <2>1, <2>2 DEF Older
<1>3. CASE issued' = issued + 1 /\ UNCHANGED <<disk, row>>
  <2>1. issued \in Nat
    BY Counts
  <2>2. ASSUME NEW d \in Domains
        PROVE  /\ disk'[d].cert < issued' /\ row'[d].cert < issued'
               /\ disk'[d].cert <= issued' /\ row'[d].cert <= issued'
    BY <1>1, <1>3, <2>1
  <2>. QED
    BY <1>3, <2>1, <2>2 DEF Older
<1>. QED
  BY <1>2, <1>3, CertSteps

\* So the domain that gets it is the only one.
LEMMA ApartStep == TypeOK /\ Older /\ Apart /\ [Next]_vars => Apart'
<1> SUFFICES ASSUME TypeOK, Older, Apart, [Next]_vars,
                    NEW d \in Domains, NEW e \in Domains, NEW n \in 1 .. MaxCerts,
                    Has(d, n)', Has(e, n)', d # e
             PROVE  FALSE
  BY DEF Apart
<1>1. n \in Nat /\ n > 0
  BY CertsAssumption
<1>2. ASSUME NEW f \in Domains, disk'[f].cert = n \/ row'[f].cert = n
      PROVE  Has(f, n) \/ (Writing /\ f = hand /\ n = issued)
  <2>1. \/ disk'[f].cert \in {0, disk[f].cert}
        \/ Writing /\ f = hand /\ disk'[f].cert = issued
    BY CertSteps
  <2>2. row'[f].cert = row[f].cert \/ (Writing /\ f = hand /\ row'[f].cert = issued)
    BY CertSteps
  <2>. QED
    BY <1>1, <1>2, <2>1, <2>2 DEF Has
<1>3. ASSUME NEW f \in Domains, Writing, f # hand, n = issued PROVE ~Has(f, n)
  <2>1. disk[f].cert < n /\ row[f].cert < n
    BY <1>3 DEF Older
  <2>. QED
    BY <1>1, <2>1 DEF Has
<1>4. Has(d, n) /\ Has(e, n) => d = e
  BY DEF Apart
<1>. QED
  BY <1>2, <1>3, <1>4 DEF Has

\* cert_store.py never puts a certificate under a second domain.
THEOREM CertificatesStayApart == Spec => []Apart
<1>1. Init => Apart
  BY FirstCounts DEF Apart, Has
<1>. QED
  BY <1>1, FirstCounts, OlderStep, ApartStep, TypeCorrect, PTL DEF Spec

\* update_domain_cert only ever replaces a certificate by a newer one.
THEOREM RowsOnlyRenew == Spec => NewerOnly
<1>1. TypeOK /\ Older /\ [Next]_vars => [\A d \in Domains : row'[d].cert >= row[d].cert]_vars
  <2> SUFFICES ASSUME TypeOK, Older, [Next]_vars, NEW d \in Domains
               PROVE  row'[d].cert >= row[d].cert
    OBVIOUS
  <2>1. row[d].cert \in Nat /\ issued \in Nat /\ row[d].cert <= issued
    BY Counts DEF Older
  <2>. QED
    BY <2>1, CertSteps
<1>. QED
  BY <1>1, FirstCounts, OlderStep, TypeCorrect, PTL DEF Spec, NewerOnly

-----------------------------------------------------------------------------
(* Termination.  That the cycle goes on is fairness, which TLC checks; that *)
(* none goes on for ever, and that nothing but a new one starts it again,  *)
(* is proved here.                                                         *)

\* The steps a cycle may still take: seven per domain it has not come to, and
\* those of the domain in hand.
CycleLeft ==
    CASE cycle = "checking"                 -> 7 * Len(todo) + 1
      [] cycle \in {"failing", "mirroring"} -> 7 * Len(todo) + 2
      [] cycle = "writing_key"              -> 7 * Len(todo) + 3
      [] cycle = "writing_cert"             -> 7 * Len(todo) + 4
      [] cycle = "polling"                  -> 7 * Len(todo) + 5
      [] cycle = "answering"                -> 7 * Len(todo) + 6
      [] cycle = "ordering"                 -> 7 * Len(todo) + 7
      [] OTHER                              -> 0

\* The steps of the cycle, those of its thread included.
CycleStep ==
    \/ EndCycle \/ CycleRaises
    \/ \E d \in Domains : IssueForDomain(d)
    \/ RecordFailure \/ WriteCert \/ WriteKey \/ MirrorAndReload
    \/ Thread

\* The steps with a domain in hand.
Ahead ==
    \/ OrderStep("ordering", "answering") \/ OrderStep("ordering", "failing")
    \/ OrderStep("answering", "polling") \/ OrderStep("answering", "failing")
    \/ OrderStep("polling", "writing_cert") \/ OrderStep("polling", "failing")
    \/ OrderStep("writing_cert", "writing_key") \/ OrderStep("writing_key", "mirroring")
    \/ OrderStep("mirroring", "checking") \/ OrderStep("failing", "checking")

\* Each step of a cycle leaves it fewer, however its orders end; and only the
\* listing of a new one gives it more, no request to the API, no handshake,
\* no visit of the authority and no crash.
CyclesEnd ==
    [][/\ CycleStep => CycleLeft' < CycleLeft
       /\ CycleLeft' > CycleLeft => CheckAll]_vars

\* What is left is a number.
LEMMA LeftTyped == ASSUME TypeOK PROVE Len(todo) \in Nat /\ CycleLeft \in Nat
<1>1. Len(todo) \in Nat
  BY DEF TypeOK
<1>. QED
  BY <1>1 DEF CycleLeft

\* So it is after a step.
LEMMA LeftTypedNext == ASSUME TypeOK' PROVE CycleLeft' \in Nat
<1>1. Len(todo') \in Nat
  BY DEF TypeOK
<1>. QED
  BY <1>1 DEF CycleLeft

\* Each step of a cycle leaves it fewer.
LEMMA CycleDecreases == TypeOK /\ CycleStep => CycleLeft' < CycleLeft
<1> SUFFICES ASSUME TypeOK, CycleStep PROVE CycleLeft' < CycleLeft
  OBVIOUS
<1> DEFINE n == Len(todo)
<1>1. n \in Nat
  BY LeftTyped
<1>2. CASE todo' = todo /\ Ahead
  <2>1. Len(todo') = n
    BY <1>2
  <2>. QED
    BY <1>1, <1>2, <2>1 DEF Ahead, OrderStep, CycleLeft
<1>3. CASE /\ cycle \in {"checking", "writing_cert", "writing_key", "mirroring", "failing"}
           /\ cycle' = "asleep"
  BY <1>1, <1>3 DEF CycleLeft
<1>4. ASSUME NEW d \in Domains, IssueForDomain(d) PROVE CycleLeft' < CycleLeft
  <2>1. todo # <<>> /\ todo' = Tail(todo) /\ cycle = "checking" /\ cycle' = "ordering"
    BY <1>4 DEF IssueForDomain
  <2>2. todo \in Seq(Domains)
    BY DEF TypeOK
  <2>3. Len(todo') = n - 1
    BY <2>1, <2>2
  <2>. QED
    BY <1>1, <2>1, <2>3 DEF CycleLeft
<1>5. \/ todo' = todo /\ Ahead
      \/ /\ cycle \in {"checking", "writing_cert", "writing_key", "mirroring", "failing"}
         /\ cycle' = "asleep"
      \/ \E d \in Domains : IssueForDomain(d)
  BY DEF Ahead, OrderStep, CycleStep, Thread, EndCycle, CycleRaises, MayRaise, RecordFailure,
         WriteCert, WriteKey, MirrorAndReload, Offer, Answered, AnswerRefused, Finalize, IssueFails
<1>. QED
  BY <1>2, <1>3, <1>4, <1>5

\* Nothing else gives it more.
LEMMA CycleGrows ==
    ASSUME TypeOK, TypeOK', [Next]_vars, ~CycleStep, ~CheckAll
    PROVE  CycleLeft' <= CycleLeft
<1>1. CycleLeft \in Nat /\ CycleLeft' \in Nat
  BY LeftTyped, LeftTypedNext
<1>2. \/ cycle' = cycle /\ todo' = todo
      \/ cycle' \in {"booting", "writing_default", "down", "starting", "dead", "asleep"}
  <2>1. CASE DomainsAPI
    BY <2>1 DEF DomainsAPI, AddDomain, HashDomain, AddFails, EndAdd, cycleVars
  <2>2. CASE Cycle
    BY <2>2 DEF Cycle, CycleStep, OpenDefaultKey, WriteDefaultKey, BuildContext, BootFails,
                Startup, StartupFails
  <2>3. CASE AuthorityVisits \/ Crash \/ BootAgain \/ UNCHANGED vars
    BY <2>3 DEF AuthorityVisits, Crash, BootAgain, vars, cycleVars
  <2>4. CASE \E d \in Domains : Handshake(d) \/ Age(d)
    BY <2>4 DEF Handshake, Age, cycleVars
  <2>. QED
    BY <2>1, <2>2, <2>3, <2>4 DEF Next, CycleStep
<1>3. CASE cycle' = cycle /\ todo' = todo
  <2>1. CycleLeft' = CycleLeft
    BY <1>3 DEF CycleLeft
  <2>. QED
    BY <1>1, <2>1
<1>4. CASE cycle' \in {"booting", "writing_default", "down", "starting", "dead", "asleep"}
  <2>1. CycleLeft' = 0
    BY <1>4 DEF CycleLeft
  <2>. QED
    BY <1>1, <2>1
<1>. QED
  BY <1>2, <1>3, <1>4

\* check_and_renew_all comes to an end for any number of domains.
THEOREM RenewalsEnd == Spec => CyclesEnd
<1>1. TypeOK /\ TypeOK' /\ [Next]_vars =>
        [/\ CycleStep => CycleLeft' < CycleLeft
         /\ CycleLeft' > CycleLeft => CheckAll]_vars
  <2> SUFFICES ASSUME TypeOK, TypeOK', [Next]_vars
               PROVE  /\ CycleStep => CycleLeft' < CycleLeft
                      /\ CycleLeft' > CycleLeft => CheckAll
    OBVIOUS
  <2>1. CycleLeft \in Nat /\ CycleLeft' \in Nat
    BY LeftTyped, LeftTypedNext
  <2>. QED
    BY <2>1, CycleDecreases, CycleGrows
<1>. QED
  BY <1>1, TypeCorrect, PTL DEF Spec, CyclesEnd

=============================================================================
