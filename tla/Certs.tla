------------------------------- MODULE Certs -------------------------------
(***************************************************************************)
(* Domains and their certificates: POST /api/domains of the control plane  *)
(* (control_plane/api/domains_api.py) and, in the SSL gateway, the renewal *)
(* cycle (renewal_task.py), the ACME order it runs in a thread             *)
(* (acme_client.py), the files and the row it writes (cert_store.py), the  *)
(* contexts that TLS handshakes ask for (sni_router.py) and the challenge  *)
(* endpoint, default certificate and start-up of main.py.                  *)
(*                                                                         *)
(* One order is in progress at a time, and the cycle stands still while it *)
(* is; handshakes, the authority's visits, the control plane and crashes   *)
(* come between any two steps.  Days are reduced to what the cycle asks of *)
(* them: an expiry is far away, or within RENEW_BEFORE_DAYS.               *)
(***************************************************************************)
EXTENDS Naturals, FiniteSets, SequencesExt

CONSTANTS
    Domains,
    Upstreams,
    Adds,           \* calls of add_domain
    Tokens,         \* challenge tokens that can be pending at once
    None,
    Upserts,        \* whether Table.insert() has on_conflict_do_update
    Accepted,       \* the calls of acme_client.py that the ACME libraries accept
    MaxCerts,       \* bound on certificates issued
    MaxCrashes      \* bound on deaths of the gateway

ASSUME CertsAssumption ==
    /\ IsFiniteSet(Domains)
    /\ None \notin Domains \union Upstreams \union Tokens
    /\ Upserts \in BOOLEAN
    /\ Accepted \subseteq {"make_csr", "private_bytes"}
    /\ MaxCerts \in Nat
    /\ MaxCrashes \in Nat

VARIABLES
    pc,             \* the await each add_domain sits in
    request,        \* the domain and upstream it is about
    row,            \* the domains table
    hash,           \* upstream_url of cognithhorn:domain:* in Redis
    cycle,          \* where the gateway's start, then the renewal task, is
    defaultKey,     \* privkey.pem of the default certificate
    todo,           \* the rows it listed and has not come to yet, in their order
    hand,           \* the domain it is issuing for
    token,          \* the challenge of the order in progress
    visit,          \* whether the authority came for it: "none", "valid", "invalid"
    pending,        \* _pending_challenges
    issued,         \* how many certificates the authority has issued
    disk,           \* fullchain.pem and privkey.pem of each domain
    contexts,       \* _contexts
    crashes,
    saved,          \* history: the upstreams the table had for each domain
    broken,         \* history: domains whose issuing was cut short
    lost,           \* history: domains whose files were lost after they were written
    refused         \* history: tokens whose answer the authority refused

apiVars     == <<pc, request, hash, saved>>
orderVars   == <<token, visit, pending, issued, refused>>
cycleVars   == <<cycle, todo, hand, broken>>
filesVars   == <<disk, lost, defaultKey>>
storeVars   == <<filesVars, contexts, crashes>>
vars        == <<apiVars, row, orderVars, cycleVars, storeVars>>

\* The order is placed with one CSR; domain_key is made after it, and is in
\* neither of the two CSRs (acme_client.py:76, 90, 93).
CertifiedKey(n) == <<n, "order">>
DomainKey(n)    == <<n, "domain">>

NoFiles  == [cert |-> 0, key |-> None]
HasCert(d) == disk[d].cert # 0 /\ disk[d].key # None
NoRow    == [status |-> "absent", upstream |-> None, cert |-> 0, key |-> None, expires |-> "never"]

Init ==
    /\ pc = [a \in Adds |-> "idle"]
    /\ request = [a \in Adds |-> None]
    /\ row = [d \in Domains |-> NoRow]
    /\ hash = [d \in Domains |-> None]
    /\ saved = [d \in Domains |-> {}]
    /\ cycle = "booting" /\ todo = <<>> /\ hand = None /\ broken = {}
    /\ token = None /\ visit = "none" /\ pending = {} /\ refused = {} /\ issued = 0
    /\ disk = [d \in Domains |-> NoFiles] /\ defaultKey = "absent"
    /\ contexts = [d \in Domains |-> 0]
    /\ lost = {} /\ crashes = 0

-----------------------------------------------------------------------------
(* POST /api/domains.  Its audit row, which nobody reads, is left out.     *)

\* Mutant: Redis is written first.
AddHashFirst(a, d, u) ==
    /\ pc[a] = "idle"
    /\ pc' = [pc EXCEPT ![a] = "saved"]
    /\ request' = [request EXCEPT ![a] = [domain |-> d, upstream |-> u]]
    /\ hash' = [hash EXCEPT ![d] = u]
    /\ UNCHANGED <<row, saved, orderVars, cycleVars, storeVars>>

\* upsert_domain: a row that exists keeps its certificate and its status.
\* It raises, and the call with it, where Table.insert() has no
\* on_conflict_do_update (crud.py:155).
AddDomain(a, d, u) ==
    /\ pc[a] = "idle"
    /\ Upserts
    /\ pc' = [pc EXCEPT ![a] = "saved"]
    /\ request' = [request EXCEPT ![a] = [domain |-> d, upstream |-> u]]
    /\ row' = [row EXCEPT ![d].upstream = u,
                          ![d].status = IF @ = "absent" THEN "pending" ELSE @]
    /\ saved' = [saved EXCEPT ![d] = @ \union {u}]
    /\ UNCHANGED <<hash, orderVars, cycleVars, storeVars>>

EndAdd(a) ==
    /\ pc' = [pc EXCEPT ![a] = "ended"]
    /\ request' = [request EXCEPT ![a] = None]

HashDomain(a) ==
    /\ pc[a] = "saved"
    /\ hash' = [hash EXCEPT ![request[a].domain] = request[a].upstream]
    /\ EndAdd(a)
    /\ UNCHANGED <<row, saved, orderVars, cycleVars, storeVars>>

\* Redis raises, or the control plane dies.
AddFails(a) ==
    /\ pc[a] = "saved"
    /\ EndAdd(a)
    /\ UNCHANGED <<row, hash, saved, orderVars, cycleVars, storeVars>>

\* What the HTTPS handler may forward a request to: the upstream in the
\* hash, or UPSTREAM_URL (None) when there is none or Redis raises.
ForwardsTo(d) == {hash[d], None}

-----------------------------------------------------------------------------
(* main(), before both servers run.  The files of the default certificate  *)
(* are looked for, not into, and the key is the later one.                 *)

OpenDefaultKey ==
    /\ cycle = "booting" /\ defaultKey = "absent"
    /\ cycle' = "writing_default"
    /\ defaultKey' = "torn"
    /\ UNCHANGED <<apiVars, row, orderVars, todo, hand, broken, disk, lost, contexts, crashes>>

WriteDefaultKey ==
    /\ cycle = "writing_default"
    /\ cycle' = "booting"
    /\ defaultKey' = "whole"
    /\ UNCHANGED <<apiVars, row, orderVars, todo, hand, broken, disk, lost, contexts, crashes>>

BuildContext ==
    /\ cycle = "booting" /\ defaultKey = "whole"
    /\ cycle' = "starting"
    /\ UNCHANGED <<apiVars, row, orderVars, todo, hand, broken, storeVars>>

\* load_cert_chain refuses a torn key, at this start and at every later one.
BootFails ==
    /\ \/ cycle = "booting" /\ defaultKey = "torn"
       \/ cycle = "writing_default"
    /\ cycle' = "down"
    /\ UNCHANGED <<apiVars, row, orderVars, todo, hand, broken, storeVars>>

\* docker-compose.yml: restart: unless-stopped.
BootAgain ==
    /\ cycle = "down"
    /\ cycle' = "booting"
    /\ UNCHANGED <<apiVars, row, orderVars, todo, hand, broken, storeVars>>

-----------------------------------------------------------------------------
(* The renewal cycle.                                                      *)

\* get_all_domains lists every key as None.
ListRows == [d \in Domains |-> [row[d] EXCEPT !.key = None]]

Due(r) == r.status \in {"pending", "failed"} \/ r.expires = "soon"

\* A failed start-up ends the server of port 80, which has the challenge
\* endpoint and the renewal task; asyncio.gather keeps port 443 running.
StartupFails ==
    /\ cycle = "starting"
    /\ cycle' = "dead"
    /\ UNCHANGED <<apiVars, row, orderVars, todo, hand, broken, storeVars>>

\* restore_certs_from_db, then create_task(run_renewal_loop()).
Startup ==
    /\ cycle = "starting"
    /\ disk' = [d \in Domains |->
                   LET r == ListRows[d]
                   IN  IF r.cert # 0 /\ r.key # None /\ ~HasCert(d)
                       THEN [cert |-> r.cert, key |-> r.key] ELSE disk[d]]
    /\ cycle' = "asleep"
    /\ UNCHANGED <<apiVars, row, orderVars, todo, hand, broken, lost, defaultKey, contexts,
                   crashes>>

\* get_all_domains has no ORDER BY: the rows come in any order.
\* Mutant: a failed domain is not tried again.
CheckPending ==
    /\ cycle = "asleep"
    /\ cycle' = "checking"
    /\ todo' \in SetToSeqs({d \in Domains : row[d].status = "pending" \/ row[d].expires = "soon"})
    /\ UNCHANGED <<apiVars, row, orderVars, hand, broken, storeVars>>

CheckAll ==
    /\ cycle = "asleep"
    /\ cycle' = "checking"
    /\ todo' \in SetToSeqs({d \in Domains : Due(ListRows[d])})
    /\ UNCHANGED <<apiVars, row, orderVars, hand, broken, storeVars>>

EndCycle ==
    /\ cycle = "checking"
    /\ todo = <<>>
    /\ cycle' = "asleep"
    /\ UNCHANGED <<apiVars, row, orderVars, todo, hand, broken, storeVars>>

IssueForDomain(d) ==
    /\ cycle = "checking"
    /\ todo # <<>>
    /\ d = Head(todo)
    /\ todo' = Tail(todo)
    /\ hand' = d
    /\ row' = [row EXCEPT ![d].status = "issuing"]
    /\ cycle' = "ordering"
    /\ UNCHANGED <<apiVars, orderVars, broken, storeVars>>

\* The writes: of the status of the next domain, and those about the one in
\* hand.  A listing that raises changes nothing, and is a stuttering step.
MayRaise ==
    \/ cycle = "checking" /\ todo # <<>>
    \/ cycle \in {"writing_cert", "writing_key", "mirroring", "failing"}

\* Mutant: the domain in hand is not let go.
CycleRaisesHolding ==
    /\ MayRaise
    /\ cycle' = "asleep"
    /\ todo' = <<>> /\ UNCHANGED hand
    /\ broken' = IF hand = None THEN broken ELSE broken \union {hand}
    /\ UNCHANGED <<apiVars, row, orderVars, storeVars>>

\* An error of PostgreSQL or of the disk about one domain ends the cycle for
\* all those after it.
CycleRaises ==
    /\ MayRaise
    /\ cycle' = "asleep"
    /\ todo' = <<>> /\ hand' = None
    /\ broken' = IF hand = None THEN broken ELSE broken \union {hand}
    /\ UNCHANGED <<apiVars, row, orderVars, storeVars>>

-----------------------------------------------------------------------------
(* issue_certificate, in a thread; what the authority does is external.    *)

OrderStep(from, to) == cycle = from /\ cycle' = to
Abandon == token' = None /\ visit' = "none"

\* Every order has a token of its own, and which one tells nothing.
FreshToken == CHOOSE t \in Tokens : t \notin pending

\* make_csr is given the domain for a private key; what parses the key as PEM
\* raises.  (The first order also has to make an account key, with the same
\* private_bytes as Finalize, unless its file was put there by hand.)
Offer ==
    /\ OrderStep("ordering", "answering")
    /\ "make_csr" \in Accepted
    /\ pending # Tokens
    /\ token' = FreshToken
    /\ pending' = pending \union {FreshToken}
    /\ UNCHANGED <<visit, issued, refused, apiVars, row, todo, hand, broken, storeVars>>

\* Mutant: the token is not withdrawn.
AnsweredKeeping ==
    /\ OrderStep("answering", "polling")
    /\ UNCHANGED <<orderVars, apiVars, row, todo, hand, broken, storeVars>>

\* The answer is accepted, and the token withdrawn at once.
Answered ==
    /\ OrderStep("answering", "polling")
    /\ pending' = pending \ {token}
    /\ UNCHANGED <<token, visit, issued, refused, apiVars, row, todo, hand, broken, storeVars>>

\* answer_challenge raises before the token is withdrawn.
AnswerRefused ==
    /\ OrderStep("answering", "failing")
    /\ refused' = refused \union {token}
    /\ Abandon
    /\ UNCHANGED <<pending, issued, apiVars, row, todo, hand, broken, storeVars>>

\* The authority asks the challenge endpoint for the token.
AuthorityVisits ==
    /\ cycle \in {"answering", "polling"}
    /\ visit = "none"
    /\ visit' = IF token \in pending THEN "valid" ELSE "invalid"
    /\ UNCHANGED <<token, pending, issued, refused, apiVars, row, cycleVars, storeVars>>

\* rsa has no PrivateFormat: private_bytes raises when the authority has issued.
Finalize ==
    /\ OrderStep("polling", "writing_cert")
    /\ "private_bytes" \in Accepted
    /\ visit = "valid"
    /\ issued < MaxCerts
    /\ issued' = issued + 1
    /\ Abandon
    /\ UNCHANGED <<pending, refused, apiVars, row, todo, hand, broken, storeVars>>

\* Mutant: a failed order is not recorded.
IssueFailsSilently ==
    /\ cycle \in {"ordering", "polling"}
    /\ cycle' = "checking"
    /\ hand' = None
    /\ Abandon
    /\ UNCHANGED <<pending, issued, refused, apiVars, row, todo, broken, storeVars>>

\* Any other error of the thread: issue_certificate returns None.
IssueFails ==
    /\ cycle \in {"ordering", "polling"}
    /\ cycle' = "failing"
    /\ Abandon
    /\ UNCHANGED <<pending, issued, refused, apiVars, row, todo, hand, broken, storeVars>>

RecordFailure ==
    /\ OrderStep("failing", "checking")
    /\ row' = [row EXCEPT ![hand].status = "failed"]
    /\ hand' = None
    /\ UNCHANGED <<orderVars, apiVars, todo, broken, storeVars>>

-----------------------------------------------------------------------------
(* write_cert: two files, then the row; reload_context follows at once.    *)

WriteCert ==
    /\ OrderStep("writing_cert", "writing_key")
    /\ disk' = [disk EXCEPT ![hand].cert = issued]
    /\ UNCHANGED <<contexts, lost, defaultKey, crashes, orderVars, apiVars, row, todo, hand,
                   broken>>

\* Mutant: an existing key file is kept.
WriteKeyOnce ==
    /\ OrderStep("writing_key", "mirroring")
    /\ disk' = [disk EXCEPT ![hand].key = IF @ = None THEN DomainKey(issued) ELSE @]
    /\ lost' = lost \ {hand}
    /\ UNCHANGED <<contexts, defaultKey, crashes, orderVars, apiVars, row, todo, hand, broken>>

WriteKey ==
    /\ OrderStep("writing_key", "mirroring")
    /\ disk' = [disk EXCEPT ![hand].key = DomainKey(issued)]
    /\ lost' = lost \ {hand}
    /\ UNCHANGED <<contexts, defaultKey, crashes, orderVars, apiVars, row, todo, hand, broken>>

\* load_cert_chain raises unless the key is the certificate's.
Loaded(d) ==
    IF HasCert(d) /\ disk[d].key = CertifiedKey(disk[d].cert) THEN disk[d].cert ELSE 0

UpdateDomainCert ==
    row' = [row EXCEPT ![hand] = [@ EXCEPT !.status = "issued", !.cert = issued,
                                           !.key = DomainKey(issued), !.expires = "far"]]

MirrorAndReload ==
    /\ OrderStep("mirroring", "checking")
    /\ UpdateDomainCert
    /\ contexts' = [contexts EXCEPT ![hand] = Loaded(hand)]
    /\ hand' = None
    /\ UNCHANGED <<filesVars, crashes, orderVars, apiVars, todo, broken>>

Boot == {"booting", "writing_default", "down"}

\* get_context, called by the SNI callback.
Handshake(d) ==
    /\ cycle \notin Boot
    /\ contexts' = [contexts EXCEPT ![d] = IF @ # 0 THEN @ ELSE Loaded(d)]
    /\ UNCHANGED <<filesVars, crashes, orderVars, apiVars, row, cycleVars>>

-----------------------------------------------------------------------------
\* The expiry of a certificate comes within the 30 days.
Age(d) ==
    /\ row[d].expires = "far"
    /\ row' = [row EXCEPT ![d].expires = "soon"]
    /\ UNCHANGED <<apiVars, orderVars, cycleVars, storeVars>>

\* The gateway dies and starts again, perhaps without its volume.
Crash ==
    /\ crashes < MaxCrashes
    /\ crashes' = crashes + 1
    /\ cycle' = "booting"
    /\ todo' = <<>> /\ hand' = None
    /\ broken' = IF hand = None THEN broken ELSE broken \union {hand}
    /\ token' = None /\ visit' = "none" /\ pending' = {} /\ refused' = {}
    /\ contexts' = [d \in Domains |-> 0]
    /\ \/ UNCHANGED filesVars
       \/ /\ disk' = [d \in Domains |-> NoFiles]
          /\ defaultKey' = "absent"
          /\ lost' = Domains
    /\ UNCHANGED <<issued, apiVars, row>>

-----------------------------------------------------------------------------
DomainsAPI ==
    \E a \in Adds :
        \/ \E d \in Domains, u \in Upstreams : AddDomain(a, d, u)
        \/ HashDomain(a) \/ AddFails(a)

Cycle ==
    \/ OpenDefaultKey \/ WriteDefaultKey \/ BuildContext \/ BootFails
    \/ Startup \/ StartupFails
    \/ CheckAll \/ EndCycle \/ CycleRaises
    \/ \E d \in Domains : IssueForDomain(d)
    \/ RecordFailure \/ WriteCert \/ WriteKey \/ MirrorAndReload

Thread ==
    \/ Offer \/ Answered \/ AnswerRefused \/ Finalize \/ IssueFails

Next ==
    \/ DomainsAPI \/ Cycle \/ Thread \/ AuthorityVisits \/ Crash \/ BootAgain
    \/ \E d \in Domains : Handshake(d) \/ Age(d)

Spec == Init /\ [][Next]_vars

\* The gateway's tasks and threads run, and an order ends in one way or
\* another (the ACME library gives up after its deadline).  Of PostgreSQL and the
\* disk nothing is assumed but that the listing does not raise for ever.
FairSpec == Spec /\ WF_vars(Cycle) /\ WF_vars(Thread)

-----------------------------------------------------------------------------
Serials == 0 .. MaxCerts
KeyFiles == {None} \union {DomainKey(n) : n \in Serials}
Files    == [cert : Serials, key : KeyFiles]
Rows     == [status : {"absent", "pending", "issuing", "issued", "failed"},
             upstream : Upstreams \union {None}, cert : Serials,
             key : KeyFiles, expires : {"never", "far", "soon"}]

TypeOK ==
    /\ pc \in [Adds -> {"idle", "saved", "ended"}]
    /\ request \in [Adds -> {None} \union [domain : Domains, upstream : Upstreams]]
    /\ row \in [Domains -> Rows]
    /\ hash \in [Domains -> Upstreams \union {None}]
    /\ cycle \in Boot \union {"starting", "dead", "asleep", "checking", "ordering", "answering",
                  "polling", "failing", "writing_cert", "writing_key", "mirroring"}
    /\ defaultKey \in {"absent", "torn", "whole"}
    /\ todo \in Seq(Domains)
    /\ hand \in Domains \union {None}
    /\ hand = None <=> cycle \in Boot \union {"starting", "dead", "asleep", "checking"}
    /\ token \in Tokens \union {None}
    /\ visit \in {"none", "valid", "invalid"}
    /\ pending \subseteq Tokens
    /\ issued \in Serials
    /\ disk \in [Domains -> Files]
    /\ contexts \in [Domains -> Serials]
    /\ crashes \in 0 .. MaxCrashes
    /\ saved \in [Domains -> SUBSET Upstreams]
    /\ broken \subseteq Domains /\ lost \subseteq Domains /\ refused \subseteq Tokens

\* A domain the table calls issued has both its files, of one order, and
\* the table has the same pair, although three writes make it and any of
\* them may be the last (cert_store.py:42-54); unless the volume was lost
\* since, from which nothing but a new order recovers.
IssuedIsWhole ==
    \A d \in Domains :
        row[d].status = "issued" /\ d \notin lost =>
            /\ disk[d] = [cert |-> row[d].cert, key |-> DomainKey(row[d].cert)]
            /\ row[d].key = disk[d].key

\* A first order leaves its domain in "issuing", where no cycle looks at it
\* again, only when an error or a crash cut the cycle short
\* (renewal_task.py:37, 49-57).
StuckOnlyIfBroken ==
    \A d \in Domains :
        row[d].status = "issuing" /\ row[d].expires = "never" /\ hand # d => d \in broken

\* The challenge endpoint answers for the order in progress only, but for
\* tokens whose answer the authority refused, which stay until the process
\* ends (acme_client.py:84-86).
TokensWithdrawn ==
    pending \subseteq refused \union
        (IF cycle = "answering" THEN {token} ELSE {})

\* What the HTTPS handler forwards to was saved in PostgreSQL for that domain
\* before, whatever fails between the two stores (domains_api.py:18-24).
RoutedIsSaved ==
    \A d \in Domains : ForwardsTo(d) \subseteq saved[d] \union {None}

\* One error ends a cycle for every domain after it in the list, every day if
\* it comes back every day (renewal_task.py:21-26, 32-43).  But nothing of it
\* stays: once PostgreSQL and the disk raise no more, a domain that waits for
\* a certificate, failed to get one, or has one that expires soon is tried,
\* whatever the authority made of those before it; unless the start-up of
\* port 80 failed, which nobody repeats, or the gateway cannot start at all.
DueIsTried ==
    <>[][~CycleRaises]_vars =>
        \A d \in Domains : Due(row[d]) ~> hand = d \/ cycle \in {"dead", "down"}

=============================================================================
