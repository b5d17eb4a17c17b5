-------------------------- MODULE ConfigSyncProofs --------------------------
(***************************************************************************)
(* How a setting travels, for any number of workers, PUTs, settings and    *)
(* starts of the control plane.  What a worker that missed nothing has     *)
(* still to hear is in its inbox, the last message about a key winning     *)
(* (Pending); and a row of the table is either what was published last, or *)
(* what the one PUT that has saved it and not yet published will publish   *)
(* (Published), unless one of the three mishaps happened.                  *)
(***************************************************************************)
EXTENDS ConfigSync, TLAPS

\* One of the saves S gave k the value v.
Gave(S, k, v) == \E s \in S : s.key = k /\ s.new = v

\* PUTs die with the control plane, and publish when they have saved all.
Alive ==
    \A u \in Updates :
        /\ Active(u) => control = "up"
        /\ pc[u] = "publishing" => left[u] = {}
        /\ pc[u] = "auditing" => key[u] \in DOMAIN body[u]

\* What a PUT has done with, and what is on its way, was saved.
SentIsSaved ==
    /\ \A u \in Updates : \A k \in DOMAIN body[u] \ left[u] : Gave(saves, k, body[u][k])
    /\ \A w \in Workers : \A i \in 1 .. Len(inbox[w]) : \A k \in DOMAIN inbox[w][i] :
          Gave(saves, k, inbox[w][i][k])

\* The last message of q about k is q[i].
LastAbout(q, k, i) ==
    /\ i \in 1 .. Len(q) /\ k \in DOMAIN q[i]
    /\ \A j \in 1 .. Len(q) : i < j => k \notin DOMAIN q[j]

\* c is what k has once all of q is merged into a configuration where it has x.
Amounts(q, k, x, c) ==
    \/ c = x /\ \A i \in 1 .. Len(q) : k \notin DOMAIN q[i]
    \/ \E i \in 1 .. Len(q) : LastAbout(q, k, i) /\ c = q[i][k]

Pending ==
    \A w \in Workers, k \in Settings :
        ~missed[w] => Amounts(inbox[w], k, config[w][k], latest[k])

\* u has saved k and is about to publish it.
Holds(u, k) == Active(u) /\ k \in DOMAIN body[u] \ left[u]

Published ==
    mishaps = {} =>
        \A k \in Settings :
            /\ \A u \in Updates : Holds(u, k) => table[k] = body[u][k]
            /\ \A u, v \in Updates : Holds(u, k) /\ Holds(v, k) => u = v
            /\ (\A u \in Updates : ~Holds(u, k)) /\ latest[k] # FromEnv => latest[k] = table[k]

\* What a PUT read on arrival is still there when it saves, and its audit
\* row is about the save it has just made; or two PUTs of a key overlapped.
Unread ==
    \A u \in Updates :
        /\ \A k \in left[u] : Active(u) => current[u][k] = table[k] \/ "overlap" \in mishaps
        /\ pc[u] = "auditing" =>
              \E s \in saves :
                  /\ s.by = u /\ s.key = key[u] /\ s.new = body[u][key[u]]
                  /\ s.old = current[u][key[u]] \/ "overlap" \in mishaps

Inv ==
    /\ TypeOK /\ Alive /\ SentIsSaved /\ RunsSaved
    /\ Pending /\ Published /\ Unread /\ AuditTruthful

-----------------------------------------------------------------------------
(* Types.                                                                  *)

\* A body is about settings, and holds values.
LEMMA BodyType ==
    ASSUME NEW b \in Bodies \union {<<>>}, NEW k \in DOMAIN b
    PROVE  k \in Settings /\ b[k] \in Values
<1>1. CASE b \in Bodies
  <2>1. PICK S \in SUBSET Settings : b \in [S -> Values]
    BY <1>1, ConfigAssumption
  <2>. QED
    BY <2>1
<1>2. CASE b = <<>>
  <2>1. DOMAIN b = {}
    BY <1>2
  <2>. QED
    BY <2>1
<1>. QED
  BY <1>1, <1>2

\* Merging a body into settings gives settings.
LEMMA MergeType ==
    ASSUME NEW b \in Bodies \union {<<>>}, NEW c \in [Settings -> Values \union {FromEnv}]
    PROVE  Merge(b, c) \in [Settings -> Values \union {FromEnv}]
  BY BodyType DEF Merge

\* An update may be sent; what is sent reaches those subscribed.
LEMMA BroadcastType ==
    ASSUME TypeOK, NEW b \in Bodies \union {<<>>}, Broadcast(b)
    PROVE  /\ inbox' \in [Workers -> Seq(Bodies \union {<<>>})]
           /\ missed' \in [Workers -> BOOLEAN]
           /\ latest' \in [Settings -> Values \union {FromEnv}]
<1>1. latest' \in [Settings -> Values \union {FromEnv}]
  BY MergeType DEF Broadcast, TypeOK
<1>2. \A w \in Workers : inbox[w] \in Seq(Bodies \union {<<>>})
  BY DEF TypeOK
<1>3. \A w \in Workers : Append(inbox[w], b) \in Seq(Bodies \union {<<>>})
  BY <1>2
<1>4. inbox' \in [Workers -> Seq(Bodies \union {<<>>})]
  BY <1>2, <1>3 DEF Broadcast
<1>5. missed' \in [Workers -> BOOLEAN]
  BY DEF Broadcast, TypeOK
<1>. QED
  BY <1>1, <1>4, <1>5

\* Every step keeps the types.
LEMMA TypeStep == TypeOK /\ Alive /\ [Next]_vars => TypeOK'
<1> SUFFICES ASSUME TypeOK, Alive, [Next]_vars PROVE TypeOK'
  OBVIOUS
<1> USE ConfigAssumption DEF TypeOK, Alive, controlVars, storeVars, putVars, workerVars, Note
<1>1. CASE Boot \/ Serve \/ SeedFails \/ Stop
  BY <1>1 DEF Boot, Serve, SeedFails, Stop
<1>2. ASSUME NEW k \in Settings, Seed(k) PROVE TypeOK'
  BY <1>2 DEF Seed
<1>3. ASSUME NEW u \in Updates, NEW b \in Bodies, Put(u, b) PROVE TypeOK'
  BY <1>3, BodyType DEF Put
<1>4. ASSUME NEW u \in Updates, NEW k \in Settings, Save(u, k) PROVE TypeOK'
  BY <1>4, BodyType DEF Save, SaveRow, Rows
<1>5. ASSUME NEW u \in Updates, Audit(u) PROVE TypeOK'
  BY <1>5, BodyType DEF Audit, AuditRow, Rows
<1>6. ASSUME NEW u \in Updates, Publish(u) PROVE TypeOK'
  BY <1>6, BroadcastType DEF Publish
<1>7. ASSUME NEW u \in Updates, PutFails(u) PROVE TypeOK'
  BY <1>7 DEF PutFails
<1>8. ASSUME NEW w \in Workers, Subscribe(w) \/ Disconnect(w) \/ Restart(w) PROVE TypeOK'
  <2>1. inbox' = inbox \/ inbox' = [inbox EXCEPT ![w] = <<>>]
    BY <1>8 DEF Subscribe, Disconnect, Restart
  <2>2. <<>> \in Seq(Bodies \union {<<>>})
    OBVIOUS
  <2>3. inbox' \in [Workers -> Seq(Bodies \union {<<>>})]
    BY <2>1, <2>2
  <2>4. config' \in [Workers -> [Settings -> Values \union {FromEnv}]]
    <3>1. config' = config \/ config' = [config EXCEPT ![w] = AtStart]
      BY <1>8 DEF Subscribe, Disconnect, Restart
    <3>2. AtStart \in [Settings -> Values \union {FromEnv}]
      BY DEF AtStart
    <3>. QED
      BY <3>1, <3>2
  <2>5. missed' \in [Workers -> BOOLEAN]
    BY <1>8 DEF Subscribe, Disconnect, Restart
  <2>. QED
    BY <1>8, <2>3, <2>4, <2>5 DEF Subscribe, Disconnect, Restart
<1>9. ASSUME NEW w \in Workers, Receive(w) PROVE TypeOK'
  <2>1. inbox[w] \in Seq(Bodies \union {<<>>}) /\ inbox[w] # <<>>
    BY <1>9 DEF Receive
  <2>2. /\ Head(inbox[w]) \in Bodies \union {<<>>}
        /\ Tail(inbox[w]) \in Seq(Bodies \union {<<>>})
    BY <2>1
  <2>3. Merge(Head(inbox[w]), config[w]) \in [Settings -> Values \union {FromEnv}]
    BY <2>2, MergeType
  <2>. QED
    BY <1>9, <2>2, <2>3 DEF Receive
<1>10. CASE UNCHANGED vars
  BY <1>10 DEF vars
<1>. QED
  BY <1>1, <1>2, <1>3, <1>4, <1>5, <1>6, <1>7, <1>8, <1>9, <1>10
     DEF Next, UpdateSettings, Subscriber

-----------------------------------------------------------------------------
(* The PUTs.                                                               *)

\* A PUT works only while the control plane is up, and publishes last.
LEMMA AliveStep == Inv /\ [Next]_vars => Alive'
<1> SUFFICES ASSUME Inv, [Next]_vars PROVE Alive'
  OBVIOUS
<1>1. /\ pc \in [Updates -> {"idle", "saving", "auditing", "publishing", "done", "failed", "lost"}]
      /\ left \in [Updates -> SUBSET Settings] /\ key \in [Updates -> Settings \union {Absent}]
      /\ body \in [Updates -> Bodies \union {<<>>}]
      /\ \A u \in Updates : left[u] \subseteq DOMAIN body[u]
      /\ Alive
  BY DEF Inv, TypeOK
<1> USE DEF Alive, Active, putVars, controlVars
<1>2. CASE Boot \/ Serve \/ SeedFails \/ Stop
  BY <1>1, <1>2 DEF Boot, Serve, SeedFails, Stop
<1>3. ASSUME NEW k \in Settings, Seed(k) PROVE Alive'
  BY <1>1, <1>3 DEF Seed
<1>4. ASSUME NEW u \in Updates, NEW b \in Bodies, Put(u, b) PROVE Alive'
  <2>1. b = <<>> => DOMAIN b = {}
    OBVIOUS
  <2>. QED
    BY <1>1, <1>4, <2>1 DEF Put
<1>5. ASSUME NEW u \in Updates, NEW k \in Settings, Save(u, k) PROVE Alive'
  BY <1>1, <1>5 DEF Save, SaveRow
<1>6. ASSUME NEW u \in Updates, Audit(u) \/ Publish(u) \/ PutFails(u) PROVE Alive'
  BY <1>1, <1>6 DEF Audit, Publish, PutFails
<1>7. ASSUME NEW w \in Workers, Subscriber(w) PROVE Alive'
  BY <1>1, <1>7 DEF Subscriber, Subscribe, Receive, Disconnect, Restart
<1>8. CASE UNCHANGED vars
  BY <1>1, <1>8 DEF vars
<1>. QED
  BY <1>2, <1>3, <1>4, <1>5, <1>6, <1>7, <1>8 DEF Next, UpdateSettings

\* What a PUT read on arrival, and what its audit row will say, stays true.
LEMMA UnreadStep == Inv /\ [Next]_vars => Unread'
<1> SUFFICES ASSUME Inv, [Next]_vars PROVE Unread'
  OBVIOUS
<1>1. /\ pc \in [Updates -> {"idle", "saving", "auditing", "publishing", "done", "failed", "lost"}]
      /\ left \in [Updates -> SUBSET Settings] /\ key \in [Updates -> Settings \union {Absent}]
      /\ body \in [Updates -> Bodies \union {<<>>}]
      /\ current \in [Updates -> [Settings -> Values \union {Absent}]]
      /\ table \in [Settings -> Values \union {Absent}]
      /\ \A u \in Updates : left[u] \subseteq DOMAIN body[u]
      /\ Alive /\ Unread
  BY DEF Inv, TypeOK
<1> USE DEF Unread, Active, putVars, controlVars, storeVars, Note
<1>2. CASE Boot \/ Serve \/ SeedFails
  BY <1>1, <1>2 DEF Boot, Serve, SeedFails
<1>3. CASE Stop
  BY <1>1, <1>3 DEF Stop
<1>4. ASSUME NEW k \in Settings, Seed(k) PROVE Unread'
  BY <1>1, <1>4 DEF Seed, Alive
<1>5. ASSUME NEW u \in Updates, NEW b \in Bodies, Put(u, b) PROVE Unread'
  BY <1>1, <1>5 DEF Put
<1>6. ASSUME NEW u \in Updates, NEW k \in Settings, Save(u, k) PROVE Unread'
  <2>1. /\ pc' = [pc EXCEPT ![u] = "auditing"] /\ pc[u] = "saving" /\ k \in left[u]
        /\ table' = [table EXCEPT ![k] = body[u][k]]
        /\ saves' = saves \union {[by |-> u, key |-> k, old |-> table[k], new |-> body[u][k]]}
        /\ left' = [left EXCEPT ![u] = @ \ {k}] /\ key' = [key EXCEPT ![u] = k]
        /\ UNCHANGED <<body, current>>
    BY <1>6 DEF Save, SaveRow
  <2>2. /\ "overlap" \in mishaps => "overlap" \in mishaps'
        /\ \A v \in Updates \ {u} : Active(v) /\ k \in DOMAIN body[v] => "overlap" \in mishaps'
    BY <1>6 DEF Save, SaveRow
  <2>3. ASSUME NEW v \in Updates, NEW l \in left'[v], Active(v)'
        PROVE  current'[v][l] = table'[l] \/ "overlap" \in mishaps'
    BY <1>1, <2>1, <2>2, <2>3
  <2>4. ASSUME NEW v \in Updates, pc'[v] = "auditing", v # u
        PROVE  \E s \in saves' :
                  /\ s.by = v /\ s.key = key'[v] /\ s.new = body'[v][key'[v]]
                  /\ s.old = current'[v][key'[v]] \/ "overlap" \in mishaps'
    BY <1>1, <2>1, <2>2, <2>4
  <2>5. \E s \in saves' :
            /\ s.by = u /\ s.key = key'[u] /\ s.new = body'[u][key'[u]]
            /\ s.old = current'[u][key'[u]] \/ "overlap" \in mishaps'
    <3>1. current[u][k] = table[k] \/ "overlap" \in mishaps
      BY <1>1, <2>1
    <3>2. key'[u] = k /\ body'[u] = body[u] /\ current'[u] = current[u]
      BY <1>1, <2>1
    <3>3. [by |-> u, key |-> k, old |-> table[k], new |-> body[u][k]] \in saves'
      BY <2>1
    <3>. QED
      BY <2>2, <3>1, <3>2, <3>3
  <2>. QED
    BY <2>3, <2>4, <2>5
<1>7. ASSUME NEW u \in Updates, Audit(u) \/ Publish(u) \/ PutFails(u) PROVE Unread'
  <2>1. /\ UNCHANGED <<table, saves, body, current, left, key>>
        /\ "overlap" \in mishaps => "overlap" \in mishaps'
    BY <1>7 DEF Audit, Publish, PutFails
  <2>2. \A v \in Updates : (Active(v)' => Active(v)) /\ (pc'[v] = "auditing" => pc[v] = "auditing")
    BY <1>1, <1>7 DEF Audit, Publish, PutFails
  <2>. QED
    BY <1>1, <2>1, <2>2
<1>8. ASSUME NEW w \in Workers, Subscriber(w) PROVE Unread'
  <2>1. UNCHANGED <<table, saves, mishaps, pc, body, current, left, key>>
    BY <1>8 DEF Subscriber, Subscribe, Receive, Disconnect, Restart
  <2>. QED
    BY <1>1, <2>1
<1>9. CASE UNCHANGED vars
  BY <1>1, <1>9 DEF vars
<1>. QED
  BY <1>2, <1>3, <1>4, <1>5, <1>6, <1>7, <1>8, <1>9 DEF Next, UpdateSettings

\* A row that is logged is about the save its PUT has just made.
LEMMA AuditStep == Inv /\ [Next]_vars => AuditTruthful'
<1> SUFFICES ASSUME Inv, [Next]_vars PROVE AuditTruthful'
  OBVIOUS
<1>1. Unread /\ AuditTruthful
  BY DEF Inv
<1>2. saves \subseteq saves' /\ ("overlap" \in mishaps => "overlap" \in mishaps')
  BY DEF Next, Boot, Serve, SeedFails, Stop, Seed, UpdateSettings, Put, Save, SaveRow, Audit,
     Publish, PutFails, Subscriber, Subscribe, Receive, Disconnect, Restart, Note, storeVars, vars
<1>3. CASE audit' = audit
  BY <1>1, <1>2, <1>3 DEF AuditTruthful
<1>4. ASSUME NEW u \in Updates, Audit(u) PROVE AuditTruthful'
  BY <1>1, <1>2, <1>4 DEF AuditTruthful, Unread, Audit, AuditRow
<1>5. audit' = audit \/ \E u \in Updates : Audit(u)
  BY DEF Next, Boot, Serve, SeedFails, Stop, Seed, UpdateSettings, Put, Save, SaveRow, Publish,
     PutFails, Subscriber, Subscribe, Receive, Disconnect, Restart, storeVars, vars
<1>. QED
  BY <1>3, <1>4, <1>5

-----------------------------------------------------------------------------
(* The table and the publications.                                         *)

\* A mishap is never forgotten.
LEMMA MishapsLast == [Next]_vars => mishaps \subseteq mishaps'
  BY DEF Next, Boot, Serve, SeedFails, Stop, Seed, UpdateSettings, Put, Save, SaveRow, Audit,
     Publish, PutFails, Subscriber, Subscribe, Receive, Disconnect, Restart, Note, storeVars, vars

\* Without a mishap, a row is what was published last, or what the PUT that
\* holds it will publish.
LEMMA PublishedStep == Inv /\ [Next]_vars => Published'
<1> SUFFICES ASSUME Inv, [Next]_vars, mishaps' = {} PROVE Published'
  BY DEF Published
<1>1. /\ pc \in [Updates -> {"idle", "saving", "auditing", "publishing", "done", "failed", "lost"}]
      /\ left \in [Updates -> SUBSET Settings]
      /\ body \in [Updates -> Bodies \union {<<>>}]
      /\ table \in [Settings -> Values \union {Absent}]
      /\ latest \in [Settings -> Values \union {FromEnv}]
      /\ \A u \in Updates : left[u] \subseteq DOMAIN body[u]
      /\ mishaps = {} /\ Alive
  BY MishapsLast DEF Inv, TypeOK
<1>2. \A k \in Settings :
            /\ \A u \in Updates : Holds(u, k) => table[k] = body[u][k]
            /\ \A u, v \in Updates : Holds(u, k) /\ Holds(v, k) => u = v
            /\ (\A u \in Updates : ~Holds(u, k)) /\ latest[k] # FromEnv => latest[k] = table[k]
  BY <1>1 DEF Inv, Published
<1>3. ASSUME table' = table, latest' = latest, body' = body,
             \A u \in Updates, k \in Settings : Holds(u, k)' <=> Holds(u, k)
      PROVE  Published'
  BY <1>2, <1>3 DEF Published
<1>4. CASE Boot \/ Serve \/ SeedFails \/ UNCHANGED vars \/ \E w \in Workers : Subscriber(w)
  <2>1. UNCHANGED <<table, latest, pc, body, left>>
    BY <1>4 DEF Boot, Serve, SeedFails, Subscriber, Subscribe, Receive, Disconnect, Restart,
         storeVars, putVars, workerVars, vars
  <2>. QED
    BY <1>3, <2>1 DEF Holds, Active
<1>5. CASE Stop
  <2>1. UNCHANGED <<table, latest, body, left>> /\ \A u \in Updates : ~Active(u)'
    BY <1>1, <1>5 DEF Stop, putVars, workerVars, Active
  <2>2. \A u \in Updates : Active(u) => left[u] = DOMAIN body[u]
    BY <1>1, <1>5 DEF Stop, Note
  <2>. QED
    BY <1>3, <2>1, <2>2 DEF Holds
<1>6. ASSUME NEW k \in Settings, Seed(k) PROVE Published'
  <2>1. /\ table' = [table EXCEPT ![k] = Default[k]] /\ table[k] \in {Absent, Default[k]}
        /\ UNCHANGED <<pc, body, left, latest>> /\ control = "seeding"
    BY <1>1, <1>6 DEF Seed, Note, putVars, workerVars
  <2>2. \A u \in Updates, l \in Settings : ~Holds(u, l) /\ ~Holds(u, l)'
    BY <1>1, <2>1 DEF Holds, Active, Alive
  <2>3. ASSUME NEW l \in Settings, latest[l] # FromEnv PROVE table'[l] = latest[l]
    BY <1>1, <1>2, <2>1, <2>2, <2>3, ConfigAssumption
  <2>. QED
    BY <2>1, <2>2, <2>3 DEF Published
<1>7. ASSUME NEW u \in Updates, NEW b \in Bodies, Put(u, b) PROVE Published'
  <2>1. /\ pc[u] = "idle" /\ pc' = [pc EXCEPT ![u] = IF b = <<>> THEN "publishing" ELSE "saving"]
        /\ body' = [body EXCEPT ![u] = b] /\ left' = [left EXCEPT ![u] = DOMAIN b]
        /\ UNCHANGED <<table, latest>>
    BY <1>7 DEF Put, storeVars, workerVars
  <2>2. \A v \in Updates, k \in Settings : Holds(v, k)' <=> Holds(v, k)
    BY <1>1, <2>1 DEF Holds, Active
  <2>3. \A v \in Updates, k \in Settings : Holds(v, k) => body'[v] = body[v]
    BY <1>1, <2>1 DEF Holds, Active
  <2>. QED
    BY <1>2, <2>1, <2>2, <2>3 DEF Published
<1>8. ASSUME NEW u \in Updates, NEW k \in Settings, Save(u, k) PROVE Published'
  <2>1. /\ pc[u] = "saving" /\ pc' = [pc EXCEPT ![u] = "auditing"] /\ k \in left[u]
        /\ table' = [table EXCEPT ![k] = body[u][k]] /\ left' = [left EXCEPT ![u] = @ \ {k}]
        /\ UNCHANGED <<body, latest>>
    BY <1>8 DEF Save, SaveRow, workerVars
  <2>2. \A v \in Updates \ {u} : Active(v) => k \notin DOMAIN body[v]
    BY <1>8 DEF Save, SaveRow, Note
  <2>3. \A v \in Updates : Active(v)' <=> Active(v)
    BY <1>1, <2>1 DEF Active
  <2>4. ASSUME NEW v \in Updates, NEW l \in Settings, l # k PROVE Holds(v, l)' <=> Holds(v, l)
    BY <1>1, <2>1, <2>3, <2>4 DEF Holds
  <2>5. Holds(u, k)' /\ \A v \in Updates \ {u} : ~Holds(v, k)'
    BY <1>1, <2>1, <2>2, <2>3 DEF Holds, Active
  <2>6. \A l \in Settings : l # k => table'[l] = table[l]
    BY <1>1, <2>1
  <2>7. table'[k] = body[u][k]
    BY <1>1, <2>1
  <2>. QED
    BY <1>2, <2>1, <2>4, <2>5, <2>6, <2>7 DEF Published
<1>9. ASSUME NEW u \in Updates, Audit(u) PROVE Published'
  <2>1. /\ UNCHANGED <<table, latest, body, left>>
        /\ \A v \in Updates : Active(v)' <=> Active(v)
    BY <1>1, <1>9 DEF Audit, Active, workerVars
  <2>. QED
    BY <1>3, <2>1 DEF Holds
<1>10. ASSUME NEW u \in Updates, PutFails(u) PROVE Published'
  <2>1. UNCHANGED <<table, latest, body, left>> /\ left[u] = DOMAIN body[u]
    BY <1>1, <1>10 DEF PutFails, Note, workerVars
  <2>2. \A v \in Updates \ {u} : Active(v)' <=> Active(v)
    BY <1>1, <1>10 DEF PutFails, Active
  <2>. QED
    BY <1>3, <2>1, <2>2 DEF Holds
<1>11. ASSUME NEW u \in Updates, Publish(u) PROVE Published'
  <2>1. /\ UNCHANGED <<table, body, left>> /\ latest' = Merge(body[u], latest)
        /\ left[u] = {} /\ Active(u) /\ ~Active(u)'
    BY <1>1, <1>11 DEF Publish, Broadcast, Alive, Active, storeVars
  <2>2. \A v \in Updates \ {u} : Active(v)' <=> Active(v)
    BY <1>1, <1>11 DEF Publish, Active
  <2>3. \A v \in Updates \ {u}, k \in Settings : Holds(v, k)' <=> Holds(v, k)
    BY <2>1, <2>2 DEF Holds
  <2>4. \A k \in Settings : ~Holds(u, k)' /\ (Holds(u, k) <=> k \in DOMAIN body[u])
    BY <2>1 DEF Holds
  <2>5. \A k \in Settings : latest'[k] = IF k \in DOMAIN body[u] THEN body[u][k] ELSE latest[k]
    BY <2>1 DEF Merge
  <2>6. ASSUME NEW k \in Settings, \A v \in Updates : ~Holds(v, k)', latest'[k] # FromEnv
        PROVE  latest'[k] = table[k]
    <3>1. CASE k \in DOMAIN body[u]
      BY <1>2, <2>4, <2>5, <3>1
    <3>2. CASE k \notin DOMAIN body[u]
      BY <1>2, <2>3, <2>4, <2>5, <2>6, <3>2
    <3>. QED
      BY <3>1, <3>2
  <2>7. ASSUME NEW k \in Settings
        PROVE  /\ \A v \in Updates : Holds(v, k)' => table[k] = body[v][k]
               /\ \A v, x \in Updates : Holds(v, k)' /\ Holds(x, k)' => v = x
    BY <1>2, <2>3, <2>4
  <2>. QED
    BY <2>1, <2>6, <2>7 DEF Published
<1>. QED
  BY <1>4, <1>5, <1>6, <1>7, <1>8, <1>9, <1>10, <1>11 DEF Next, UpdateSettings

-----------------------------------------------------------------------------
(* The channel.                                                            *)

\* What is appended comes last, and disturbs nothing.
LEMMA AppendAt ==
    ASSUME NEW S, NEW q \in Seq(S), NEW b \in S
    PROVE  /\ Len(Append(q, b)) = Len(q) + 1
           /\ \A i \in 1 .. Len(q) : Append(q, b)[i] = q[i]
           /\ Append(q, b)[Len(q) + 1] = b
  OBVIOUS

\* What is taken comes first, and the rest moves up.
LEMMA TailAt ==
    ASSUME NEW S, NEW q \in Seq(S), q # <<>>
    PROVE  /\ Len(q) \in Nat \ {0} /\ Head(q) = q[1]
           /\ Len(Tail(q)) = Len(q) - 1
           /\ \A i \in 1 .. Len(q) - 1 : Tail(q)[i] = q[i + 1]
  OBVIOUS

\* The steps that leave the channel alone.
LEMMA ChannelSteps ==
    ASSUME [Next]_vars,
           ~(\E u \in Updates : Publish(u)),
           ~(\E w \in Workers : Receive(w) \/ Disconnect(w) \/ Restart(w))
    PROVE  UNCHANGED <<inbox, config, latest, missed>>
  BY DEF Next, Boot, Serve, SeedFails, Stop, Seed, UpdateSettings, Put, Save, Audit, PutFails,
     Subscriber, Subscribe, workerVars, vars

\* What was saved stays saved.
LEMMA SavesLast == [Next]_vars => saves \subseteq saves'
  BY DEF Next, Boot, Serve, SeedFails, Stop, Seed, UpdateSettings, Put, Save, SaveRow, Audit,
     Publish, PutFails, Subscriber, Subscribe, Receive, Disconnect, Restart, storeVars, vars

\* What a PUT has done with was saved.
LEMMA BodySavedStep ==
    ASSUME Inv, [Next]_vars
    PROVE  \A u \in Updates : \A k \in DOMAIN body'[u] \ left'[u] : Gave(saves', k, body'[u][k])
<1>1. /\ left \in [Updates -> SUBSET Settings] /\ body \in [Updates -> Bodies \union {<<>>}]
      /\ \A u \in Updates : \A k \in DOMAIN body[u] \ left[u] : Gave(saves, k, body[u][k])
  BY DEF Inv, TypeOK, SentIsSaved
<1>2. \A k, v : Gave(saves, k, v) => Gave(saves', k, v)
  BY SavesLast DEF Gave
<1> DEFINE Goal ==
              \A u \in Updates : \A k \in DOMAIN body'[u] \ left'[u] : Gave(saves', k, body'[u][k])
<1>3. ASSUME UNCHANGED <<body, left>> PROVE Goal
  BY <1>1, <1>2, <1>3
<1>4. ASSUME NEW u \in Updates, NEW b \in Bodies, Put(u, b) PROVE Goal
  <2>1. body' = [body EXCEPT ![u] = b] /\ left' = [left EXCEPT ![u] = DOMAIN b]
    BY <1>4 DEF Put
  <2>. QED
    BY <1>1, <1>2, <2>1
<1>5. ASSUME NEW u \in Updates, NEW k \in Settings, Save(u, k) PROVE Goal
  <2>1. body' = body /\ left' = [left EXCEPT ![u] = @ \ {k}]
    BY <1>5 DEF Save, SaveRow
  <2>2. Gave(saves', k, body[u][k])
    <3>1. [by |-> u, key |-> k, old |-> table[k], new |-> body[u][k]] \in saves'
      BY <1>5 DEF Save, SaveRow
    <3>. QED
      BY <2>1, <3>1 DEF Gave
  <2>. QED
    BY <1>1, <1>2, <2>1, <2>2
<1>6. \/ UNCHANGED <<body, left>>
      \/ \E u \in Updates, b \in Bodies : Put(u, b)
      \/ \E u \in Updates, k \in Settings : Save(u, k)
  BY DEF Next, Boot, Serve, SeedFails, Stop, Seed, UpdateSettings, Audit, Publish, PutFails,
     Subscriber, Subscribe, Receive, Disconnect, Restart, putVars, vars
<1>. QED
  BY <1>3, <1>4, <1>5, <1>6

\* What is on its way, and what a worker runs, was saved.
LEMMA HeardSavedStep == Inv /\ [Next]_vars => SentIsSaved' /\ RunsSaved'
<1> SUFFICES ASSUME Inv, [Next]_vars PROVE SentIsSaved' /\ RunsSaved'
  OBVIOUS
<1>1. /\ inbox \in [Workers -> Seq(Bodies \union {<<>>})]
      /\ config \in [Workers -> [Settings -> Values \union {FromEnv}]]
      /\ body \in [Updates -> Bodies \union {<<>>}]
  BY DEF Inv, TypeOK
<1>2. \A k, v : Gave(saves, k, v) => Gave(saves', k, v)
  BY SavesLast DEF Gave
<1>3. /\ \A w \in Workers : \A i \in 1 .. Len(inbox[w]) : \A k \in DOMAIN inbox[w][i] :
            Gave(saves, k, inbox[w][i][k])
      /\ \A w \in Workers, k \in Settings : config[w][k] # FromEnv => Gave(saves, k, config[w][k])
  BY DEF Inv, SentIsSaved, RunsSaved, Gave
<1> DEFINE Sent(w) == \A i \in 1 .. Len(inbox'[w]) : \A k \in DOMAIN inbox'[w][i] :
                          Gave(saves', k, inbox'[w][i][k])
           Runs(w) == \A k \in Settings : config'[w][k] # FromEnv => Gave(saves', k, config'[w][k])
<1>4. SUFFICES \A w \in Workers : Sent(w) /\ Runs(w)
  BY BodySavedStep DEF SentIsSaved, RunsSaved, Gave
<1>5. ASSUME NEW w \in Workers, inbox'[w] = inbox[w] PROVE Sent(w)
  BY <1>2, <1>3, <1>5
<1>6. ASSUME NEW w \in Workers, config'[w] = config[w] PROVE Runs(w)
  BY <1>2, <1>3, <1>6
<1> HIDE DEF Sent, Runs
<1>7. ASSUME NEW u \in Updates, Publish(u), NEW w \in Workers PROVE Sent(w) /\ Runs(w)
  <2>1. config' = config
    BY <1>7 DEF Publish
  <2>2. \A k \in DOMAIN body[u] : Gave(saves, k, body[u][k])
    BY <1>7 DEF Publish, Inv, Alive, SentIsSaved
  <2>3. inbox'[w] = inbox[w] \/ inbox'[w] = Append(inbox[w], body[u])
    BY <1>1, <1>7 DEF Publish, Broadcast
  <2>4. CASE inbox'[w] = Append(inbox[w], body[u])
    <3>1. /\ Len(inbox'[w]) = Len(inbox[w]) + 1 /\ Len(inbox[w]) \in Nat
          /\ \A i \in 1 .. Len(inbox[w]) : inbox'[w][i] = inbox[w][i]
          /\ inbox'[w][Len(inbox[w]) + 1] = body[u]
      BY <1>1, <2>4, AppendAt
    <3>. QED
      BY <1>2, <1>3, <1>6, <2>1, <2>2, <3>1 DEF Sent
  <2>. QED
    BY <1>5, <1>6, <2>1, <2>3, <2>4
<1>8. ASSUME NEW v \in Workers, Receive(v), NEW w \in Workers PROVE Sent(w) /\ Runs(w)
  <2>1. CASE w # v
    <3>1. inbox'[w] = inbox[w] /\ config'[w] = config[w]
      BY <1>1, <1>8, <2>1 DEF Receive
    <3>. QED
      BY <1>5, <1>6, <3>1
  <2>2. CASE w = v
    <3>1. /\ inbox[w] # <<>> /\ inbox'[w] = Tail(inbox[w])
          /\ config'[w] = Merge(Head(inbox[w]), config[w])
      BY <1>1, <1>8, <2>2 DEF Receive
    <3>2. /\ Len(inbox[w]) \in Nat \ {0} /\ Head(inbox[w]) = inbox[w][1]
          /\ Len(inbox'[w]) = Len(inbox[w]) - 1
          /\ \A i \in 1 .. Len(inbox[w]) - 1 : inbox'[w][i] = inbox[w][i + 1]
      BY <1>1, <3>1, TailAt
    <3>3. Sent(w)
      BY <1>2, <1>3, <3>2 DEF Sent
    <3>4. Runs(w)
      BY <1>2, <1>3, <3>1, <3>2 DEF Runs, Merge
    <3>. QED
      BY <3>3, <3>4
  <2>. QED
    BY <2>1, <2>2
<1>9. ASSUME NEW v \in Workers, Disconnect(v) \/ Restart(v), NEW w \in Workers
      PROVE  Sent(w) /\ Runs(w)
  <2>1. inbox'[w] = inbox[w] \/ Len(inbox'[w]) = 0
    BY <1>1, <1>9 DEF Disconnect, Restart
  <2>2. config'[w] = config[w] \/ config'[w] = AtStart
    BY <1>1, <1>9 DEF Disconnect, Restart
  <2>3. Sent(w)
    BY <1>5, <2>1 DEF Sent
  <2>4. Runs(w)
    BY <1>6, <2>2 DEF Runs, AtStart
  <2>. QED
    BY <2>3, <2>4
<1>10. CASE UNCHANGED <<inbox, config>>
  BY <1>5, <1>6, <1>10
<1>. QED
  BY <1>7, <1>8, <1>9, <1>10, ChannelSteps

\* A message that is appended decides about its keys, and about no other.
LEMMA AmountsAppended ==
    ASSUME NEW S, NEW q \in Seq(S), NEW b \in S, NEW k, NEW x, NEW c, NEW d,
           Amounts(q, k, x, c),
           d = IF k \in DOMAIN b THEN b[k] ELSE c
    PROVE  Amounts(Append(q, b), k, x, d)
<1> DEFINE p == Append(q, b)
<1>1. /\ Len(p) = Len(q) + 1 /\ Len(q) \in Nat /\ p[Len(q) + 1] = b
      /\ \A i \in 1 .. Len(q) : p[i] = q[i]
  BY AppendAt
<1> HIDE DEF p
<1>2. CASE k \in DOMAIN b
  <2>1. Len(p) \in 1 .. Len(p) /\ p[Len(p)] = b
    BY <1>1
  <2>2. LastAbout(p, k, Len(p))
    BY <1>2, <2>1 DEF LastAbout
  <2>. QED
    BY <1>2, <2>1, <2>2 DEF Amounts, p
<1>3. CASE k \notin DOMAIN b
  <2>1. CASE c = x /\ \A i \in 1 .. Len(q) : k \notin DOMAIN q[i]
    <3>1. \A i \in 1 .. Len(p) : k \notin DOMAIN p[i]
      BY <1>1, <1>3, <2>1
    <3>. QED
      BY <1>3, <2>1, <3>1 DEF Amounts, p
  <2>2. ASSUME NEW i \in 1 .. Len(q), LastAbout(q, k, i), c = q[i][k]
        PROVE  Amounts(Append(q, b), k, x, d)
    <3>1. i \in 1 .. Len(p) /\ LastAbout(p, k, i) /\ d = p[i][k]
      BY <1>1, <1>3, <2>2 DEF LastAbout
    <3>. QED
      BY <3>1 DEF Amounts, p
  <2>. QED
    BY <2>1, <2>2 DEF Amounts
<1>. QED
  BY <1>2, <1>3

\* Merging the first message leaves what all of them amount to.
LEMMA AmountsTaken ==
    ASSUME NEW S, NEW q \in Seq(S), q # <<>>, NEW k, NEW x, NEW c, Amounts(q, k, x, c),
           NEW y, y = IF k \in DOMAIN Head(q) THEN Head(q)[k] ELSE x
    PROVE  Amounts(Tail(q), k, y, c)
<1> DEFINE p == Tail(q)
<1>1. /\ Len(q) \in Nat \ {0} /\ Len(p) = Len(q) - 1 /\ Head(q) = q[1]
      /\ \A i \in 1 .. Len(q) - 1 : p[i] = q[i + 1]
  BY TailAt
<1> HIDE DEF p
<1>2. CASE c = x /\ \A i \in 1 .. Len(q) : k \notin DOMAIN q[i]
  <2>1. y = x /\ \A i \in 1 .. Len(p) : k \notin DOMAIN p[i]
    BY <1>1, <1>2
  <2>. QED
    BY <1>2, <2>1 DEF Amounts, p
<1>3. ASSUME NEW i \in 1 .. Len(q), LastAbout(q, k, i), c = q[i][k]
      PROVE  Amounts(Tail(q), k, y, c)
  <2>1. CASE i = 1
    <3>1. y = c
      BY <1>1, <1>3, <2>1 DEF LastAbout
    <3>2. \A j \in 1 .. Len(p) : k \notin DOMAIN p[j]
      BY <1>1, <1>3, <2>1 DEF LastAbout
    <3>. QED
      BY <3>1, <3>2 DEF Amounts, p
  <2>2. CASE i # 1
    <3>1. i - 1 \in 1 .. Len(p) /\ p[i - 1] = q[i]
      BY <1>1, <2>2
    <3>2. \A j \in 1 .. Len(p) : i - 1 < j => k \notin DOMAIN p[j]
      BY <1>1, <1>3 DEF LastAbout
    <3>3. LastAbout(p, k, i - 1) /\ c = p[i - 1][k]
      BY <1>3, <3>1, <3>2 DEF LastAbout
    <3>. QED
      BY <3>1, <3>3 DEF Amounts, p
  <2>. QED
    BY <2>1, <2>2
<1>. QED
  BY <1>2, <1>3 DEF Amounts

\* What a worker that missed nothing runs, and has still to hear, amounts to
\* the latest configuration.
LEMMA PendingStep == Inv /\ [Next]_vars => Pending'
<1> SUFFICES ASSUME Inv, [Next]_vars PROVE Pending'
  OBVIOUS
<1>1. /\ inbox \in [Workers -> Seq(Bodies \union {<<>>})]
      /\ config \in [Workers -> [Settings -> Values \union {FromEnv}]]
      /\ latest \in [Settings -> Values \union {FromEnv}]
      /\ missed \in [Workers -> BOOLEAN]
      /\ body \in [Updates -> Bodies \union {<<>>}]
      /\ Pending
  BY DEF Inv, TypeOK
<1> DEFINE Goal(w, k) == ~missed'[w] => Amounts(inbox'[w], k, config'[w][k], latest'[k])
<1>2. SUFFICES ASSUME NEW w \in Workers, NEW k \in Settings PROVE Goal(w, k)
  BY DEF Pending
<1>3. ~missed[w] => Amounts(inbox[w], k, config[w][k], latest[k])
  BY <1>1 DEF Pending
<1>4. CASE UNCHANGED <<inbox, config, latest, missed>>
  BY <1>3, <1>4
<1>5. ASSUME NEW u \in Updates, Publish(u) PROVE Goal(w, k)
  <2>1. SUFFICES ASSUME ~missed'[w] PROVE Amounts(inbox'[w], k, config'[w][k], latest'[k])
    OBVIOUS
  <2>2. /\ ~missed[w] /\ link[w] = "subscribed" /\ config' = config
        /\ inbox'[w] = Append(inbox[w], body[u])
        /\ latest'[k] = IF k \in DOMAIN body[u] THEN body[u][k] ELSE latest[k]
    BY <1>1, <1>5, <2>1 DEF Publish, Broadcast, Merge
  <2>3. inbox[w] \in Seq(Bodies \union {<<>>}) /\ body[u] \in Bodies \union {<<>>}
    BY <1>1
  <2>4. Amounts(Append(inbox[w], body[u]), k, config[w][k], latest'[k])
    BY <1>3, <2>2, <2>3, AmountsAppended
  <2>. QED
    BY <2>2, <2>4
<1>6. ASSUME NEW v \in Workers, Receive(v) PROVE Goal(w, k)
  <2>1. CASE w # v
    BY <1>1, <1>3, <1>6, <2>1 DEF Receive
  <2>2. CASE w = v /\ ~missed[w]
    <3>1. /\ inbox[w] \in Seq(Bodies \union {<<>>}) /\ inbox[w] # <<>>
          /\ inbox'[w] = Tail(inbox[w]) /\ latest' = latest
          /\ config'[w][k] = IF k \in DOMAIN Head(inbox[w]) THEN Head(inbox[w])[k]
                                                            ELSE config[w][k]
      BY <1>1, <1>6, <2>2 DEF Receive, Merge
    <3>2. Amounts(Tail(inbox[w]), k, config'[w][k], latest[k])
      BY <1>3, <2>2, <3>1, AmountsTaken
    <3>. QED
      BY <3>1, <3>2
  <2>3. CASE w = v /\ missed[w]
    BY <1>6, <2>3 DEF Receive
  <2>. QED
    BY <1>1, <2>1, <2>2, <2>3
<1>7. ASSUME NEW v \in Workers, Disconnect(v) PROVE Goal(w, k)
  <2>1. CASE w # v
    BY <1>1, <1>3, <1>7, <2>1 DEF Disconnect
  <2>2. CASE w = v
    BY <1>1, <1>3, <1>7, <2>2 DEF Disconnect
  <2>. QED
    BY <2>1, <2>2
<1>8. ASSUME NEW v \in Workers, Restart(v) PROVE Goal(w, k)
  <2>1. CASE w # v
    BY <1>1, <1>3, <1>8, <2>1 DEF Restart
  <2>2. CASE w = v
    <3>1. latest' = latest /\ inbox'[w] = <<>> /\ config'[w] = AtStart
      BY <1>1, <1>8, <2>2 DEF Restart
    <3>2. ~missed'[w] => latest = AtStart
      BY <1>1, <1>8, <2>2 DEF Restart
    <3>3. ~missed'[w] => Amounts(<<>>, k, AtStart[k], latest[k])
      BY <3>2 DEF Amounts
    <3>. QED
      BY <3>1, <3>3
  <2>. QED
    BY <2>1, <2>2
<1>. QED
  BY <1>4, <1>5, <1>6, <1>7, <1>8, ChannelSteps

-----------------------------------------------------------------------------
\* Inv is an invariant of the configuration.
THEOREM Invariance == Spec => []Inv
<1>1. Init => Inv
  <2> SUFFICES ASSUME Init PROVE Inv
    OBVIOUS
  <2> USE ConfigAssumption DEF Init
  <2>1. DOMAIN <<>> = {} /\ Len(<<>>) = 0 /\ <<>> \in Seq(Bodies \union {<<>>})
    OBVIOUS
  <2>2. TypeOK
    BY <2>1 DEF TypeOK, AtStart
  <2>3. Alive /\ Unread /\ AuditTruthful
    BY DEF Alive, Unread, AuditTruthful, Active
  <2>4. SentIsSaved /\ RunsSaved
    BY <2>1 DEF SentIsSaved, RunsSaved, AtStart
  <2>5. Pending
    BY <2>1 DEF Pending, Amounts
  <2>6. Published
    BY DEF Published, Holds, Active, AtStart
  <2>. QED
    BY <2>2, <2>3, <2>4, <2>5, <2>6 DEF Inv
<1>2. Inv /\ [Next]_vars => Inv'
  BY TypeStep, AliveStep, HeardSavedStep, PendingStep, PublishedStep, UnreadStep, AuditStep
     DEF Inv
<1>. QED
  BY <1>1, <1>2, PTL DEF Spec

\* Type correctness of the configuration.
THEOREM TypeCorrect == Spec => []TypeOK
<1>1. Inv => TypeOK
  BY DEF Inv
<1>. QED
  BY <1>1, Invariance, PTL

\* A worker runs nothing that PostgreSQL never held, for any number of PUTs
\* that fail, die or overlap (settings_api.py).
THEOREM WorkersRunSaved == Spec => []RunsSaved
<1>1. Inv => RunsSaved
  BY DEF Inv
<1>. QED
  BY <1>1, Invariance, PTL

\* A worker with nothing more to hear, that missed nothing, runs the latest
\* configuration.
LEMMA HeardAll == Inv => HeardIsLatest
<1> SUFFICES ASSUME Inv, NEW w \in Workers, ~missed[w], inbox[w] = <<>>
             PROVE  config[w] = latest
  BY DEF HeardIsLatest
<1>1. /\ config[w] \in [Settings -> Values \union {FromEnv}]
      /\ latest \in [Settings -> Values \union {FromEnv}]
  BY DEF Inv, TypeOK
<1>2. Len(inbox[w]) = 0
  OBVIOUS
<1>3. \A k \in Settings : latest[k] = config[w][k]
  BY <1>2 DEF Inv, Pending, Amounts
<1>. QED
  BY <1>1, <1>3

\* Partial updates are merged, in the order of the channel
\* (config_subscriber.py).
THEOREM HearingIsEnough == Spec => []HeardIsLatest
  BY HeardAll, Invariance, PTL

\* Such a worker agrees with the table about every settled key, but for the
\* three mishaps (04_configuration.py:48).
THEOREM SavedAndBroadcast == Spec => []AgreesWithTable
<1>1. Inv => AgreesWithTable
  <2> SUFFICES ASSUME Inv, NEW w \in Workers, NEW k \in Settings,
                      ~missed[w], inbox[w] = <<>>, mishaps = {}, Settled(k),
                      config[w][k] # FromEnv
               PROVE  config[w][k] = table[k]
    BY DEF AgreesWithTable
  <2>1. config[w] = latest
    BY HeardAll DEF HeardIsLatest
  <2>2. \A u \in Updates : ~Holds(u, k)
    BY DEF Settled, Holds
  <2>. QED
    BY <2>1, <2>2 DEF Inv, Published
<1>. QED
  BY <1>1, Invariance, PTL

\* The audit log records saves that happened, with the value each replaced
\* unless two PUTs of the key overlapped (settings_api.py).
THEOREM AuditIsTruthful == Spec => []AuditTruthful
<1>1. Inv => AuditTruthful
  BY DEF Inv
<1>. QED
  BY <1>1, Invariance, PTL

-----------------------------------------------------------------------------
(* The libraries of control_plane/requirements.txt.                        *)

\* The control plane has not served a request, and no setting is saved.
NotStarted ==
    /\ control = "seeding" => unseeded # {}
    /\ control # "up" /\ \A u \in Updates : pc[u] = "idle"
    /\ table = [k \in Settings |-> Absent] /\ saves = {}

\* Where Table.insert() has no on_conflict_do_update, the control plane ends
\* in startup() however often it is started (control_plane/main.py:37,
\* setup.py:17): it serves no PUT, and no setting gets into the table.
THEOREM NeverStarts ==
    ASSUME ~Upserts, Settings # {} PROVE Spec => []NotStarted
<1>1. Init => NotStarted
  BY DEF Init, NotStarted
<1>2. TypeOK /\ NotStarted /\ [Next]_vars => NotStarted'
  <2> SUFFICES ASSUME TypeOK, NotStarted, [Next]_vars PROVE NotStarted'
    OBVIOUS
  <2>1. pc \in [Updates -> {"idle", "saving", "auditing", "publishing", "done", "failed", "lost"}]
    BY DEF TypeOK
  <2> USE DEF NotStarted, controlVars, storeVars, putVars
  <2>2. CASE Boot \/ Serve \/ SeedFails
    BY <2>2 DEF Boot, Serve, SeedFails
  <2>3. CASE Stop
    BY <2>1, <2>3 DEF Stop, Active
  <2>4. ASSUME NEW k \in Settings, Seed(k) PROVE FALSE
    BY <2>4 DEF Seed
  <2>5. ASSUME NEW u \in Updates, UpdateSettings(u) PROVE FALSE
    BY <2>5 DEF UpdateSettings, Put, Save, Audit, Publish, PutFails
  <2>6. ASSUME NEW w \in Workers, Subscriber(w) PROVE NotStarted'
    BY <2>6 DEF Subscriber, Subscribe, Receive, Disconnect, Restart
  <2>7. CASE UNCHANGED vars
    BY <2>7 DEF vars
  <2>. QED
    BY <2>2, <2>3, <2>4, <2>5, <2>6, <2>7 DEF Next
<1>. QED
  BY <1>1, <1>2, TypeCorrect, PTL DEF Spec

=============================================================================
