--------------------------- MODULE RegistryProofs ---------------------------
(***************************************************************************)
(* Proofs about Registry, for any requests, URLs, documents and jobs.      *)
(***************************************************************************)
EXTENDS Registry, FiniteSetTheorems, WellFoundedInduction, TLAPS

\* Job j has a document.
HasDocument(j) == jobStatus[j] \in {"uncommitted", "live", "FAILED"} => jobDoc[j] \in Rows

\* A client that has found or made a document, or is to delete one, knows it.
CurKnown(c) == tx[c].stage \in {"latest", "insert", "mark"} => tx[c].cur \in Rows

KeysOK ==
    /\ \A j \in Jobs : HasDocument(j)
    /\ \A c \in Clients : CurKnown(c)
    /\ \A c \in Clients : \A j \in tx[c].added : jobStatus[j] = "uncommitted"
    /\ \A c, d \in Clients : c # d => tx[c].added \cap tx[d].added = {}

-----------------------------------------------------------------------------
(***************************************************************************)
(* Types.                                                                  *)
(***************************************************************************)

\* Documents are counted by a number.
LEMMA CountIsNat == ASSUME NEW rows PROVE Cardinality(Active(rows)) \in Nat
<1>1. Active(rows) \subseteq Rows
  BY DEF Active
<1> QED
  BY <1>1, RegistryAssumption, FS_Subset, FS_CardinalityType

\* What a transaction sees is a table.
LEMMA ViewType ==
    ASSUME TypeOK, NEW c \in Clients
    PROVE  View(c) \in [Rows -> RowStates] /\ DocsetView(c) \in DocsetRows
  BY RegistryAssumption DEF TypeOK, View, DocsetView

\* A session without a transaction has added nothing.
LEMMA NoTransactionType == NoTransaction \in Transactions /\ NoTransaction.added = {} /\ NoTransaction.stage = "idle"
  BY DEF NoTransaction, Transactions, Stages

\* The initial states have the types.
LEMMA InitType == Init => TypeOK /\ KeysOK
<1> SUFFICES ASSUME Init PROVE TypeOK /\ KeysOK
  OBVIOUS
<1>1. PICK gone \in Earlier \cup {0} :
         /\ row = [r \in Rows |-> IF r = gone THEN "deleted" ELSE "absent"]
         /\ docset \in IF gone = 0 THEN {NoDocset, EmptyDocset} ELSE {PrunedDocset}
         /\ jobDoc = [j \in Jobs |-> IF j = 0 THEN gone ELSE 0]
         /\ jobStatus = [j \in Jobs |-> IF j # 0 THEN "none" ELSE IF gone = 0 THEN "void" ELSE "live"]
         /\ wrote = [c \in Clients |-> [r \in Rows |-> None]]
         /\ wroteDocset = [c \in Clients |-> None]
         /\ tx = [c \in Clients |-> NoTransaction]
         /\ reopened = {gone} \ {0}
  BY DEF Init
<1>2. gone \in Rows \cup {0} /\ 0 \in Jobs
  BY RegistryAssumption DEF Jobs
<1>3. docset \in DocsetRows
  BY <1>1 DEF NoDocset, EmptyDocset, PrunedDocset, DocsetRows
<1>4. row \in [Rows -> RowStates] /\ jobStatus \in [Jobs -> JobStatuses] /\ jobDoc \in [Jobs -> Rows \cup {0}]
  BY <1>1, <1>2 DEF RowStates, JobStatuses
<1>5. tx \in [Clients -> Transactions] /\ \A c \in Clients : tx[c] = NoTransaction
  BY <1>1, NoTransactionType
<1>6. wrote \in [Clients -> [Rows -> RowStates \cup {None}]] /\ wroteDocset \in [Clients -> DocsetRows \cup {None}]
  BY <1>1
<1>7. TypeOK
  BY <1>1, <1>2, <1>3, <1>4, <1>5, <1>6 DEF TypeOK
<1>8. \A j \in Jobs : HasDocument(j)
  BY <1>1, <1>2 DEF HasDocument
<1>9. \A c \in Clients : CurKnown(c) /\ tx[c].added = {}
  BY <1>5, NoTransactionType DEF CurKnown
<1> QED
  BY <1>7, <1>8, <1>9 DEF KeysOK

\* A statement that touches no job.
LEMMA QuietStep ==
    ASSUME TypeOK, KeysOK, NEW c \in Clients, NEW t \in Transactions, Goes(c, t), NoJob,
           t.added = tx[c].added, t.stage \in {"latest", "insert", "mark"} => t.cur \in Rows
    PROVE  tx' \in [Clients -> Transactions] /\ KeysOK'
<1>1. tx' = [tx EXCEPT ![c] = t] /\ jobDoc' = jobDoc /\ jobStatus' = jobStatus
  BY DEF Goes, NoJob
<1>2. tx' \in [Clients -> Transactions]
  BY <1>1 DEF TypeOK
<1>3. \A d \in Clients : tx'[d] = IF d = c THEN t ELSE tx[d]
  BY <1>1 DEF TypeOK
<1>4. \A j \in Jobs : HasDocument(j)'
  BY <1>1 DEF KeysOK, HasDocument
<1>5. \A d \in Clients : CurKnown(d)'
  BY <1>3 DEF KeysOK, CurKnown
<1>6. \A d \in Clients : \A j \in tx'[d].added : jobStatus'[j] = "uncommitted"
  BY <1>1, <1>3 DEF KeysOK
<1>7. \A d, e \in Clients : d # e => tx'[d].added \cap tx'[e].added = {}
  BY <1>3 DEF KeysOK
<1> QED
  BY <1>2, <1>4, <1>5, <1>6, <1>7 DEF KeysOK

\* The step that adds a job for document r.
LEMMA AcceptStep ==
    ASSUME TypeOK, KeysOK, NEW c \in Clients, NEW t \in Transactions, NEW r \in Rows,
           Accept(c, r, t), t.added = tx[c].added, t.stage = "item"
    PROVE  /\ tx' \in [Clients -> Transactions] /\ KeysOK'
           /\ jobDoc' \in [Jobs -> Rows \cup {0}] /\ jobStatus' \in [Jobs -> JobStatuses]
<1>1. PICK j \in NewJob :
         /\ jobDoc' = [jobDoc EXCEPT ![j] = r]
         /\ jobStatus' = [jobStatus EXCEPT ![j] = "uncommitted"]
         /\ Goes(c, [t EXCEPT !.added = @ \cup {j}])
  BY DEF Accept
<1> DEFINE s == [t EXCEPT !.added = @ \cup {j}]
<1>2. j \in Jobs /\ jobStatus[j] = "none"
  BY DEF NewJob
<1>3. s \in Transactions /\ s.added = tx[c].added \cup {j} /\ s.stage = "item"
  BY <1>2 DEF Transactions
<1>4. tx' = [tx EXCEPT ![c] = s]
  BY <1>1 DEF Goes
<1> HIDE DEF s
<1>5. tx' \in [Clients -> Transactions]
  BY <1>3, <1>4 DEF TypeOK
<1>6. jobDoc' \in [Jobs -> Rows \cup {0}] /\ jobStatus' \in [Jobs -> JobStatuses]
  BY <1>1, <1>2 DEF TypeOK, JobStatuses
<1>7. \A d \in Clients : tx'[d] = IF d = c THEN s ELSE tx[d]
  BY <1>4 DEF TypeOK
<1>8. \A i \in Jobs : /\ jobDoc'[i] = IF i = j THEN r ELSE jobDoc[i]
                      /\ jobStatus'[i] = IF i = j THEN "uncommitted" ELSE jobStatus[i]
  BY <1>1, <1>2 DEF TypeOK
<1>9. \A i \in Jobs : HasDocument(i)'
  BY <1>8 DEF KeysOK, HasDocument
<1>10. \A d \in Clients : CurKnown(d)'
  BY <1>3, <1>7 DEF KeysOK, CurKnown
<1>11. \A d \in Clients : tx[d].added \subseteq Jobs
  BY DEF TypeOK, Transactions
<1>12. \A d \in Clients : tx'[d].added = tx[d].added \cup (IF d = c THEN {j} ELSE {})
  BY <1>3, <1>7
<1>13. \A d \in Clients : j \notin tx[d].added
  BY <1>2, <1>11 DEF KeysOK
<1>14. \A d \in Clients : \A i \in tx'[d].added : jobStatus'[i] = "uncommitted"
  BY <1>2, <1>8, <1>11, <1>12 DEF KeysOK
<1>15. \A d, e \in Clients : d # e => tx'[d].added \cap tx'[e].added = {}
  BY <1>12, <1>13 DEF KeysOK
<1> QED
  BY <1>5, <1>6, <1>9, <1>10, <1>14, <1>15 DEF KeysOK

\* The end of a transaction: its jobs are committed or gone.
LEMMA EndStep ==
    ASSUME TypeOK, KeysOK, NEW c \in Clients, Goes(c, NoTransaction), Unlocks(c),
           NEW jd, NEW js, jd \in [Jobs -> Rows \cup {0}], js \in [Jobs -> JobStatuses],
           jobDoc' = jd, jobStatus' = js,
           \A j \in Jobs \ tx[c].added : jd[j] = jobDoc[j] /\ js[j] = jobStatus[j],
           \A j \in tx[c].added : js[j] = "void" \/ (js[j] = "live" /\ jd[j] = jobDoc[j])
    PROVE  /\ tx' \in [Clients -> Transactions] /\ KeysOK'
           /\ wrote' \in [Clients -> [Rows -> RowStates \cup {None}]]
           /\ wroteDocset' \in [Clients -> DocsetRows \cup {None}]
<1>1. tx' = [tx EXCEPT ![c] = NoTransaction]
  BY DEF Goes
<1>2. tx' \in [Clients -> Transactions]
  BY <1>1, NoTransactionType DEF TypeOK
<1>3. /\ wrote' \in [Clients -> [Rows -> RowStates \cup {None}]]
      /\ wroteDocset' \in [Clients -> DocsetRows \cup {None}]
  BY DEF Unlocks, TypeOK
<1>4. \A d \in Clients : tx'[d] = IF d = c THEN NoTransaction ELSE tx[d]
  BY <1>1 DEF TypeOK
<1>5. \A d \in Clients : tx[d].added \subseteq Jobs
  BY DEF TypeOK, Transactions
<1>6. \A j \in Jobs : HasDocument(j)'
  BY <1>5 DEF KeysOK, HasDocument
<1>7. \A d \in Clients : CurKnown(d)'
  BY <1>4, NoTransactionType DEF KeysOK, CurKnown
<1>8. \A d \in Clients : \A j \in tx'[d].added : jobStatus'[j] = "uncommitted"
  BY <1>4, <1>5, NoTransactionType DEF KeysOK
<1>9. \A d, e \in Clients : d # e => tx'[d].added \cap tx'[e].added = {}
  BY <1>4, NoTransactionType DEF KeysOK
<1> QED
  BY <1>2, <1>3, <1>6, <1>7, <1>8, <1>9 DEF KeysOK

\* A flush of a document, or of the docset.
LEMMA FlushType ==
    ASSUME TypeOK, NEW c \in Clients
    PROVE  /\ \A r \in Rows, s \in RowStates : FlushesRow(c, r, s) =>
                 wrote' \in [Clients -> [Rows -> RowStates \cup {None}]]
           /\ \A ds \in DocsetRows : FlushesDocset(c, ds) =>
                 wroteDocset' \in [Clients -> DocsetRows \cup {None}]
<1>1. ASSUME NEW r \in Rows, NEW s \in RowStates, FlushesRow(c, r, s)
      PROVE  wrote' \in [Clients -> [Rows -> RowStates \cup {None}]]
  <2>1. wrote' = [wrote EXCEPT ![c] = [wrote[c] EXCEPT ![r] = s]]
    BY <1>1 DEF FlushesRow
  <2>2. [wrote[c] EXCEPT ![r] = s] \in [Rows -> RowStates \cup {None}]
    BY DEF TypeOK
  <2> QED
    BY <2>1, <2>2 DEF TypeOK
<1>2. ASSUME NEW ds \in DocsetRows, FlushesDocset(c, ds)
      PROVE  wroteDocset' \in [Clients -> DocsetRows \cup {None}]
  BY <1>2 DEF TypeOK, FlushesDocset
<1> QED
  BY <1>1, <1>2

\* The types of the fields of a transaction.
LEMMA TxType ==
    ASSUME TypeOK, NEW c \in Clients
    PROVE  /\ tx[c] \in Transactions
           /\ tx[c].cur \in Rows \cup {0} /\ tx[c].dirty \subseteq Rows
           /\ tx[c].added \subseteq Jobs /\ tx[c].todo \subseteq Urls
           /\ tx[c].loaded \in Nat /\ tx[c].counted \in Nat
  BY DEF TypeOK, Transactions

\* Next of a client that inspects its next item.
LEMMA NextItemType ==
    ASSUME TypeOK, NEW c \in Clients
    PROVE  /\ NextItem(c) \in Transactions
           /\ NextItem(c).added = tx[c].added /\ NextItem(c).stage = "item"
           /\ NextItem(c).dirty = tx[c].dirty
  BY TxType DEF NextItem, Transactions, Stages

\* Requests begin with nothing in the session.
LEMMA BeginsType ==
    ASSUME TypeOK, KeysOK, NEW c \in Clients, NEW t \in Transactions, Begins(c, t),
           t.added = {}, t.stage \in {"latest", "insert", "mark"} => t.cur \in Rows
    PROVE  TypeOK' /\ KeysOK'
<1> DEFINE other == \A e \in Clients \ {c} : tx[e].stage = "idle"
           begun == [t EXCEPT !.alone = other]
           joined(d) == [tx[d] EXCEPT !.alone = FALSE, !.late = {}]
<1>1. /\ begun \in Transactions /\ begun.added = {}
      /\ begun.stage = t.stage /\ begun.cur = t.cur
  <2>1. other \in BOOLEAN
    OBVIOUS
  <2> HIDE DEF other
  <2> QED
    BY <2>1 DEF Transactions
<1>2. \A d \in Clients : /\ joined(d) \in Transactions /\ joined(d).added = tx[d].added
                         /\ joined(d).stage = tx[d].stage /\ joined(d).cur = tx[d].cur
  BY DEF TypeOK, Transactions
<1>3. tx' = [d \in Clients |-> IF d = c THEN begun ELSE joined(d)] /\ Reads
  BY DEF Begins
<1> HIDE DEF other, begun, joined
<1>4. tx' \in [Clients -> Transactions]
  BY <1>1, <1>2, <1>3
<1>5. TypeOK'
  BY <1>3, <1>4 DEF Reads, TypeOK
<1>6. \A j \in Jobs : HasDocument(j)'
  BY <1>3 DEF Reads, KeysOK, HasDocument
<1>7. \A d \in Clients : CurKnown(d)'
  BY <1>1, <1>2, <1>3 DEF KeysOK, CurKnown
<1>8. \A d \in Clients : \A j \in tx'[d].added : jobStatus'[j] = "uncommitted"
  BY <1>1, <1>2, <1>3 DEF Reads, KeysOK
<1>9. \A d, e \in Clients : d # e => tx'[d].added \cap tx'[e].added = {}
  BY <1>1, <1>2, <1>3 DEF KeysOK
<1> QED
  BY <1>5, <1>6, <1>7, <1>8, <1>9 DEF KeysOK

\* Every statement, and every end of a transaction, keeps the types.
LEMMA StepType == TypeOK /\ KeysOK /\ [Next]_vars => TypeOK' /\ KeysOK'
<1> SUFFICES ASSUME TypeOK, KeysOK, [Next]_vars PROVE TypeOK' /\ KeysOK'
  OBVIOUS
<1>1. ASSUME NEW c \in Clients, Request(c) PROVE TypeOK' /\ KeysOK'
  <2>1. ASSUME NEW S \in SUBSET Urls, SubmitBatch(c, S) PROVE TypeOK' /\ KeysOK'
    <3> DEFINE t == [NoTransaction EXCEPT !.stage = "docset", !.todo = S]
    <3>1. t \in Transactions /\ t.added = {} /\ t.stage = "docset"
      BY DEF NoTransaction, Transactions, Stages
    <3> HIDE DEF t
    <3>2. Begins(c, t)
      BY <2>1 DEF SubmitBatch, t
    <3> QED
      BY <3>1, <3>2, BeginsType
  <2>2. ASSUME NEW r \in Rows, DeleteDocument(c, r) PROVE TypeOK' /\ KeysOK'
    <3> DEFINE t == [NoTransaction EXCEPT !.stage = "mark", !.cur = r]
    <3>1. t \in Transactions /\ t.added = {} /\ t.cur \in Rows
      BY DEF NoTransaction, Transactions, Stages
    <3> HIDE DEF t
    <3>2. Begins(c, t)
      BY <2>2 DEF DeleteDocument, t
    <3> QED
      BY <3>1, <3>2, BeginsType
  <2>3. ASSUME DeleteDocset(c) PROVE TypeOK' /\ KeysOK'
    <3> DEFINE t == [NoTransaction EXCEPT !.stage = "members", !.loaded = docset.count]
    <3>1. t \in Transactions /\ t.added = {} /\ t.stage = "members"
      <4>1. docset.count \in Nat
        BY DEF TypeOK, DocsetRows
      <4> QED
        BY <4>1 DEF NoTransaction, Transactions, Stages
    <3> HIDE DEF t
    <3>2. Begins(c, t)
      BY <2>3 DEF DeleteDocset, t
    <3> QED
      BY <3>1, <3>2, BeginsType
  <2> QED
    BY <1>1, <2>1, <2>2, <2>3 DEF Request
<1>2. ASSUME NEW c \in Clients, Statement(c) \/ Abort(c) PROVE TypeOK' /\ KeysOK'
  <2> DEFINE TablesOK == row' \in [Rows -> RowStates] /\ docset' \in DocsetRows /\ reopened' \in SUBSET Rows
  <2>1. ASSUME NotCommitted PROVE TablesOK
    BY <2>1 DEF NotCommitted, TypeOK
  <2>2. ASSUME NoJob PROVE jobDoc' \in [Jobs -> Rows \cup {0}] /\ jobStatus' \in [Jobs -> JobStatuses]
    BY <2>2 DEF NoJob, TypeOK
  <2>3. ASSUME UNCHANGED wrote PROVE wrote' \in [Clients -> [Rows -> RowStates \cup {None}]]
    BY <2>3 DEF TypeOK
  <2>4. ASSUME UNCHANGED wroteDocset PROVE wroteDocset' \in [Clients -> DocsetRows \cup {None}]
    BY <2>4 DEF TypeOK
  <2> HIDE DEF TablesOK
  \* A statement that only reads.
  <2>5. ASSUME NEW t \in Transactions, Goes(c, t), Reads, t.added = tx[c].added,
               t.stage \in {"latest", "insert", "mark"} => t.cur \in Rows
        PROVE  TypeOK' /\ KeysOK'
    <3>1. tx' \in [Clients -> Transactions] /\ KeysOK'
      BY <2>5, QuietStep DEF Reads, NoJob
    <3> QED
      BY <2>5, <3>1 DEF TypeOK, Reads
  \* A statement that flushes the docset.
  <2>6. ASSUME NEW ds \in DocsetRows, NEW t \in Transactions, FlushesDocset(c, ds), Goes(c, t),
               NotCommitted, NoJob, UNCHANGED wrote, t.added = tx[c].added,
               t.stage \notin {"latest", "insert", "mark"}
        PROVE  TypeOK' /\ KeysOK'
    <3>1. tx' \in [Clients -> Transactions] /\ KeysOK'
      BY <2>6, QuietStep
    <3>2. wroteDocset' \in [Clients -> DocsetRows \cup {None}]
      BY <2>6, FlushType
    <3> QED
      BY <2>1, <2>2, <2>3, <2>6, <3>1, <3>2 DEF TypeOK, TablesOK
  \* A statement that flushes a document.
  <2>7. ASSUME NEW r \in Rows, NEW s \in RowStates, NEW t \in Transactions, FlushesRow(c, r, s), Goes(c, t),
               NotCommitted, NoJob, UNCHANGED wroteDocset, t.added = tx[c].added,
               t.stage \in {"latest", "insert", "mark"} => t.cur \in Rows
        PROVE  TypeOK' /\ KeysOK'
    <3>1. tx' \in [Clients -> Transactions] /\ KeysOK'
      BY <2>7, QuietStep
    <3>2. wrote' \in [Clients -> [Rows -> RowStates \cup {None}]]
      BY <2>7, FlushType
    <3> QED
      BY <2>1, <2>2, <2>4, <2>7, <3>1, <3>2 DEF TypeOK, TablesOK
  <2>8. CASE Rollback(c)
    <3> DEFINE js == [j \in Jobs |-> IF j \in tx[c].added THEN "void" ELSE jobStatus[j]]
               jd == [j \in Jobs |-> IF j \in tx[c].added THEN 0 ELSE jobDoc[j]]
    <3>1. jobStatus' = js /\ jobDoc' = jd
      BY <2>8 DEF Rollback
    <3>2. jd \in [Jobs -> Rows \cup {0}] /\ js \in [Jobs -> JobStatuses]
      BY DEF TypeOK, JobStatuses
    <3>3. /\ \A j \in Jobs \ tx[c].added : jd[j] = jobDoc[j] /\ js[j] = jobStatus[j]
          /\ \A j \in tx[c].added : js[j] = "void"
      BY TxType
    <3> HIDE DEF js, jd
    <3>4. /\ tx' \in [Clients -> Transactions] /\ KeysOK'
          /\ wrote' \in [Clients -> [Rows -> RowStates \cup {None}]]
          /\ wroteDocset' \in [Clients -> DocsetRows \cup {None}]
      BY <2>8, <3>1, <3>2, <3>3, EndStep DEF Rollback
    <3> QED
      BY <2>1, <2>8, <3>1, <3>2, <3>4 DEF TypeOK, TablesOK, Rollback
  <2>9. CASE Commit(c)
    <3> DEFINE js == [j \in Jobs |-> IF j \in tx[c].added THEN "live" ELSE jobStatus[j]]
    <3>1. jobStatus' = js /\ jobDoc' = jobDoc
      BY <2>9 DEF Commit
    <3>2. js \in [Jobs -> JobStatuses] /\ jobDoc \in [Jobs -> Rows \cup {0}]
      BY DEF TypeOK, JobStatuses
    <3>3. /\ \A j \in Jobs \ tx[c].added : js[j] = jobStatus[j]
          /\ \A j \in tx[c].added : js[j] = "live"
      BY TxType
    <3> HIDE DEF js
    <3>4. /\ tx' \in [Clients -> Transactions] /\ KeysOK'
          /\ wrote' \in [Clients -> [Rows -> RowStates \cup {None}]]
          /\ wroteDocset' \in [Clients -> DocsetRows \cup {None}]
      BY <2>9, <3>1, <3>2, <3>3, EndStep DEF Commit
    <3>5. row' \in [Rows -> RowStates] /\ docset' \in DocsetRows
      BY <2>9, ViewType DEF Commit
    <3>6. reopened' \in SUBSET Rows
      BY <2>9 DEF Commit, TypeOK
    <3> QED
      BY <3>1, <3>2, <3>4, <3>5, <3>6 DEF TypeOK
  <2>10. CASE ReadDocset(c)
    <3> DEFINE g == IF docset.state = "absent" THEN "create"
                    ELSE IF docset.state = "pruned" THEN "revive"
                    ELSE "item"
               t == [tx[c] EXCEPT !.loaded = docset.count, !.stage = g]
    <3>1. g \in {"create", "revive", "item"} /\ docset.count \in Nat
      BY DEF TypeOK, DocsetRows
    <3> HIDE DEF g
    <3>2. t \in Transactions /\ t.added = tx[c].added /\ t.stage = g
      BY <3>1, TxType DEF Transactions, Stages
    <3>3. Goes(c, t) /\ Reads
      BY <2>10 DEF ReadDocset, g
    <3> HIDE DEF t
    <3> QED
      BY <2>5, <3>1, <3>2, <3>3
  <2>11. CASE CreateDocset(c) \/ ReviveDocset(c)
    <3> DEFINE t == [tx[c] EXCEPT !.stage = "item"]
    <3>1. t \in Transactions /\ t.added = tx[c].added /\ t.stage = "item"
      BY TxType DEF Transactions, Stages
    <3>2. EmptyDocset \in DocsetRows /\ [docset EXCEPT !.state = "active"] \in DocsetRows
      BY DEF EmptyDocset, DocsetRows, TypeOK
    <3> HIDE DEF t
    <3> QED
      BY <2>6, <2>11, <3>1, <3>2 DEF CreateDocset, ReviveDocset, t
  <2>12. CASE InspectActive(c)
    <3>1. PICK u \in tx[c].todo :
             \/ Goes(c, [tx[c] EXCEPT !.stage = "lookup", !.url = u])
             \/ \E r \in Rows : Goes(c, [tx[c] EXCEPT !.stage = "latest", !.url = u, !.cur = r])
      BY <2>12 DEF InspectActive, Active
    <3> DEFINE l == [tx[c] EXCEPT !.stage = "lookup", !.url = u]
               f(r) == [tx[c] EXCEPT !.stage = "latest", !.url = u, !.cur = r]
    <3>2. l \in Transactions /\ l.added = tx[c].added /\ l.stage = "lookup"
      BY TxType DEF Transactions, Stages
    <3>3. \A r \in Rows : f(r) \in Transactions /\ f(r).added = tx[c].added /\ f(r).cur = r
      BY TxType DEF Transactions, Stages
    <3>4. Reads
      BY <2>12 DEF InspectActive
    <3>5. Goes(c, l) \/ \E r \in Rows : Goes(c, f(r))
      BY <3>1
    <3> HIDE DEF l, f
    <3> QED
      BY <2>5, <3>2, <3>3, <3>4, <3>5
  <2>13. CASE InspectJob(c)
    <3>1. /\ tx[c].cur \in Rows
          /\ NotCommitted /\ UNCHANGED <<wrote, wroteDocset>>
          /\ \/ Accept(c, tx[c].cur, NextItem(c))
             \/ Goes(c, NextItem(c)) /\ NoJob
      BY <2>13 DEF InspectJob, KeysOK, CurKnown
    <3>2. CASE Accept(c, tx[c].cur, NextItem(c))
      <4>1. /\ tx' \in [Clients -> Transactions] /\ KeysOK'
            /\ jobDoc' \in [Jobs -> Rows \cup {0}] /\ jobStatus' \in [Jobs -> JobStatuses]
        BY <3>1, <3>2, AcceptStep, NextItemType
      <4> QED
        BY <2>1, <2>3, <2>4, <3>1, <4>1 DEF TypeOK, TablesOK
    <3>3. CASE Goes(c, NextItem(c)) /\ NoJob
      BY <2>5, <3>1, <3>3, NextItemType DEF Reads, NotCommitted, NoJob
    <3> QED
      BY <3>1, <3>2, <3>3
  <2>14. CASE InspectDeleted(c)
    <3>1. NotCommitted /\ UNCHANGED <<wrote, wroteDocset>>
      BY <2>14 DEF InspectDeleted
    <3> DEFINE a(r) == [NextItem(c) EXCEPT !.dirty = @ \cup {r}]
               i(r) == [tx[c] EXCEPT !.stage = "insert", !.cur = r]
    <3>2. \A r \in Rows : /\ a(r) \in Transactions /\ a(r).added = tx[c].added /\ a(r).stage = "item"
                          /\ i(r) \in Transactions /\ i(r).added = tx[c].added /\ i(r).cur = r
      <4>1. \A r \in Rows : i(r) \in Transactions /\ i(r).added = tx[c].added /\ i(r).cur = r
        BY TxType DEF Transactions, Stages
      <4>2. ASSUME NEW n \in Transactions, NEW r \in Rows
            PROVE  /\ [n EXCEPT !.dirty = @ \cup {r}] \in Transactions
                   /\ [n EXCEPT !.dirty = @ \cup {r}].added = n.added
                   /\ [n EXCEPT !.dirty = @ \cup {r}].stage = n.stage
        BY DEF Transactions
      <4>3. \A r \in Rows : a(r) \in Transactions /\ a(r).added = tx[c].added /\ a(r).stage = "item"
        BY <4>2, NextItemType
      <4> QED
        BY <4>1, <4>3
    <3>3. \E r \in Rows : Accept(c, r, a(r)) \/ (Goes(c, i(r)) /\ NoJob)
      BY <2>14 DEF InspectDeleted, FreeKeys
    <3> HIDE DEF a, i
    <3>4. PICK r \in Rows : Accept(c, r, a(r)) \/ (Goes(c, i(r)) /\ NoJob)
      BY <3>3
    <3>5. CASE Accept(c, r, a(r))
      <4>1. /\ tx' \in [Clients -> Transactions] /\ KeysOK'
            /\ jobDoc' \in [Jobs -> Rows \cup {0}] /\ jobStatus' \in [Jobs -> JobStatuses]
        BY <3>2, <3>5, AcceptStep
      <4> QED
        BY <2>1, <2>3, <2>4, <3>1, <4>1 DEF TypeOK, TablesOK
    <3>6. CASE Goes(c, i(r)) /\ NoJob
      BY <2>5, <3>1, <3>2, <3>6 DEF Reads, NotCommitted, NoJob
    <3> QED
      BY <3>4, <3>5, <3>6
  <2>15. CASE FlushDocument(c)
    <3>1. PICK r \in NextWrite(c) :
             /\ FlushesRow(c, r, IF Activates(c) THEN "active" ELSE "deleted")
             /\ Goes(c, [tx[c] EXCEPT !.dirty = @ \ {r}])
      BY <2>15 DEF FlushDocument
    <3> DEFINE t == [tx[c] EXCEPT !.dirty = @ \ {r}]
    <3>2. /\ t \in Transactions /\ t.added = tx[c].added
          /\ t.stage = tx[c].stage /\ t.cur = tx[c].cur
      BY TxType DEF Transactions
    <3>3. r \in Rows
      BY <2>15, TxType DEF NextWrite, FlushDocument
    <3>4. (IF Activates(c) THEN "active" ELSE "deleted") \in RowStates
      BY DEF RowStates
    <3>5. NotCommitted /\ NoJob /\ UNCHANGED wroteDocset
      BY <2>15 DEF FlushDocument
    <3>6. t.stage \in {"latest", "insert", "mark"} => t.cur \in Rows
      BY <3>2 DEF KeysOK, CurKnown
    <3>7. Goes(c, t)
      BY <3>1
    <3> HIDE DEF t
    <3> QED
      BY <2>7, <3>1, <3>2, <3>3, <3>4, <3>5, <3>6, <3>7
  <2>16. CASE InsertDocument(c)
    <3>1. /\ tx[c].cur \in Rows /\ FlushesRow(c, tx[c].cur, "active")
          /\ Accept(c, tx[c].cur, NextItem(c)) /\ NotCommitted /\ UNCHANGED wroteDocset
      BY <2>16 DEF InsertDocument, KeysOK, CurKnown
    <3>2. /\ tx' \in [Clients -> Transactions] /\ KeysOK'
          /\ jobDoc' \in [Jobs -> Rows \cup {0}] /\ jobStatus' \in [Jobs -> JobStatuses]
      BY <3>1, AcceptStep, NextItemType
    <3>3. wrote' \in [Clients -> [Rows -> RowStates \cup {None}]]
      BY <3>1, FlushType DEF RowStates
    <3> QED
      BY <2>1, <2>4, <3>1, <3>2, <3>3 DEF TypeOK, TablesOK
  <2>17. CASE CountActive(c)
    <3> DEFINE n == Cardinality(Active(View(c)))
               l == IF tx[c].alone THEN tx[c].dirty ELSE {}
               t == [tx[c] EXCEPT !.counted = n, !.late = l, !.stage = "totals"]
    <3>1. n \in Nat /\ l \subseteq Rows
      BY CountIsNat, TxType
    <3> HIDE DEF n, l
    <3>2. t \in Transactions /\ t.added = tx[c].added /\ t.stage = "totals"
      BY <3>1, TxType DEF Transactions, Stages
    <3>3. Goes(c, t) /\ Reads
      BY <2>17 DEF CountActive, n, l
    <3> HIDE DEF t
    <3> QED
      BY <2>5, <3>2, <3>3
  <2>18. CASE WriteTotals(c)
    <3> DEFINE t == [tx[c] EXCEPT !.stage = "rows", !.counted = 0, !.loaded = 0]
               ds == [DocsetView(c) EXCEPT !.count = NewCount(c, DocsetView(c))]
    <3>1. t \in Transactions /\ t.added = tx[c].added /\ t.stage = "rows"
      BY TxType DEF Transactions, Stages
    <3>2. ds \in DocsetRows
      BY TxType, ViewType DEF NewCount, DocsetRows
    <3>3. Goes(c, t) /\ FlushesDocset(c, ds) /\ NotCommitted /\ NoJob /\ UNCHANGED wrote
      BY <2>18 DEF WriteTotals
    <3> HIDE DEF t, ds
    <3> QED
      BY <2>6, <3>1, <3>2, <3>3
  <2>19. CASE MarkDeleted(c)
    <3> DEFINE t == [tx[c] EXCEPT !.stage = "find"]
    <3>1. t \in Transactions /\ t.added = tx[c].added /\ t.stage = "find"
      BY TxType DEF Transactions, Stages
    <3>2. tx[c].cur \in Rows /\ "deleted" \in RowStates
      BY <2>19 DEF MarkDeleted, KeysOK, CurKnown, RowStates
    <3> HIDE DEF t
    <3> QED
      BY <2>7, <2>19, <3>1, <3>2 DEF MarkDeleted, t
  <2>20. CASE FindDocset(c)
    <3> DEFINE t == [tx[c] EXCEPT !.loaded = docset.count, !.stage = "count"]
    <3>1. docset.count \in Nat
      BY DEF TypeOK, DocsetRows
    <3>2. t \in Transactions /\ t.added = tx[c].added /\ t.stage = "count"
      BY <3>1, TxType DEF Transactions, Stages
    <3> HIDE DEF t
    <3> QED
      BY <2>5, <2>20, <3>2 DEF FindDocset, t
  <2>21. CASE CountRemaining(c)
    <3> DEFINE n == Cardinality(Active(View(c)))
               t == [tx[c] EXCEPT !.counted = n, !.stage = "prune"]
    <3>1. n \in Nat
      BY CountIsNat
    <3> HIDE DEF n
    <3>2. t \in Transactions /\ t.added = tx[c].added /\ t.stage = "prune"
      BY <3>1, TxType DEF Transactions, Stages
    <3>3. Goes(c, t) /\ Reads
      BY <2>21 DEF CountRemaining, n
    <3> HIDE DEF t
    <3> QED
      BY <2>5, <3>2, <3>3
  <2>22. CASE Prune(c)
    <3> DEFINE t == [tx[c] EXCEPT !.stage = "markAll", !.cur = 0, !.counted = 0, !.loaded = 0]
               ds == [state |-> IF tx[c].counted = 0 THEN "pruned" ELSE docset.state,
                      count |-> NewCount(c, docset)]
    <3>1. t \in Transactions /\ t.added = tx[c].added /\ t.stage = "markAll"
      BY TxType DEF Transactions, Stages
    <3>2. ds \in DocsetRows
      BY TxType DEF NewCount, DocsetRows, TypeOK
    <3>3. Goes(c, t) /\ FlushesDocset(c, ds) /\ NotCommitted /\ NoJob /\ UNCHANGED wrote
      BY <2>22 DEF Prune
    <3> HIDE DEF t, ds
    <3> QED
      BY <2>6, <3>1, <3>2, <3>3
  <2>23. CASE SelectMembers(c)
    <3> DEFINE t == [tx[c] EXCEPT !.dirty = Active(row), !.stage = "discard"]
    <3>1. t \in Transactions /\ t.added = tx[c].added /\ t.stage = "discard"
      BY TxType DEF Transactions, Stages, Active
    <3> HIDE DEF t
    <3> QED
      BY <2>5, <2>23, <3>1 DEF SelectMembers, t
  <2>24. CASE DiscardDocset(c)
    <3> DEFINE t == [tx[c] EXCEPT !.stage = "markAll", !.loaded = 0]
    <3>1. t \in Transactions /\ t.added = tx[c].added /\ t.stage = "markAll"
      BY TxType DEF Transactions, Stages
    <3>2. PrunedDocset \in DocsetRows
      BY DEF PrunedDocset, DocsetRows
    <3> HIDE DEF t
    <3> QED
      BY <2>6, <2>24, <3>1, <3>2 DEF DiscardDocset, t
  <2> QED
    BY <1>2, <2>8, <2>9, <2>10, <2>11, <2>12, <2>13, <2>14, <2>15, <2>16, <2>17, <2>18, <2>19,
       <2>20, <2>21, <2>22, <2>23, <2>24
       DEF Statement, Abort, Refused, DeadlockVictim, GiveUp
<1>3. ASSUME NEW j \in Jobs, NEW s \in {"live", "FAILED"}, Work(j, s) PROVE TypeOK' /\ KeysOK'
  <2>1. /\ jobStatus' = [jobStatus EXCEPT ![j] = s] /\ jobStatus[j] \in {"live", "FAILED"}
        /\ UNCHANGED <<row, docset, jobDoc, wrote, wroteDocset, tx>>
    BY <1>3 DEF Work
  <2>2. jobDoc[j] \in Rows
    BY <2>1 DEF KeysOK, HasDocument
  <2>3. reopened' \in SUBSET Rows
    BY <1>3, <2>2 DEF Work, TypeOK
  <2>4. TypeOK'
    BY <2>1, <2>3 DEF TypeOK, JobStatuses
  <2>5. \A i \in Jobs : jobStatus'[i] = IF i = j THEN s ELSE jobStatus[i]
    BY <2>1 DEF TypeOK
  <2>6. \A c \in Clients : j \notin tx[c].added
    BY <2>1 DEF KeysOK
  <2>7. \A c \in Clients : tx[c].added \subseteq Jobs
    BY TxType
  <2> QED
    BY <2>1, <2>2, <2>4, <2>5, <2>6, <2>7 DEF KeysOK, HasDocument, CurKnown
<1>4. CASE UNCHANGED vars
  BY <1>4 DEF vars, TypeOK, KeysOK, HasDocument, CurKnown
<1> QED
  BY <1>1, <1>2, <1>3, <1>4 DEF Next

(* The tables and sessions keep their types, for any number of requests,    *)
(* URLs, documents and jobs.                                                *)
THEOREM RegistryTypeCorrect == Spec => []TypeOK
<1>1. Init => TypeOK /\ KeysOK
  BY InitType
<1>2. TypeOK /\ KeysOK /\ [Next]_vars => (TypeOK /\ KeysOK)'
  BY StepType
<1> QED
  BY <1>1, <1>2, PTL DEF Spec

-----------------------------------------------------------------------------
(***************************************************************************)
(* One active document per URL.                                            *)
(***************************************************************************)

\* A document is written by one transaction at a time.
OneWriter ==
    \A c, d \in Clients, r \in Rows : wrote[c][r] # None /\ wrote[d][r] # None => c = d

\* No transaction sees two active documents of a URL.
ViewUnique ==
    \A c \in Clients, r, s \in Rows :
       View(c)[r] = "active" /\ View(c)[s] = "active" /\ UrlOf[r] = UrlOf[s] => r = s

\* Two transactions do not enter one URL into the index.
KeysExclusive ==
    \A c, d \in Clients, r, s \in Rows :
       c # d /\ wrote[c][r] = "active" /\ wrote[d][s] = "active" => UrlOf[r] # UrlOf[s]

Unique == OneActivePerUrl /\ OneWriter /\ ViewUnique /\ KeysExclusive

\* The flush of document r by c: it has waited for its lock, and for its URL if it makes
\* the document active.
Flushes(c, r, s) ==
    /\ FlushesRow(c, r, s)
    /\ \A d \in Clients \ {c} : wrote[d][r] = None
    /\ s = "active" => /\ ~KeyTaken(c, r)
                       /\ \A d \in Clients \ {c} : \A q \in SameUrl(r) : wrote[d][q] = None

\* What a step does to the documents.
LEMMA Effects ==
    TypeOK /\ KeysOK /\ [Next]_vars =>
       \/ UNCHANGED <<row, wrote>>
       \/ \E c \in Clients, r \in Rows, s \in {"active", "deleted"} : Flushes(c, r, s) /\ row' = row
       \/ \E c \in Clients : Unlocks(c) /\ row' \in {row, View(c)}
<1> DEFINE Done == \/ UNCHANGED <<row, wrote>>
                   \/ \E c \in Clients, r \in Rows, s \in {"active", "deleted"} : Flushes(c, r, s) /\ row' = row
                   \/ \E c \in Clients : Unlocks(c) /\ row' \in {row, View(c)}
<1> SUFFICES ASSUME TypeOK, KeysOK, [Next]_vars PROVE Done
  OBVIOUS
<1>1. ASSUME NEW c \in Clients, Request(c) PROVE Done
  BY <1>1 DEF Request, SubmitBatch, DeleteDocument, DeleteDocset, Begins, Reads
<1>2. ASSUME NEW c \in Clients, Statement(c) \/ Abort(c) PROVE Done
  <2>1. CASE Rollback(c) \/ Commit(c)
    BY <2>1 DEF Rollback, Commit, NotCommitted
  <2>2. ASSUME NEW r \in NextWrite(c), Free(c)
        PROVE  /\ \A d \in Clients \ {c} : wrote[d][r] = None
               /\ Activates(c) => \A d \in Clients \ {c} : \A q \in SameUrl(r) : wrote[d][q] = None
    BY <2>2 DEF Free, WaitsFor
  <2>3. CASE FlushDocument(c)
    <3>1. PICK r \in NextWrite(c) :
             /\ Activates(c) => ~KeyTaken(c, r)
             /\ FlushesRow(c, r, IF Activates(c) THEN "active" ELSE "deleted")
      BY <2>3 DEF FlushDocument
    <3>2. Free(c) /\ row' = row /\ r \in Rows
      BY <2>3, TxType DEF FlushDocument, NextWrite, NotCommitted
    <3>3. Flushes(c, r, IF Activates(c) THEN "active" ELSE "deleted")
      BY <2>2, <3>1, <3>2 DEF Flushes
    <3> QED
      BY <3>2, <3>3
  <2>4. CASE InsertDocument(c)
    <3>1. tx[c].cur \in Rows /\ tx[c].cur \in NextWrite(c) /\ Activates(c)
      BY <2>4 DEF InsertDocument, NextWrite, Activates, KeysOK, CurKnown
    <3>2. Free(c) /\ row' = row /\ ~KeyTaken(c, tx[c].cur) /\ FlushesRow(c, tx[c].cur, "active")
      BY <2>4 DEF InsertDocument, NotCommitted
    <3>3. Flushes(c, tx[c].cur, "active")
      BY <2>2, <3>1, <3>2 DEF Flushes
    <3> QED
      BY <3>1, <3>2, <3>3
  <2>5. CASE MarkDeleted(c)
    <3>1. tx[c].cur \in Rows /\ tx[c].cur \in NextWrite(c)
      BY <2>5 DEF MarkDeleted, NextWrite, KeysOK, CurKnown
    <3>2. Free(c) /\ row' = row /\ FlushesRow(c, tx[c].cur, "deleted")
      BY <2>5 DEF MarkDeleted, NotCommitted
    <3>3. Flushes(c, tx[c].cur, "deleted")
      BY <2>2, <3>1, <3>2 DEF Flushes
    <3> QED
      BY <3>1, <3>2, <3>3
  <2>6. CASE ReadDocset(c) \/ CreateDocset(c) \/ ReviveDocset(c) \/ InspectActive(c) \/ InspectJob(c)
    BY <2>6 DEF ReadDocset, CreateDocset, ReviveDocset, InspectActive, InspectJob, Reads, NotCommitted
  <2>7. CASE InspectDeleted(c) \/ CountActive(c) \/ WriteTotals(c) \/ FindDocset(c)
    BY <2>7 DEF InspectDeleted, CountActive, WriteTotals, FindDocset, Reads, NotCommitted
  <2>8. CASE CountRemaining(c) \/ Prune(c) \/ SelectMembers(c) \/ DiscardDocset(c)
    BY <2>8 DEF CountRemaining, Prune, SelectMembers, DiscardDocset, Reads, NotCommitted
  <2> QED
    BY <1>2, <2>1, <2>3, <2>4, <2>5, <2>6, <2>7, <2>8
       DEF Statement, Abort, Refused, DeadlockVictim, GiveUp
<1>3. ASSUME NEW j \in Jobs, NEW s \in {"live", "FAILED"}, Work(j, s) PROVE Done
  BY <1>3 DEF Work
<1> QED
  BY <1>1, <1>2, <1>3 DEF Next, vars

\* A flush keeps the documents unique.
LEMMA FlushUnique ==
    ASSUME TypeOK, Unique, NEW c \in Clients, NEW r \in Rows, NEW s \in {"active", "deleted"},
           Flushes(c, r, s), row' = row
    PROVE  Unique'
<1>1. \A d \in Clients, q \in Rows : wrote'[d][q] = IF d = c /\ q = r THEN s ELSE wrote[d][q]
  BY DEF Flushes, FlushesRow, TypeOK
<1>2. \A d \in Clients, q \in Rows : View(d)'[q] = IF d = c /\ q = r THEN s ELSE View(d)[q]
  BY <1>1, RegistryAssumption DEF View
<1>3. OneActivePerUrl'
  BY DEF Unique, OneActivePerUrl
<1>4. OneWriter'
  BY <1>1 DEF Flushes, Unique, OneWriter
<1>5. ViewUnique'
  BY <1>2 DEF Flushes, KeyTaken, SameUrl, Unique, ViewUnique
<1>6. KeysExclusive'
  BY <1>1, RegistryAssumption DEF Flushes, SameUrl, Unique, KeysExclusive
<1> QED
  BY <1>3, <1>4, <1>5, <1>6 DEF Unique

\* So does the end of a transaction, whether it commits or not.
LEMMA EndUnique ==
    ASSUME TypeOK, Unique, NEW c \in Clients, Unlocks(c), row' \in {row, View(c)}
    PROVE  Unique'
<1>1. \A d \in Clients, q \in Rows : wrote'[d][q] = IF d = c THEN None ELSE wrote[d][q]
  BY DEF Unlocks, TypeOK
<1>2. \A q \in Rows : row'[q] = row[q] \/ (row'[q] = wrote[c][q] /\ wrote[c][q] # None)
  BY DEF View
<1>3. OneActivePerUrl'
  BY DEF Unique, OneActivePerUrl, ViewUnique
<1>4. OneWriter' /\ KeysExclusive'
  <2>1. None # "active"
    BY RegistryAssumption
  <2>2. OneWriter'
    BY <1>1 DEF Unique, OneWriter
  <2>3. KeysExclusive'
    BY <1>1, <2>1 DEF Unique, KeysExclusive
  <2> QED
    BY <2>2, <2>3
<1>5. ASSUME NEW d \in Clients, NEW q \in Rows, NEW s \in Rows, UrlOf[q] = UrlOf[s],
             View(d)'[q] = "active", View(d)'[s] = "active"
      PROVE  q = s
  <2>1. \A p \in Rows : View(d)'[p] = IF wrote'[d][p] = None THEN row'[p] ELSE wrote'[d][p]
    BY DEF View
  <2>2. CASE d = c
    BY <1>1, <1>3, <1>5, <2>1, <2>2 DEF OneActivePerUrl
  <2>3. CASE d # c
    <3>1. \A p \in Rows : View(d)'[p] = "active" =>
             \/ View(d)[p] = "active"
             \/ wrote[d][p] = None /\ wrote[c][p] = "active"
      BY <1>1, <1>2, <2>1, <2>3 DEF View
    <3>2. \A p \in Rows : View(d)'[p] = "active" => row'[p] = "active" \/ wrote[d][p] = "active"
      BY <1>1, <2>1, <2>3
    <3>3. \A p \in Rows : wrote[d][p] = "active" => View(d)[p] = "active"
      BY RegistryAssumption DEF View
    <3>4. CASE View(d)[q] = "active" /\ View(d)[s] = "active"
      BY <1>5, <3>4 DEF Unique, ViewUnique
    <3>5. CASE row'[q] = "active" /\ row'[s] = "active"
      BY <1>3, <1>5, <3>5 DEF OneActivePerUrl
    <3> QED
      BY <1>5, <2>3, <3>1, <3>2, <3>3, <3>4, <3>5 DEF Unique, KeysExclusive
  <2> QED
    BY <2>2, <2>3
<1>6. ViewUnique'
  BY <1>5 DEF ViewUnique
<1> QED
  BY <1>3, <1>4, <1>6 DEF Unique

\* Every step keeps URLs unique in what transactions see.
LEMMA StepUnique == TypeOK /\ KeysOK /\ Unique /\ [Next]_vars => Unique'
<1> SUFFICES ASSUME TypeOK, KeysOK, Unique, [Next]_vars PROVE Unique'
  OBVIOUS
<1>1. CASE UNCHANGED <<row, wrote>>
  BY <1>1 DEF Unique, OneActivePerUrl, OneWriter, ViewUnique, KeysExclusive, View
<1> QED
  BY <1>1, Effects, FlushUnique, EndUnique

\* They are unique in the beginning.
LEMMA InitUnique == Init => Unique
<1> SUFFICES ASSUME Init PROVE Unique
  OBVIOUS
<1>1. \A r \in Rows : row[r] # "active"
  BY DEF Init
<1>2. \A c \in Clients, r \in Rows : wrote[c][r] = None
  BY DEF Init
<1> QED
  BY <1>1, <1>2, RegistryAssumption DEF Unique, OneActivePerUrl, OneWriter, ViewUnique, KeysExclusive, View

(* The partial unique index, checked statement by statement under READ      *)
(* COMMITTED with rollbacks at any point, keeps one active document per URL,*)
(* for any number of requests.                                              *)
THEOREM RegistryKeepsUrlsUnique == Spec => []OneActivePerUrl
<1>1. Init => TypeOK /\ KeysOK /\ Unique
  BY InitType, InitUnique
<1>2. TypeOK /\ KeysOK /\ Unique /\ [Next]_vars => (TypeOK /\ KeysOK /\ Unique)'
  BY StepType, StepUnique
<1>3. Unique => OneActivePerUrl
  BY DEF Unique
<1> QED
  BY <1>1, <1>2, <1>3, PTL DEF Spec

-----------------------------------------------------------------------------
(***************************************************************************)
(* No document without a job.                                              *)
(***************************************************************************)

\* Document r is in the table, or a job of it commits with it.
Prepared(c, r) == row[r] # "absent" \/ \E j \in tx[c].added : jobDoc[j] = r

\* The transaction of c has written document r, or is to write it.
Touches(c, r) ==
    wrote[c][r] # None \/ r \in tx[c].dirty \/ (tx[c].stage = "mark" /\ tx[c].cur = r)

\* What a transaction has written or is to write is prepared, and nothing is kept once it
\* has ended.
PreparedOK(c, r) ==
    /\ wrote[c][r] # "absent"
    /\ tx[c].stage = "idle" => wrote[c][r] = None
    /\ Touches(c, r) => Prepared(c, r)

AllPrepared == \A c \in Clients, r \in Rows : PreparedOK(c, r)

\* A step of c leaves alone what the other transactions have prepared.
LEMMA KeepPrepared ==
    ASSUME TypeOK, KeysOK, AllPrepared, NEW c \in Clients,
           \A r \in Rows : row[r] # "absent" => row'[r] # "absent",
           \A d \in Clients \ {c} :
              /\ wrote'[d] = wrote[d] /\ tx'[d].dirty = tx[d].dirty /\ tx'[d].stage = tx[d].stage
              /\ tx'[d].cur = tx[d].cur /\ tx'[d].added = tx[d].added,
           \A j \in Jobs \ tx[c].added : jobStatus[j] = "uncommitted" => jobDoc'[j] = jobDoc[j],
           \A r \in Rows : PreparedOK(c, r)'
    PROVE  AllPrepared'
<1>1. ASSUME NEW d \in Clients \ {c}, NEW r \in Rows PROVE PreparedOK(d, r)'
  <2>1. /\ wrote'[d][r] # "absent" /\ (tx'[d].stage = "idle" => wrote'[d][r] = None)
        /\ Touches(d, r)' => Touches(d, r)
    BY DEF AllPrepared, PreparedOK, Touches
  <2>2. \A j \in tx[d].added : j \in Jobs \ tx[c].added /\ jobStatus[j] = "uncommitted"
    BY TxType DEF KeysOK
  <2>3. Prepared(d, r) => Prepared(d, r)'
    BY <2>2 DEF Prepared
  <2> QED
    BY <2>1, <2>3 DEF AllPrepared, PreparedOK
<1> QED
  BY <1>1 DEF AllPrepared

\* Committed jobs keep their document.
LEMMA KeepJobs ==
    ASSUME DocumentsHaveJobs, row' = row,
           \A j \in Jobs : jobStatus[j] \in {"live", "FAILED"} =>
              jobDoc'[j] = jobDoc[j] /\ jobStatus'[j] \in {"live", "FAILED"}
    PROVE  DocumentsHaveJobs'
<1>1. \A r \in Rows : CommittedJobs(r) \subseteq CommittedJobs(r)'
  BY DEF CommittedJobs
<1> QED
  BY <1>1 DEF DocumentsHaveJobs

\* A statement that touches no job.
LEMMA QuietPrepared ==
    ASSUME TypeOK, KeysOK, AllPrepared, DocumentsHaveJobs,
           NEW c \in Clients, NEW t \in Transactions, Goes(c, t), NoJob, row' = row,
           t.added = tx[c].added, t.stage \notin {"idle", "mark"}, \A r \in t.dirty : Prepared(c, r),
           \/ wrote' = wrote
           \/ \E r \in Rows, s \in {"active", "deleted"} : FlushesRow(c, r, s) /\ Touches(c, r)
    PROVE  AllPrepared' /\ DocumentsHaveJobs'
<1>1. jobDoc' = jobDoc /\ jobStatus' = jobStatus
  BY DEF NoJob
<1>2. \A d \in Clients : tx'[d] = IF d = c THEN t ELSE tx[d]
  BY DEF Goes, TypeOK
<1>3. /\ \A d \in Clients \ {c} : wrote'[d] = wrote[d]
      /\ \A r \in Rows : wrote'[c][r] # wrote[c][r] => wrote'[c][r] \in {"active", "deleted"} /\ Touches(c, r)
  BY DEF FlushesRow, TypeOK
<1>4. ASSUME NEW r \in Rows PROVE PreparedOK(c, r)'
  <2>1. wrote'[c][r] # "absent" /\ tx'[c].stage # "idle"
    BY <1>2, <1>3 DEF AllPrepared, PreparedOK
  <2>2. Prepared(c, r) => Prepared(c, r)'
    BY <1>1, <1>2 DEF Prepared
  <2>3. Touches(c, r)' => Touches(c, r) \/ r \in t.dirty
    BY <1>2, <1>3 DEF Touches
  <2> QED
    BY <2>1, <2>2, <2>3 DEF AllPrepared, PreparedOK
<1>5. AllPrepared'
  BY <1>1, <1>2, <1>3, <1>4, KeepPrepared
<1>6. DocumentsHaveJobs'
  BY <1>1, KeepJobs
<1> QED
  BY <1>5, <1>6

\* The step that adds a job for document q, and may have flushed it.
LEMMA AcceptPrepared ==
    ASSUME TypeOK, KeysOK, AllPrepared, DocumentsHaveJobs,
           NEW c \in Clients, NEW t \in Transactions, NEW q \in Rows, Accept(c, q, t), row' = row,
           t.added = tx[c].added, t.stage \notin {"idle", "mark"}, t.dirty \subseteq tx[c].dirty \cup {q},
           wrote' = wrote \/ FlushesRow(c, q, "active")
    PROVE  AllPrepared' /\ DocumentsHaveJobs'
<1>1. PICK j \in NewJob :
         /\ jobDoc' = [jobDoc EXCEPT ![j] = q]
         /\ jobStatus' = [jobStatus EXCEPT ![j] = "uncommitted"]
         /\ Goes(c, [t EXCEPT !.added = @ \cup {j}])
  BY DEF Accept
<1> DEFINE s == [t EXCEPT !.added = @ \cup {j}]
<1>2. j \in Jobs /\ jobStatus[j] = "none"
  BY DEF NewJob
<1>3. s.added = tx[c].added \cup {j} /\ s.stage = t.stage /\ s.dirty = t.dirty
  BY DEF Transactions
<1>4. \A d \in Clients : tx'[d] = IF d = c THEN s ELSE tx[d]
  BY <1>1 DEF Goes, TypeOK
<1> HIDE DEF s
<1>5. /\ \A i \in Jobs : jobDoc'[i] = IF i = j THEN q ELSE jobDoc[i]
      /\ \A i \in Jobs \ {j} : jobStatus'[i] = jobStatus[i]
  BY <1>1, <1>2 DEF TypeOK
<1>6. /\ \A d \in Clients \ {c} : wrote'[d] = wrote[d]
      /\ \A r \in Rows \ {q} : wrote'[c][r] = wrote[c][r]
      /\ wrote'[c][q] \in {wrote[c][q], "active"}
  BY DEF FlushesRow, TypeOK
<1>7. ASSUME NEW r \in Rows PROVE PreparedOK(c, r)'
  <2>1. wrote'[c][r] # "absent" /\ tx'[c].stage # "idle"
    BY <1>3, <1>4, <1>6 DEF AllPrepared, PreparedOK
  <2>2. j \notin tx[c].added /\ tx[c].added \subseteq Jobs
    BY <1>2, TxType DEF KeysOK
  <2>3. Prepared(c, r) => Prepared(c, r)'
    BY <1>3, <1>4, <1>5, <2>2 DEF Prepared
  <2>4. Prepared(c, q)'
    BY <1>2, <1>3, <1>4, <1>5 DEF Prepared
  <2>5. Touches(c, r)' => Touches(c, r) \/ r = q
    BY <1>3, <1>4, <1>6 DEF Touches
  <2> QED
    BY <2>1, <2>3, <2>4, <2>5 DEF AllPrepared, PreparedOK
<1>8. AllPrepared'
  <2>1. \A i \in Jobs \ tx[c].added : jobStatus[i] = "uncommitted" => jobDoc'[i] = jobDoc[i]
    BY <1>2, <1>5
  <2> QED
    BY <1>4, <1>6, <1>7, <2>1, KeepPrepared
<1>9. DocumentsHaveJobs'
  BY <1>2, <1>5, KeepJobs
<1> QED
  BY <1>8, <1>9

\* A request begins: it is to write at most a document that is in the table.
LEMMA BeginsPrepared ==
    ASSUME TypeOK, KeysOK, AllPrepared, DocumentsHaveJobs,
           NEW c \in Clients, NEW t \in Transactions, Begins(c, t), t.dirty = {},
           t.stage = "mark" => row[t.cur] = "active"
    PROVE  AllPrepared' /\ DocumentsHaveJobs'
<1>1. UNCHANGED <<row, jobDoc, jobStatus, wrote>>
  BY DEF Begins, Reads
<1>2. \A d \in Clients \ {c} :
         /\ tx'[d].dirty = tx[d].dirty /\ tx'[d].stage = tx[d].stage
         /\ tx'[d].cur = tx[d].cur /\ tx'[d].added = tx[d].added
  BY DEF Begins, TypeOK, Transactions
<1>3. tx'[c].dirty = {} /\ tx'[c].stage = t.stage /\ tx'[c].cur = t.cur
  BY DEF Begins, Transactions
<1>4. ASSUME NEW r \in Rows PROVE PreparedOK(c, r)'
  <2>1. wrote[c][r] = None /\ wrote[c][r] # "absent"
    BY DEF Begins, AllPrepared, PreparedOK
  <2> QED
    BY <1>1, <1>3, <2>1 DEF PreparedOK, Touches, Prepared
<1>5. AllPrepared'
  BY <1>1, <1>2, <1>4, KeepPrepared
<1>6. DocumentsHaveJobs'
  BY <1>1, KeepJobs
<1> QED
  BY <1>5, <1>6

\* A commit brings in the documents together with their jobs.
LEMMA CommitPrepared ==
    ASSUME TypeOK, KeysOK, AllPrepared, DocumentsHaveJobs, NEW c \in Clients, Commit(c)
    PROVE  AllPrepared' /\ DocumentsHaveJobs'
<1>1. /\ row' = View(c) /\ jobDoc' = jobDoc
      /\ \A j \in Jobs : jobStatus'[j] = IF j \in tx[c].added THEN "live" ELSE jobStatus[j]
  BY DEF Commit
<1>2. \A d \in Clients : /\ tx'[d] = IF d = c THEN NoTransaction ELSE tx[d]
                         /\ d # c => wrote'[d] = wrote[d]
  BY DEF Commit, Goes, Unlocks, TypeOK
<1>3. \A r \in Rows : wrote'[c][r] = None
  BY DEF Commit, Unlocks, TypeOK
<1>4. \A r \in Rows : row[r] # "absent" => row'[r] # "absent"
  BY <1>1 DEF View, AllPrepared, PreparedOK
<1>5. \A r \in Rows : PreparedOK(c, r)'
  <2>1. tx'[c].dirty = {} /\ tx'[c].stage = "idle"
    BY <1>2 DEF NoTransaction
  <2> QED
    BY <1>3, <2>1, RegistryAssumption DEF PreparedOK, Touches
<1>6. AllPrepared'
  BY <1>1, <1>2, <1>4, <1>5, KeepPrepared
<1>7. ASSUME NEW r \in Rows, row'[r] # "absent" PROVE CommittedJobs(r)' # {}
  <2>1. CASE row[r] # "absent"
    <3>1. PICK j \in Jobs : jobDoc[j] = r /\ jobStatus[j] \in {"live", "FAILED"}
      BY <2>1 DEF DocumentsHaveJobs, CommittedJobs
    <3>2. jobStatus'[j] \in {"live", "FAILED"}
      BY <1>1, <3>1
    <3> QED
      BY <1>1, <3>1, <3>2 DEF CommittedJobs
  <2>2. CASE row[r] = "absent"
    <3>1. wrote[c][r] # None
      BY <1>1, <1>7, <2>2 DEF View
    <3>2. PICK j \in tx[c].added : jobDoc[j] = r
      BY <2>2, <3>1 DEF AllPrepared, PreparedOK, Touches, Prepared
    <3>3. j \in Jobs
      BY <3>2, TxType
    <3> QED
      BY <1>1, <3>2, <3>3 DEF CommittedJobs
  <2> QED
    BY <2>1, <2>2
<1> QED
  BY <1>6, <1>7 DEF DocumentsHaveJobs

\* A rollback takes back jobs that nobody has seen.
LEMMA RollbackPrepared ==
    ASSUME TypeOK, KeysOK, AllPrepared, DocumentsHaveJobs, NEW c \in Clients, Rollback(c)
    PROVE  AllPrepared' /\ DocumentsHaveJobs'
<1>1. /\ row' = row
      /\ \A j \in Jobs \ tx[c].added : jobDoc'[j] = jobDoc[j] /\ jobStatus'[j] = jobStatus[j]
  BY DEF Rollback, NotCommitted
<1>2. \A d \in Clients : /\ tx'[d] = IF d = c THEN NoTransaction ELSE tx[d]
                         /\ d # c => wrote'[d] = wrote[d]
  BY DEF Rollback, Goes, Unlocks, TypeOK
<1>3. \A r \in Rows : wrote'[c][r] = None
  BY DEF Rollback, Unlocks, TypeOK
<1>4. \A r \in Rows : PreparedOK(c, r)'
  <2>1. tx'[c].dirty = {} /\ tx'[c].stage = "idle"
    BY <1>2 DEF NoTransaction
  <2> QED
    BY <1>3, <2>1, RegistryAssumption DEF PreparedOK, Touches
<1>5. AllPrepared'
  BY <1>1, <1>2, <1>4, KeepPrepared
<1>6. \A j \in Jobs : jobStatus[j] \in {"live", "FAILED"} => j \notin tx[c].added
  BY DEF KeysOK
<1>7. DocumentsHaveJobs'
  BY <1>1, <1>6, KeepJobs
<1> QED
  BY <1>5, <1>7

\* Every step keeps a job with every document that is written.
LEMMA StepPrepared ==
    TypeOK /\ KeysOK /\ AllPrepared /\ DocumentsHaveJobs /\ [Next]_vars => AllPrepared' /\ DocumentsHaveJobs'
<1> SUFFICES ASSUME TypeOK, KeysOK, AllPrepared, DocumentsHaveJobs, [Next]_vars
             PROVE  AllPrepared' /\ DocumentsHaveJobs'
  OBVIOUS
<1>1. ASSUME NEW c \in Clients, Request(c) PROVE AllPrepared' /\ DocumentsHaveJobs'
  <2>1. ASSUME NEW S \in SUBSET Urls, SubmitBatch(c, S) PROVE AllPrepared' /\ DocumentsHaveJobs'
    <3> DEFINE t == [NoTransaction EXCEPT !.stage = "docset", !.todo = S]
    <3>1. t \in Transactions /\ t.dirty = {} /\ t.stage = "docset"
      BY DEF NoTransaction, Transactions, Stages
    <3> HIDE DEF t
    <3>2. Begins(c, t)
      BY <2>1 DEF SubmitBatch, t
    <3> QED
      BY <3>1, <3>2, BeginsPrepared
  <2>2. ASSUME NEW r \in Rows, DeleteDocument(c, r) PROVE AllPrepared' /\ DocumentsHaveJobs'
    <3> DEFINE t == [NoTransaction EXCEPT !.stage = "mark", !.cur = r]
    <3>1. t \in Transactions /\ t.dirty = {} /\ t.cur = r
      BY DEF NoTransaction, Transactions, Stages
    <3> HIDE DEF t
    <3>2. Begins(c, t) /\ row[r] = "active"
      BY <2>2 DEF DeleteDocument, t
    <3> QED
      BY <3>1, <3>2, BeginsPrepared
  <2>3. ASSUME DeleteDocset(c) PROVE AllPrepared' /\ DocumentsHaveJobs'
    <3> DEFINE t == [NoTransaction EXCEPT !.stage = "members", !.loaded = docset.count]
    <3>1. t \in Transactions /\ t.dirty = {} /\ t.stage = "members"
      <4>1. docset.count \in Nat
        BY DEF TypeOK, DocsetRows
      <4> QED
        BY <4>1 DEF NoTransaction, Transactions, Stages
    <3> HIDE DEF t
    <3>2. Begins(c, t)
      BY <2>3 DEF DeleteDocset, t
    <3> QED
      BY <3>1, <3>2, BeginsPrepared
  <2> QED
    BY <1>1, <2>1, <2>2, <2>3 DEF Request
<1>2. ASSUME NEW c \in Clients, Statement(c) \/ Abort(c) PROVE AllPrepared' /\ DocumentsHaveJobs'
  <2>1. CASE Rollback(c)
    BY <2>1, RollbackPrepared
  <2>2. CASE Commit(c)
    BY <2>2, CommitPrepared
  <2>3. \A r \in tx[c].dirty : Prepared(c, r) /\ Touches(c, r)
    BY TxType DEF AllPrepared, PreparedOK, Touches
  \* A statement that neither touches a job nor marks a document.
  <2>4. ASSUME NEW t \in Transactions, Goes(c, t), NoJob, row' = row, t.added = tx[c].added,
               t.stage \notin {"idle", "mark"}, t.dirty \subseteq tx[c].dirty,
               \/ wrote' = wrote
               \/ \E r \in Rows, s \in {"active", "deleted"} : FlushesRow(c, r, s) /\ Touches(c, r)
        PROVE  AllPrepared' /\ DocumentsHaveJobs'
    BY <2>3, <2>4, QuietPrepared
  <2>5. CASE ReadDocset(c)
    <3> DEFINE g == IF docset.state = "absent" THEN "create"
                    ELSE IF docset.state = "pruned" THEN "revive"
                    ELSE "item"
               t == [tx[c] EXCEPT !.loaded = docset.count, !.stage = g]
    <3>1. g \in {"create", "revive", "item"} /\ docset.count \in Nat
      BY DEF TypeOK, DocsetRows
    <3> HIDE DEF g
    <3>2. t \in Transactions /\ t.added = tx[c].added /\ t.stage = g /\ t.dirty = tx[c].dirty
      BY <3>1, TxType DEF Transactions, Stages
    <3>3. Goes(c, t) /\ Reads
      BY <2>5 DEF ReadDocset, g
    <3> HIDE DEF t
    <3> QED
      BY <2>4, <3>1, <3>2, <3>3 DEF Reads, NoJob
  <2>6. CASE CreateDocset(c) \/ ReviveDocset(c)
    <3> DEFINE t == [tx[c] EXCEPT !.stage = "item"]
    <3>1. t \in Transactions /\ t.added = tx[c].added /\ t.stage = "item" /\ t.dirty = tx[c].dirty
      BY TxType DEF Transactions, Stages
    <3> HIDE DEF t
    <3> QED
      BY <2>4, <2>6, <3>1 DEF CreateDocset, ReviveDocset, NotCommitted, t
  <2>7. CASE InspectActive(c)
    <3> DEFINE l(u) == [tx[c] EXCEPT !.stage = "lookup", !.url = u]
               f(u, r) == [tx[c] EXCEPT !.stage = "latest", !.url = u, !.cur = r]
    <3>1. /\ Reads
          /\ \E u \in tx[c].todo : Goes(c, l(u)) \/ \E r \in Rows : Goes(c, f(u, r))
      BY <2>7 DEF InspectActive, Active
    <3>2. \A u \in Urls :
             /\ l(u) \in Transactions /\ l(u).added = tx[c].added
             /\ l(u).stage = "lookup" /\ l(u).dirty = tx[c].dirty
      BY TxType DEF Transactions, Stages
    <3>3. \A u \in Urls, r \in Rows :
             /\ f(u, r) \in Transactions /\ f(u, r).added = tx[c].added
             /\ f(u, r).stage = "latest" /\ f(u, r).dirty = tx[c].dirty
      BY TxType DEF Transactions, Stages
    <3> HIDE DEF l, f
    <3>4. PICK u \in Urls : Goes(c, l(u)) \/ \E r \in Rows : Goes(c, f(u, r))
      BY <3>1, TxType
    <3> QED
      BY <2>4, <3>1, <3>2, <3>3, <3>4 DEF Reads, NoJob
  <2>8. CASE InspectJob(c)
    <3>1. /\ tx[c].cur \in Rows /\ row' = row /\ wrote' = wrote
          /\ Accept(c, tx[c].cur, NextItem(c)) \/ (Goes(c, NextItem(c)) /\ NoJob)
      BY <2>8 DEF InspectJob, NotCommitted, KeysOK, CurKnown
    <3>2. CASE Accept(c, tx[c].cur, NextItem(c))
      BY <3>1, <3>2, AcceptPrepared, NextItemType
    <3>3. CASE Goes(c, NextItem(c)) /\ NoJob
      BY <2>4, <3>1, <3>3, NextItemType
    <3> QED
      BY <3>1, <3>2, <3>3
  <2>9. CASE InspectDeleted(c)
    <3> DEFINE a(r) == [NextItem(c) EXCEPT !.dirty = @ \cup {r}]
               i(r) == [tx[c] EXCEPT !.stage = "insert", !.cur = r]
    <3>1. ASSUME NEW n \in Transactions, NEW r \in Rows
          PROVE  /\ [n EXCEPT !.dirty = @ \cup {r}] \in Transactions
                 /\ [n EXCEPT !.dirty = @ \cup {r}].added = n.added
                 /\ [n EXCEPT !.dirty = @ \cup {r}].stage = n.stage
                 /\ [n EXCEPT !.dirty = @ \cup {r}].dirty = n.dirty \cup {r}
      BY DEF Transactions
    <3>2. \A r \in Rows : /\ a(r) \in Transactions /\ a(r).added = tx[c].added
                          /\ a(r).stage = "item" /\ a(r).dirty = tx[c].dirty \cup {r}
      BY <3>1, NextItemType
    <3>3. \A r \in Rows : /\ i(r) \in Transactions /\ i(r).added = tx[c].added
                          /\ i(r).stage = "insert" /\ i(r).dirty = tx[c].dirty
      BY TxType DEF Transactions, Stages
    <3>4. row' = row /\ wrote' = wrote
      BY <2>9 DEF InspectDeleted, NotCommitted
    <3>5. \E r \in Rows : Accept(c, r, a(r)) \/ (Goes(c, i(r)) /\ NoJob)
      BY <2>9 DEF InspectDeleted, FreeKeys
    <3> HIDE DEF a, i
    <3>6. PICK r \in Rows : Accept(c, r, a(r)) \/ (Goes(c, i(r)) /\ NoJob)
      BY <3>5
    <3>7. CASE Accept(c, r, a(r))
      BY <3>2, <3>4, <3>7, AcceptPrepared
    <3>8. CASE Goes(c, i(r)) /\ NoJob
      BY <2>4, <3>3, <3>4, <3>8
    <3> QED
      BY <3>6, <3>7, <3>8
  <2>10. CASE FlushDocument(c)
    <3>1. PICK r \in NextWrite(c) :
             /\ FlushesRow(c, r, IF Activates(c) THEN "active" ELSE "deleted")
             /\ Goes(c, [tx[c] EXCEPT !.dirty = @ \ {r}])
      BY <2>10 DEF FlushDocument
    <3> DEFINE t == [tx[c] EXCEPT !.dirty = @ \ {r}]
    <3>2. /\ t \in Transactions /\ t.added = tx[c].added
          /\ t.stage = tx[c].stage /\ t.dirty \subseteq tx[c].dirty
      BY TxType DEF Transactions
    <3>3. r \in Rows /\ r \in tx[c].dirty /\ tx[c].stage \in {"insert", "rows", "markAll"}
      BY <2>10, TxType DEF NextWrite, FlushDocument
    <3>4. NoJob /\ row' = row /\ Goes(c, t)
      BY <2>10, <3>1 DEF FlushDocument, NotCommitted
    <3> HIDE DEF t
    <3> QED
      BY <2>3, <2>4, <3>1, <3>2, <3>3, <3>4
  <2>11. CASE InsertDocument(c)
    <3>1. /\ tx[c].cur \in Rows /\ FlushesRow(c, tx[c].cur, "active")
          /\ Accept(c, tx[c].cur, NextItem(c)) /\ row' = row
      BY <2>11 DEF InsertDocument, NotCommitted, KeysOK, CurKnown
    <3> QED
      BY <3>1, AcceptPrepared, NextItemType
  <2>12. CASE CountActive(c)
    <3> DEFINE n == Cardinality(Active(View(c)))
               l == IF tx[c].alone THEN tx[c].dirty ELSE {}
               t == [tx[c] EXCEPT !.counted = n, !.late = l, !.stage = "totals"]
    <3>1. n \in Nat /\ l \subseteq Rows
      BY CountIsNat, TxType
    <3> HIDE DEF n, l
    <3>2. t \in Transactions /\ t.added = tx[c].added /\ t.stage = "totals" /\ t.dirty = tx[c].dirty
      BY <3>1, TxType DEF Transactions, Stages
    <3>3. Goes(c, t) /\ Reads
      BY <2>12 DEF CountActive, n, l
    <3> HIDE DEF t
    <3> QED
      BY <2>4, <3>2, <3>3 DEF Reads, NoJob
  <2>13. CASE WriteTotals(c)
    <3> DEFINE t == [tx[c] EXCEPT !.stage = "rows", !.counted = 0, !.loaded = 0]
    <3>1. t \in Transactions /\ t.added = tx[c].added /\ t.stage = "rows" /\ t.dirty = tx[c].dirty
      BY TxType DEF Transactions, Stages
    <3> HIDE DEF t
    <3> QED
      BY <2>4, <2>13, <3>1 DEF WriteTotals, NotCommitted, t
  <2>14. CASE MarkDeleted(c)
    <3> DEFINE t == [tx[c] EXCEPT !.stage = "find"]
    <3>1. t \in Transactions /\ t.added = tx[c].added /\ t.stage = "find" /\ t.dirty = tx[c].dirty
      BY TxType DEF Transactions, Stages
    <3>2. tx[c].cur \in Rows /\ Touches(c, tx[c].cur)
      BY <2>14 DEF MarkDeleted, KeysOK, CurKnown, Touches
    <3> HIDE DEF t
    <3> QED
      BY <2>4, <2>14, <3>1, <3>2 DEF MarkDeleted, NotCommitted, t
  <2>15. CASE FindDocset(c)
    <3> DEFINE t == [tx[c] EXCEPT !.loaded = docset.count, !.stage = "count"]
    <3>1. t \in Transactions /\ t.added = tx[c].added /\ t.stage = "count" /\ t.dirty = tx[c].dirty
      <4>1. docset.count \in Nat
        BY DEF TypeOK, DocsetRows
      <4> QED
        BY <4>1, TxType DEF Transactions, Stages
    <3> HIDE DEF t
    <3> QED
      BY <2>4, <2>15, <3>1 DEF FindDocset, Reads, NoJob, t
  <2>16. CASE CountRemaining(c)
    <3> DEFINE n == Cardinality(Active(View(c)))
               t == [tx[c] EXCEPT !.counted = n, !.stage = "prune"]
    <3>1. n \in Nat
      BY CountIsNat
    <3> HIDE DEF n
    <3>2. t \in Transactions /\ t.added = tx[c].added /\ t.stage = "prune" /\ t.dirty = tx[c].dirty
      BY <3>1, TxType DEF Transactions, Stages
    <3>3. Goes(c, t) /\ Reads
      BY <2>16 DEF CountRemaining, n
    <3> HIDE DEF t
    <3> QED
      BY <2>4, <3>2, <3>3 DEF Reads, NoJob
  <2>17. CASE Prune(c)
    <3> DEFINE t == [tx[c] EXCEPT !.stage = "markAll", !.cur = 0, !.counted = 0, !.loaded = 0]
    <3>1. t \in Transactions /\ t.added = tx[c].added /\ t.stage = "markAll" /\ t.dirty = tx[c].dirty
      BY TxType DEF Transactions, Stages
    <3> HIDE DEF t
    <3> QED
      BY <2>4, <2>17, <3>1 DEF Prune, NotCommitted, t
  <2>18. CASE SelectMembers(c)
    <3> DEFINE t == [tx[c] EXCEPT !.dirty = Active(row), !.stage = "discard"]
    <3>1. t \in Transactions /\ t.added = tx[c].added /\ t.stage = "discard" /\ t.dirty = Active(row)
      BY TxType DEF Transactions, Stages, Active
    <3>2. \A r \in t.dirty : Prepared(c, r)
      BY <3>1 DEF Active, Prepared
    <3> HIDE DEF t
    <3>3. Goes(c, t) /\ NoJob /\ row' = row /\ wrote' = wrote
      BY <2>18 DEF SelectMembers, Reads, NoJob, t
    <3> QED
      BY <3>1, <3>2, <3>3, QuietPrepared
  <2>19. CASE DiscardDocset(c)
    <3> DEFINE t == [tx[c] EXCEPT !.stage = "markAll", !.loaded = 0]
    <3>1. t \in Transactions /\ t.added = tx[c].added /\ t.stage = "markAll" /\ t.dirty = tx[c].dirty
      BY TxType DEF Transactions, Stages
    <3> HIDE DEF t
    <3> QED
      BY <2>4, <2>19, <3>1 DEF DiscardDocset, NotCommitted, t
  <2> QED
    BY <1>2, <2>1, <2>2, <2>5, <2>6, <2>7, <2>8, <2>9, <2>10, <2>11, <2>12, <2>13, <2>14, <2>15,
       <2>16, <2>17, <2>18, <2>19 DEF Statement, Abort, Refused, DeadlockVictim, GiveUp
<1>3. ASSUME NEW j \in Jobs, NEW s \in {"live", "FAILED"}, Work(j, s)
      PROVE  AllPrepared' /\ DocumentsHaveJobs'
  <2>1. UNCHANGED <<row, jobDoc, wrote, tx>>
    BY <1>3 DEF Work
  <2>2. AllPrepared'
    BY <2>1 DEF AllPrepared, PreparedOK, Touches, Prepared
  <2>3. \A i \in Jobs : jobStatus[i] \in {"live", "FAILED"} => jobStatus'[i] \in {"live", "FAILED"}
    BY <1>3 DEF Work, TypeOK
  <2>4. DocumentsHaveJobs'
    BY <2>1, <2>3, KeepJobs
  <2> QED
    BY <2>2, <2>4
<1>4. CASE UNCHANGED vars
  BY <1>4 DEF vars, AllPrepared, PreparedOK, Touches, Prepared, DocumentsHaveJobs, CommittedJobs
<1> QED
  BY <1>1, <1>2, <1>3, <1>4 DEF Next

\* In the beginning there is no document.
LEMMA InitPrepared == Init => AllPrepared /\ DocumentsHaveJobs
<1> SUFFICES ASSUME Init PROVE AllPrepared /\ DocumentsHaveJobs
  OBVIOUS
<1>1. \A c \in Clients : tx[c] = NoTransaction /\ \A r \in Rows : wrote[c][r] = None
  BY DEF Init
<1>2. AllPrepared
  BY <1>1, RegistryAssumption DEF AllPrepared, PreparedOK, Touches, NoTransaction
<1>3. PICK gone \in Earlier \cup {0} :
         /\ row = [r \in Rows |-> IF r = gone THEN "deleted" ELSE "absent"]
         /\ jobDoc = [j \in Jobs |-> IF j = 0 THEN gone ELSE 0]
         /\ jobStatus = [j \in Jobs |-> IF j # 0 THEN "none" ELSE IF gone = 0 THEN "void" ELSE "live"]
  BY DEF Init
<1>4. ASSUME NEW r \in Rows, row[r] # "absent" PROVE 0 \in CommittedJobs(r)
  <2>1. r = gone /\ r # 0 /\ 0 \in Jobs
    BY <1>3, <1>4, RegistryAssumption DEF Jobs
  <2> QED
    BY <1>3, <2>1 DEF CommittedJobs
<1> QED
  BY <1>2, <1>4 DEF DocumentsHaveJobs

(* A batch, and every rollback, leaves no document without a job, so the    *)
(* check of a URL always has a status to report.                            *)
THEOREM RegistryDocumentsHaveJobs == Spec => []DocumentsHaveJobs
<1>1. Init => TypeOK /\ KeysOK /\ AllPrepared /\ DocumentsHaveJobs
  BY InitType, InitPrepared
<1>2. TypeOK /\ KeysOK /\ AllPrepared /\ DocumentsHaveJobs /\ [Next]_vars
         => (TypeOK /\ KeysOK /\ AllPrepared /\ DocumentsHaveJobs)'
  BY StepType, StepPrepared
<1> QED
  BY <1>1, <1>2, PTL DEF Spec


-----------------------------------------------------------------------------
(***************************************************************************)
(* A new URL is accepted once.                                             *)
(***************************************************************************)

BatchStages == {"docset", "create", "revive", "item", "latest", "lookup", "insert", "totals", "rows"}

\* A batch only makes documents active; it has no item left whose URL it has entered, and
\* the documents it changes, and the one whose job it looks up, are in the table.
BatchWrites(c) ==
    /\ tx[c].stage \in BatchStages => \A r \in Rows : wrote[c][r] \in {None, "active"}
    /\ \A r \in Rows : wrote[c][r] # None /\ row[r] = "absent" =>
          tx[c].stage \in BatchStages /\ UrlOf[r] \notin tx[c].todo
    /\ tx[c].stage \in {"latest", "lookup", "insert"} => tx[c].url \in tx[c].todo
    /\ \A r \in tx[c].dirty : row[r] # "absent"
    /\ tx[c].stage \in {"latest", "mark"} => row[tx[c].cur] # "absent"

\* The document that a batch is to insert is its own.
OwnKey(c) ==
    tx[c].stage = "insert" =>
       /\ row[tx[c].cur] = "absent" /\ UrlOf[tx[c].cur] = tx[c].url
       /\ \A d \in Clients : wrote[d][tx[c].cur] = None /\ (d # c => tx[d].cur # tx[c].cur)

\* Deleted documents, and those with a failed job, are in the history.
History ==
    /\ \A r \in Rows : row[r] = "deleted" => r \in reopened
    /\ \A j \in Jobs : jobStatus[j] = "FAILED" => jobDoc[j] \in reopened

\* The jobs of document r, committed or not.
JobsOf(r) == {j \in Jobs : jobDoc[j] = r /\ jobStatus[j] \in {"uncommitted", "live", "FAILED"}}

\* A document has one job before it is in the history; before it is committed, that is the
\* job of the batch that has inserted it.
OneJob ==
    /\ \A r \in Rows : row[r] = "absent" =>
          \A j \in JobsOf(r) : \E c \in Clients : j \in tx[c].added /\ wrote[c][r] = "active"
    /\ \A r \in Rows \ reopened : \A i, j \in JobsOf(r) : i = j

Accepted == History /\ OneJob /\ \A c \in Clients : BatchWrites(c) /\ OwnKey(c)

\* A step of c leaves alone what the other batches have written and are to insert.
LEMMA OtherBatches ==
    ASSUME TypeOK, KeysOK, Accepted, NEW c \in Clients,
           \A d \in Clients \ {c} :
              /\ wrote'[d] = wrote[d] /\ tx'[d].dirty = tx[d].dirty /\ tx'[d].stage = tx[d].stage
              /\ tx'[d].cur = tx[d].cur /\ tx'[d].todo = tx[d].todo /\ tx'[d].url = tx[d].url,
           \A r \in Rows : row'[r] = row[r] \/ (wrote[c][r] # None /\ row'[r] # "absent"),
           \A r \in Rows : wrote'[c][r] # None =>
              wrote[c][r] # None \/ row[r] # "absent" \/ (tx[c].stage = "insert" /\ r = tx[c].cur),
           \/ tx'[c].cur \in {0, tx[c].cur}
           \/ tx'[c].cur \in Rows /\ row[tx'[c].cur] # "absent"
           \/ tx'[c].cur \in FreeKeys(tx[c].url)
    PROVE  \A d \in Clients \ {c} : BatchWrites(d)' /\ OwnKey(d)'
<1>1. \A d \in Clients : BatchWrites(d) /\ OwnKey(d)
  BY DEF Accepted
<1> SUFFICES ASSUME NEW d \in Clients \ {c} PROVE BatchWrites(d)' /\ OwnKey(d)'
  OBVIOUS
<1>2. \A r \in Rows : row'[r] = "absent" => row[r] = "absent"
  OBVIOUS
<1>3. \A r \in Rows : row[r] # "absent" => row'[r] # "absent"
  OBVIOUS
<1>4. tx[d].dirty \subseteq Rows /\ (tx[d].stage \in {"latest", "insert", "mark"} => tx[d].cur \in Rows)
  BY TxType DEF KeysOK, CurKnown
<1>5. BatchWrites(d)'
  BY <1>1, <1>2, <1>3, <1>4 DEF BatchWrites
<1>6. ASSUME tx[d].stage = "insert" PROVE OwnKey(d)'
  <2> DEFINE k == tx[d].cur
  <2>1. /\ k \in Rows /\ k # 0 /\ row[k] = "absent" /\ UrlOf[k] = tx[d].url
        /\ \A e \in Clients : wrote[e][k] = None /\ (e # d => tx[e].cur # k)
    BY <1>1, <1>4, <1>6, RegistryAssumption DEF OwnKey
  <2> HIDE DEF k
  <2>2. row'[k] = "absent"
    BY <2>1
  <2>3. wrote'[c][k] = None
    BY <2>1
  <2>4. tx'[c].cur # k
    BY <2>1 DEF FreeKeys, k
  <2>5. \A e \in Clients : wrote'[e][k] = None /\ (e # d => tx'[e].cur # k)
    BY <2>1, <2>3, <2>4
  <2> QED
    BY <1>6, <2>1, <2>2, <2>5 DEF OwnKey, k
<1>7. tx[d].stage # "insert" => OwnKey(d)'
  BY DEF OwnKey
<1> QED
  BY <1>5, <1>6, <1>7

\* What the session of c may become by a statement that adds no job.
Follows(c, t) ==
    /\ t.stage \in BatchStages <=> tx[c].stage \in BatchStages
    /\ t.stage # "mark" /\ t.added = tx[c].added /\ t.todo \subseteq tx[c].todo
    /\ t.stage \in {"latest", "lookup", "insert"} => t.url \in t.todo
    /\ \A r \in t.dirty : row[r] # "absent"
    /\ t.stage = "latest" => row[t.cur] # "absent"
    /\ t.stage = "insert" =>
          \/ t.cur \in FreeKeys(tx[c].url) /\ t.url = tx[c].url
          \/ tx[c].stage = "insert" /\ t.cur = tx[c].cur /\ t.url = tx[c].url
    /\ \/ t.cur \in {0, tx[c].cur}
       \/ t.cur \in Rows /\ row[t.cur] # "absent"
       \/ t.cur \in FreeKeys(tx[c].url)

\* A statement that touches no job.
LEMMA QuietAccepted ==
    ASSUME TypeOK, KeysOK, Accepted, NEW c \in Clients, NEW t \in Transactions, Goes(c, t), Follows(c, t),
           NoJob, row' = row, reopened' = reopened,
           \/ wrote' = wrote
           \/ \E r \in Rows : /\ FlushesRow(c, r, IF tx[c].stage \in BatchStages THEN "active" ELSE "deleted")
                              /\ row[r] # "absent"
    PROVE  Accepted'
<1>1. jobDoc' = jobDoc /\ jobStatus' = jobStatus
  BY DEF NoJob
<1>2. \A d \in Clients : tx'[d] = IF d = c THEN t ELSE tx[d]
  BY DEF Goes, TypeOK
<1>3. /\ \A d \in Clients \ {c} : wrote'[d] = wrote[d]
      /\ \A r \in Rows : wrote'[c][r] # wrote[c][r] =>
            /\ wrote'[c][r] = IF tx[c].stage \in BatchStages THEN "active" ELSE "deleted"
            /\ row[r] # "absent"
  BY DEF FlushesRow, TypeOK
<1>4. History'
  BY <1>1 DEF Accepted, History
<1>5. OneJob'
  <2>1. \A r \in Rows : JobsOf(r)' = JobsOf(r)
    BY <1>1 DEF JobsOf
  <2>2. \A d \in Clients : tx'[d].added = tx[d].added
    BY <1>2 DEF Follows
  <2>3. \A d \in Clients, r \in Rows : row[r] = "absent" => wrote'[d][r] = wrote[d][r]
    BY <1>3
  <2> QED
    BY <2>1, <2>2, <2>3 DEF Accepted, OneJob
<1>6. BatchWrites(c)'
  BY <1>2, <1>3 DEF Accepted, BatchWrites, Follows
<1>7. OwnKey(c)'
  <2>1. CASE t.stage # "insert"
    BY <1>2, <2>1 DEF OwnKey
  <2>2. CASE t.stage = "insert" /\ t.cur \in FreeKeys(tx[c].url) /\ t.url = tx[c].url
    BY <1>2, <1>3, <2>2 DEF OwnKey, FreeKeys
  <2>3. CASE t.stage = "insert" /\ tx[c].stage = "insert" /\ t.cur = tx[c].cur /\ t.url = tx[c].url
    <3>1. tx[c].cur \in Rows /\ OwnKey(c)
      BY <2>3 DEF KeysOK, CurKnown, Accepted
    <3> QED
      BY <1>2, <1>3, <2>3, <3>1 DEF OwnKey
  <2> QED
    BY <2>1, <2>2, <2>3 DEF Follows
<1>8. \A d \in Clients \ {c} : BatchWrites(d)' /\ OwnKey(d)'
  BY <1>2, <1>3, OtherBatches DEF Follows
<1> QED
  BY <1>4, <1>5, <1>6, <1>7, <1>8 DEF Accepted

\* The step that adds a job: for a document that is in the history, or for the one that it
\* inserts.
LEMMA AcceptAccepted ==
    ASSUME TypeOK, KeysOK, Accepted, NEW c \in Clients, NEW t \in Transactions, NEW q \in Rows,
           Accept(c, q, t), row' = row, reopened' = reopened, tx[c].stage \in BatchStages,
           t.stage = "item", t.cur \in {0}, t.added = tx[c].added, t.todo \subseteq tx[c].todo,
           \A r \in t.dirty : row[r] # "absent",
           \/ wrote' = wrote /\ q \in reopened /\ row[q] # "absent"
           \/ FlushesRow(c, q, "active") /\ tx[c].stage = "insert" /\ q = tx[c].cur /\ UrlOf[q] \notin t.todo
    PROVE  Accepted'
<1>1. PICK j \in NewJob :
         /\ jobDoc' = [jobDoc EXCEPT ![j] = q]
         /\ jobStatus' = [jobStatus EXCEPT ![j] = "uncommitted"]
         /\ Goes(c, [t EXCEPT !.added = @ \cup {j}])
  BY DEF Accept
<1> DEFINE s == [t EXCEPT !.added = @ \cup {j}]
<1>2. j \in Jobs /\ jobStatus[j] = "none"
  BY DEF NewJob
<1>3. /\ s.added = tx[c].added \cup {j} /\ s.stage = "item" /\ s.cur \in {0}
      /\ s.dirty = t.dirty /\ s.todo = t.todo
  BY DEF Transactions
<1>4. \A d \in Clients : tx'[d] = IF d = c THEN s ELSE tx[d]
  BY <1>1 DEF Goes, TypeOK
<1> HIDE DEF s
<1>5. \A i \in Jobs : /\ jobDoc'[i] = IF i = j THEN q ELSE jobDoc[i]
                      /\ jobStatus'[i] = IF i = j THEN "uncommitted" ELSE jobStatus[i]
  BY <1>1, <1>2 DEF TypeOK
<1>6. /\ \A d \in Clients \ {c} : wrote'[d] = wrote[d]
      /\ \A r \in Rows \ {q} : wrote'[c][r] = wrote[c][r]
      /\ wrote'[c][q] \in {wrote[c][q], "active"}
  BY DEF FlushesRow, TypeOK
<1>7. wrote' = wrote \/ wrote'[c][q] = "active"
  BY DEF FlushesRow, TypeOK
<1>8. \A r \in Rows : JobsOf(r)' = JobsOf(r) \cup (IF r = q THEN {j} ELSE {})
  BY <1>2, <1>5 DEF JobsOf
<1>9. History'
  BY <1>5 DEF Accepted, History
<1>10. ASSUME row[q] = "absent" PROVE JobsOf(q) = {} /\ wrote'[c][q] = "active"
  <2>1. tx[c].stage = "insert" /\ q = tx[c].cur /\ wrote'[c][q] = "active"
    BY <1>10 DEF FlushesRow, TypeOK
  <2>2. \A d \in Clients : wrote[d][q] # "active"
    BY <2>1, RegistryAssumption DEF Accepted, OwnKey
  <2> QED
    BY <1>10, <2>1, <2>2 DEF Accepted, OneJob
<1>11. OneJob'
  <2>1. ASSUME NEW r \in Rows, row[r] = "absent", NEW i \in JobsOf(r)'
        PROVE  \E d \in Clients : i \in tx'[d].added /\ wrote'[d][r] = "active"
    <3>1. CASE r = q
      BY <1>3, <1>4, <1>8, <1>10, <2>1, <3>1
    <3>2. CASE r # q
      <4>1. PICK d \in Clients : i \in tx[d].added /\ wrote[d][r] = "active"
        BY <1>8, <2>1, <3>2 DEF Accepted, OneJob
      <4>2. i \in tx'[d].added /\ wrote'[d][r] = "active"
        BY <1>3, <1>4, <1>6, <3>2, <4>1
      <4> QED
        BY <4>2
    <3> QED
      BY <3>1, <3>2
  <2>2. ASSUME NEW r \in Rows \ reopened, NEW i \in JobsOf(r)', NEW k \in JobsOf(r)' PROVE i = k
    <3>1. CASE r = q
      <4>1. row[q] = "absent"
        BY <2>2, <3>1 DEF Accepted, OwnKey
      <4> QED
        BY <1>8, <1>10, <2>2, <3>1, <4>1
    <3>2. CASE r # q
      BY <1>8, <2>2, <3>2 DEF Accepted, OneJob
    <3> QED
      BY <3>1, <3>2
  <2> QED
    BY <2>1, <2>2 DEF OneJob
<1>12. BatchWrites(c)'
  <2>1. BatchWrites(c) /\ "item" \in BatchStages
    BY DEF Accepted, BatchStages
  <2>2. \A r \in Rows : wrote'[c][r] \in {None, "active"}
    BY <1>6, <2>1 DEF BatchWrites
  <2>3. ASSUME NEW r \in Rows, wrote'[c][r] # None, row[r] = "absent" PROVE UrlOf[r] \notin t.todo
    <3>1. CASE wrote[c][r] # None
      BY <2>1, <2>3, <3>1 DEF BatchWrites
    <3>2. CASE wrote[c][r] = None
      BY <1>6, <2>3, <3>2
    <3> QED
      BY <3>1, <3>2
  <2> QED
    BY <1>3, <1>4, <2>1, <2>2, <2>3 DEF BatchWrites
<1>13. OwnKey(c)'
  BY <1>3, <1>4 DEF OwnKey
<1>14. \A d \in Clients \ {c} : BatchWrites(d)' /\ OwnKey(d)'
  <2>1. \A r \in Rows : wrote'[c][r] # None =>
           wrote[c][r] # None \/ row[r] # "absent" \/ (tx[c].stage = "insert" /\ r = tx[c].cur)
    BY <1>6
  <2> QED
    BY <1>3, <1>4, <1>6, <2>1, OtherBatches
<1> QED
  BY <1>9, <1>11, <1>12, <1>13, <1>14 DEF Accepted

\* A session with nothing in it.
LEMMA NothingLeft ==
    ASSUME NEW c \in Clients, tx'[c] = NoTransaction, \A r \in Rows : wrote'[c][r] = None
    PROVE  BatchWrites(c)' /\ OwnKey(c)'
  BY DEF BatchWrites, OwnKey, NoTransaction, BatchStages

\* A commit accepts a new URL once.
LEMMA CommitAccepted ==
    ASSUME TypeOK, KeysOK, AllPrepared, Accepted, NEW c \in Clients, Commit(c)
    PROVE  Accepted'
<1>1. /\ row' = View(c) /\ jobDoc' = jobDoc
      /\ \A j \in Jobs : jobStatus'[j] = IF j \in tx[c].added THEN "live" ELSE jobStatus[j]
      /\ reopened' = reopened \cup {r \in Rows : wrote[c][r] = "deleted"}
  BY DEF Commit
<1>2. \A d \in Clients : /\ tx'[d] = IF d = c THEN NoTransaction ELSE tx[d]
                         /\ d # c => wrote'[d] = wrote[d]
  BY DEF Commit, Goes, Unlocks, TypeOK
<1>3. \A r \in Rows : wrote'[c][r] = None
  BY DEF Commit, Unlocks, TypeOK
<1>4. \A r \in Rows : row'[r] = row[r] \/ (wrote[c][r] # None /\ row'[r] # "absent")
  BY <1>1 DEF View, AllPrepared, PreparedOK
<1>5. \A r \in Rows : row'[r] = "absent" => row[r] = "absent" /\ wrote[c][r] = None
  BY <1>1 DEF View, AllPrepared, PreparedOK
<1>6. \A r \in Rows : JobsOf(r)' = JobsOf(r)
  BY <1>1 DEF JobsOf, KeysOK
<1>7. History'
  BY <1>1 DEF Accepted, History, View
<1>8. OneJob'
  <2>1. ASSUME NEW r \in Rows, row'[r] = "absent", NEW i \in JobsOf(r)'
        PROVE  \E d \in Clients : i \in tx'[d].added /\ wrote'[d][r] = "active"
    <3>1. PICK d \in Clients : i \in tx[d].added /\ wrote[d][r] = "active"
      BY <1>5, <1>6, <2>1 DEF Accepted, OneJob
    <3>2. d # c
      BY <1>5, <2>1, <3>1, RegistryAssumption
    <3> QED
      BY <1>2, <3>1, <3>2
  <2>2. \A r \in Rows \ reopened' : \A i, k \in JobsOf(r)' : i = k
    BY <1>1, <1>6 DEF Accepted, OneJob
  <2> QED
    BY <2>1, <2>2 DEF OneJob
<1>9. tx'[c].cur = 0
  BY <1>2 DEF NoTransaction
<1>10. \A d \in Clients \ {c} : BatchWrites(d)' /\ OwnKey(d)'
  BY <1>2, <1>3, <1>4, <1>9, OtherBatches
<1>11. BatchWrites(c)' /\ OwnKey(c)'
  BY <1>2, <1>3, NothingLeft
<1> QED
  BY <1>7, <1>8, <1>10, <1>11 DEF Accepted

\* A rollback leaves what was accepted.
LEMMA RollbackAccepted ==
    ASSUME TypeOK, KeysOK, Accepted, NEW c \in Clients, Rollback(c)
    PROVE  Accepted'
<1>1. /\ row' = row /\ reopened' = reopened
      /\ \A j \in Jobs \ tx[c].added : jobDoc'[j] = jobDoc[j] /\ jobStatus'[j] = jobStatus[j]
      /\ \A j \in Jobs \cap tx[c].added : jobStatus'[j] = "void"
  BY DEF Rollback, NotCommitted
<1>2. \A d \in Clients : /\ tx'[d] = IF d = c THEN NoTransaction ELSE tx[d]
                         /\ d # c => wrote'[d] = wrote[d]
  BY DEF Rollback, Goes, Unlocks, TypeOK
<1>3. \A r \in Rows : wrote'[c][r] = None
  BY DEF Rollback, Unlocks, TypeOK
<1>4. \A r \in Rows : JobsOf(r)' = JobsOf(r) \ tx[c].added
  BY <1>1 DEF JobsOf
<1>5. History'
  BY <1>1 DEF Accepted, History
<1>6. OneJob'
  <2>1. ASSUME NEW r \in Rows, row[r] = "absent", NEW i \in JobsOf(r)'
        PROVE  \E d \in Clients : i \in tx'[d].added /\ wrote'[d][r] = "active"
    <3>1. PICK d \in Clients : i \in tx[d].added /\ wrote[d][r] = "active"
      BY <1>4, <2>1 DEF Accepted, OneJob
    <3>2. d # c
      BY <1>4, <2>1, <3>1
    <3> QED
      BY <1>2, <3>1, <3>2
  <2>2. \A r \in Rows \ reopened : \A i, k \in JobsOf(r)' : i = k
    BY <1>4 DEF Accepted, OneJob
  <2> QED
    BY <1>1, <2>1, <2>2 DEF OneJob
<1>7. tx'[c].cur = 0
  BY <1>2 DEF NoTransaction
<1>8. \A d \in Clients \ {c} : BatchWrites(d)' /\ OwnKey(d)'
  BY <1>1, <1>2, <1>3, <1>7, OtherBatches
<1>9. BatchWrites(c)' /\ OwnKey(c)'
  BY <1>2, <1>3, NothingLeft
<1> QED
  BY <1>5, <1>6, <1>8, <1>9 DEF Accepted

\* What a request that begins does to the sessions.
LEMMA BeginsEffect ==
    ASSUME TypeOK, NEW c \in Clients, NEW t \in Transactions, Begins(c, t)
    PROVE  /\ UNCHANGED <<row, docset, jobDoc, jobStatus, wrote, wroteDocset, reopened>> /\ tx[c].stage = "idle"
           /\ \A d \in Clients \ {c} :
                 /\ tx'[d].dirty = tx[d].dirty /\ tx'[d].stage = tx[d].stage /\ tx'[d].todo = tx[d].todo
                 /\ tx'[d].cur = tx[d].cur /\ tx'[d].added = tx[d].added /\ tx'[d].url = tx[d].url
                 /\ tx'[d].alone = FALSE
           /\ tx'[c].dirty = t.dirty /\ tx'[c].stage = t.stage /\ tx'[c].todo = t.todo
           /\ tx'[c].cur = t.cur /\ tx'[c].added = t.added /\ tx'[c].url = t.url
           /\ tx'[c].late = t.late /\ tx'[c].loaded = t.loaded /\ tx'[c].counted = t.counted
           /\ tx'[c].alone => \A e \in Clients \ {c} : tx[e].stage = "idle"
<1> DEFINE other == \A e \in Clients \ {c} : tx[e].stage = "idle"
           joined(d) == [tx[d] EXCEPT !.alone = FALSE, !.late = {}]
<1>1. other \in BOOLEAN /\ (other => \A e \in Clients \ {c} : tx[e].stage = "idle")
  OBVIOUS
<1>2. /\ tx[c].stage = "idle" /\ Reads
      /\ tx' = [d \in Clients |-> IF d = c THEN [t EXCEPT !.alone = other] ELSE joined(d)]
  BY DEF Begins
<1>3. ASSUME NEW d \in Clients
      PROVE  /\ joined(d).dirty = tx[d].dirty /\ joined(d).stage = tx[d].stage /\ joined(d).todo = tx[d].todo
             /\ joined(d).cur = tx[d].cur /\ joined(d).added = tx[d].added /\ joined(d).url = tx[d].url
             /\ joined(d).alone = FALSE
  BY DEF TypeOK, Transactions
<1> HIDE DEF other, joined
<1>4. tx'[c] = [t EXCEPT !.alone = other]
  BY <1>2
<1>5. \A d \in Clients \ {c} : tx'[d] = joined(d)
  BY <1>2
<1>6. Reads
  BY <1>2
<1>7. /\ tx'[c].dirty = t.dirty /\ tx'[c].stage = t.stage /\ tx'[c].todo = t.todo
      /\ tx'[c].cur = t.cur /\ tx'[c].added = t.added /\ tx'[c].url = t.url
      /\ tx'[c].late = t.late /\ tx'[c].loaded = t.loaded /\ tx'[c].counted = t.counted
      /\ tx'[c].alone = other
  BY <1>1, <1>4 DEF Transactions
<1> QED
  BY <1>1, <1>2, <1>3, <1>5, <1>6, <1>7 DEF Reads

\* A request begins with nothing written, and may name a document that is in the table.
LEMMA BeginsAccepted ==
    ASSUME TypeOK, KeysOK, AllPrepared, Accepted, NEW c \in Clients, NEW t \in Transactions, Begins(c, t),
           t.dirty = {}, t.added = {}, t.stage \notin {"latest", "lookup", "insert"},
           t.cur \in Rows \cup {0}, t.cur \in Rows => row[t.cur] = "active", t.stage = "mark" => t.cur \in Rows
    PROVE  Accepted'
<1>1. UNCHANGED <<row, jobDoc, jobStatus, wrote, reopened>>
  BY BeginsEffect
<1>2. \A d \in Clients \ {c} :
         /\ tx'[d].dirty = tx[d].dirty /\ tx'[d].stage = tx[d].stage /\ tx'[d].todo = tx[d].todo
         /\ tx'[d].cur = tx[d].cur /\ tx'[d].added = tx[d].added /\ tx'[d].url = tx[d].url
  BY BeginsEffect
<1>3. tx'[c].dirty = {} /\ tx'[c].stage = t.stage /\ tx'[c].cur = t.cur
  BY BeginsEffect
<1>4. \A r \in Rows : wrote[c][r] = None
  <2>1. tx[c].stage = "idle"
    BY BeginsEffect
  <2> QED
    BY <2>1 DEF AllPrepared, PreparedOK
<1>5. History'
  BY <1>1 DEF Accepted, History
<1>6. OneJob'
  <2>1. \A r \in Rows : JobsOf(r)' = JobsOf(r)
    BY <1>1 DEF JobsOf
  <2>2. ASSUME NEW r \in Rows, row[r] = "absent", NEW i \in JobsOf(r)
        PROVE  \E d \in Clients : i \in tx'[d].added /\ wrote[d][r] = "active"
    <3>1. PICK d \in Clients : i \in tx[d].added /\ wrote[d][r] = "active"
      BY <2>2 DEF Accepted, OneJob
    <3>2. d # c
      BY <1>4, <2>2, <3>1, RegistryAssumption
    <3> QED
      BY <1>2, <3>1, <3>2
  <2> QED
    BY <1>1, <2>1, <2>2 DEF Accepted, OneJob
<1>7. BatchWrites(c)' /\ OwnKey(c)'
  BY <1>1, <1>3, <1>4 DEF BatchWrites, OwnKey
<1>8. \A d \in Clients \ {c} : BatchWrites(d)' /\ OwnKey(d)'
  BY <1>1, <1>2, <1>3, <1>4, OtherBatches
<1> QED
  BY <1>5, <1>6, <1>7, <1>8 DEF Accepted

\* The worker writes a status.
LEMMA WorkAccepted ==
    ASSUME TypeOK, KeysOK, Accepted, NEW j \in Jobs, NEW s \in {"live", "FAILED"}, Work(j, s)
    PROVE  Accepted'
<1>1. UNCHANGED <<row, jobDoc, wrote, tx>> /\ jobStatus[j] \in {"live", "FAILED"}
  BY DEF Work
<1>2. \A i \in Jobs : jobStatus'[i] = IF i = j THEN s ELSE jobStatus[i]
  BY DEF Work, TypeOK
<1>3. reopened' = IF s = "FAILED" THEN reopened \cup {jobDoc[j]} ELSE reopened
  BY DEF Work
<1>4. \A r \in Rows : JobsOf(r)' = JobsOf(r)
  BY <1>1, <1>2 DEF JobsOf
<1>5. History'
  BY <1>1, <1>2, <1>3 DEF Accepted, History
<1>6. OneJob'
  BY <1>1, <1>3, <1>4 DEF Accepted, OneJob
<1>7. \A c \in Clients : BatchWrites(c)' /\ OwnKey(c)'
  BY <1>1 DEF Accepted, BatchWrites, OwnKey
<1> QED
  BY <1>5, <1>6, <1>7 DEF Accepted

\* A set of numbers has a least one.
LEMMA Least ==
    ASSUME NEW S \in SUBSET Nat, S # {}
    PROVE  \E m \in S : \A k \in S : m <= k
<1>1. IsWellFoundedOn(OpToRel(<, Nat), Nat)
  BY NatLessThanWellFounded
<1>2. \E m \in S : \A k \in S : ~(<<k, m>> \in OpToRel(<, Nat))
  BY <1>1, WFMin, Zenon
<1>3. \A k, m \in Nat : k < m => <<k, m>> \in OpToRel(<, Nat)
  BY DEF OpToRel
<1>4. \E m \in S : \A k \in S : ~(k < m)
  BY <1>2, <1>3, Zenon
<1> QED
  BY <1>4

\* A document with a committed job has a latest one.
LEMMA SomeLatestJob ==
    ASSUME NEW r \in Rows, CommittedJobs(r) # {}
    PROVE  LatestJob(r) # {}
<1> DEFINE J == CommittedJobs(r)
           S == {k \in Nat : MaxJobs - k \in J}
<1>1. J \subseteq Jobs /\ MaxJobs \in Nat
  BY RegistryAssumption DEF CommittedJobs
<1>2. \A j \in J : j \in Nat /\ MaxJobs - j \in S
  BY <1>1 DEF Jobs
<1> HIDE DEF J
<1>3. S \in SUBSET Nat /\ S # {}
  BY <1>2 DEF J
<1> HIDE DEF S
<1>4. PICK m \in S : \A k \in S : m <= k
  BY <1>3, Least
<1>5. m \in Nat /\ MaxJobs - m \in J
  BY <1>4 DEF S
<1>6. \A j \in J : j <= MaxJobs - m
  BY <1>1, <1>2, <1>4, <1>5
<1> QED
  BY <1>5, <1>6 DEF LatestJob, J

\* A statement of a request, or its end.
LEMMA StatementAccepted ==
    ASSUME TypeOK, KeysOK, AllPrepared, DocumentsHaveJobs, Accepted,
           NEW c \in Clients, Statement(c) \/ Abort(c)
    PROVE  Accepted'
<1>1. CASE Rollback(c)
  BY <1>1, RollbackAccepted
<1>2. CASE Commit(c)
  BY <1>2, CommitAccepted
<1>3. /\ \A r \in tx[c].dirty : row[r] # "absent"
      /\ tx[c].stage \in {"latest", "lookup", "insert"} => tx[c].url \in tx[c].todo
      /\ tx[c].stage \in {"latest", "mark"} => row[tx[c].cur] # "absent"
      /\ tx[c].stage \in BatchStages => \A r \in Rows : wrote[c][r] \in {None, "active"}
      /\ \A r \in Rows : wrote[c][r] # None /\ row[r] = "absent" => UrlOf[r] \notin tx[c].todo
  BY DEF Accepted, BatchWrites
\* A statement that only moves on, or flushes the docset.
<1>4. ASSUME NEW t \in Transactions, Goes(c, t), NoJob, row' = row, reopened' = reopened, wrote' = wrote,
             t.stage \in BatchStages <=> tx[c].stage \in BatchStages,
             t.stage \notin {"mark", "latest", "lookup", "insert"}, t.added = tx[c].added,
             t.todo \subseteq tx[c].todo, t.dirty \subseteq tx[c].dirty, t.cur \in {0, tx[c].cur}
      PROVE  Accepted'
  <2>1. Follows(c, t)
    BY <1>3, <1>4 DEF Follows
  <2> QED
    BY <1>4, <2>1, QuietAccepted
<1>5. CASE ReadDocset(c)
  <2> DEFINE g == IF docset.state = "absent" THEN "create"
                  ELSE IF docset.state = "pruned" THEN "revive"
                  ELSE "item"
             t == [tx[c] EXCEPT !.loaded = docset.count, !.stage = g]
  <2>1. g \in {"create", "revive", "item"} /\ docset.count \in Nat
    BY DEF TypeOK, DocsetRows
  <2> HIDE DEF g
  <2>2. /\ t \in Transactions /\ t.added = tx[c].added /\ t.stage = g /\ t.dirty = tx[c].dirty
        /\ t.cur = tx[c].cur /\ t.todo = tx[c].todo
    BY <2>1, TxType DEF Transactions, Stages
  <2>3. Goes(c, t) /\ Reads /\ tx[c].stage = "docset"
    BY <1>5 DEF ReadDocset, g
  <2> HIDE DEF t
  <2> QED
    BY <1>4, <2>1, <2>2, <2>3 DEF Reads, NoJob, BatchStages
<1>6. CASE CreateDocset(c) \/ ReviveDocset(c)
  <2> DEFINE t == [tx[c] EXCEPT !.stage = "item"]
  <2>1. /\ t \in Transactions /\ t.added = tx[c].added /\ t.stage = "item" /\ t.dirty = tx[c].dirty
        /\ t.cur = tx[c].cur /\ t.todo = tx[c].todo
    BY TxType DEF Transactions, Stages
  <2> HIDE DEF t
  <2>2. Goes(c, t) /\ NoJob /\ NotCommitted /\ wrote' = wrote /\ tx[c].stage \in {"create", "revive"}
    BY <1>6 DEF CreateDocset, ReviveDocset, t
  <2> QED
    BY <1>4, <2>1, <2>2 DEF NotCommitted, BatchStages
<1>7. CASE InspectActive(c)
  <2> DEFINE l(u) == [tx[c] EXCEPT !.stage = "lookup", !.url = u]
             f(u, r) == [tx[c] EXCEPT !.stage = "latest", !.url = u, !.cur = r]
  <2>1. PICK u \in tx[c].todo :
           Goes(c, l(u)) \/ \E r \in Active(View(c)) : UrlOf[r] = u /\ Goes(c, f(u, r))
    BY <1>7 DEF InspectActive
  <2>2. Reads /\ tx[c].stage = "item" /\ u \in Urls
    BY <1>7, TxType DEF InspectActive
  <2>3. CASE Goes(c, l(u))
    <3>1. /\ l(u) \in Transactions /\ l(u).added = tx[c].added /\ l(u).stage = "lookup" /\ l(u).url = u
          /\ l(u).dirty = tx[c].dirty /\ l(u).cur = tx[c].cur /\ l(u).todo = tx[c].todo
      BY <2>2, TxType DEF Transactions, Stages
    <3> HIDE DEF l
    <3>2. Follows(c, l(u))
      BY <1>3, <2>2, <3>1 DEF Follows, BatchStages
    <3> QED
      BY <2>2, <2>3, <3>1, <3>2, QuietAccepted DEF Reads, NoJob
  <2>4. ASSUME NEW r \in Active(View(c)), UrlOf[r] = u, Goes(c, f(u, r)) PROVE Accepted'
    <3>1. r \in Rows /\ row[r] # "absent"
      BY <1>3, <2>4, RegistryAssumption DEF Active, View
    <3>2. /\ f(u, r) \in Transactions /\ f(u, r).added = tx[c].added /\ f(u, r).stage = "latest"
          /\ f(u, r).url = u /\ f(u, r).dirty = tx[c].dirty /\ f(u, r).cur = r /\ f(u, r).todo = tx[c].todo
      BY <2>2, <3>1, TxType DEF Transactions, Stages
    <3> HIDE DEF f
    <3>3. Follows(c, f(u, r))
      BY <1>3, <2>2, <3>1, <3>2 DEF Follows, BatchStages
    <3> QED
      BY <2>2, <2>4, <3>2, <3>3, QuietAccepted DEF Reads, NoJob
  <2> QED
    BY <2>1, <2>3, <2>4
<1> DEFINE n == NextItem(c)
<1>8. /\ n \in Transactions /\ n.added = tx[c].added /\ n.stage = "item" /\ n.dirty = tx[c].dirty
      /\ n.todo = tx[c].todo \ {tx[c].url} /\ n.cur \in {0}
  <2>1. n.todo = tx[c].todo \ {tx[c].url} /\ n.cur \in {0}
    BY TxType DEF NextItem, Transactions
  <2> QED
    BY <2>1, NextItemType
<1> HIDE DEF n
<1>9. CASE InspectJob(c)
  <2>1. /\ tx[c].cur \in Rows /\ row' = row /\ wrote' = wrote /\ reopened' = reopened
        /\ tx[c].stage = "latest" /\ row[tx[c].cur] # "absent" /\ tx[c].stage \in BatchStages
        /\ \/ Accept(c, tx[c].cur, n) /\ Retries(tx[c].cur)
           \/ Goes(c, n) /\ NoJob
    BY <1>3, <1>9 DEF InspectJob, NotCommitted, KeysOK, CurKnown, BatchStages, n
  <2>2. CASE Accept(c, tx[c].cur, n) /\ Retries(tx[c].cur)
    <3>1. CommittedJobs(tx[c].cur) # {}
      BY <2>1 DEF DocumentsHaveJobs
    <3>2. PICK j \in LatestJob(tx[c].cur) : TRUE
      BY <2>1, <3>1, SomeLatestJob
    <3>3. jobStatus[j] = "FAILED" /\ jobDoc[j] = tx[c].cur /\ j \in Jobs
      BY <2>2, <3>2 DEF Retries, LatestJob, CommittedJobs
    <3>4. tx[c].cur \in reopened
      BY <3>3 DEF Accepted, History
    <3> QED
      BY <1>3, <1>8, <2>1, <2>2, <3>4, AcceptAccepted
  <2>3. CASE Goes(c, n) /\ NoJob
    BY <1>4, <1>8, <2>1, <2>3 DEF BatchStages
  <2> QED
    BY <2>1, <2>2, <2>3
<1>10. CASE InspectDeleted(c)
  <2> DEFINE a(r) == [n EXCEPT !.dirty = @ \cup {r}]
             i(r) == [tx[c] EXCEPT !.stage = "insert", !.cur = r]
  <2>1. /\ row' = row /\ wrote' = wrote /\ reopened' = reopened
        /\ tx[c].stage = "lookup" /\ tx[c].stage \in BatchStages
    BY <1>10 DEF InspectDeleted, NotCommitted, BatchStages
  <2>2. \/ \E r \in Rows : View(c)[r] = "deleted" /\ Accept(c, r, a(r))
        \/ \E r \in FreeKeys(tx[c].url) : Goes(c, i(r)) /\ NoJob
    BY <1>10 DEF InspectDeleted, n
  <2>3. ASSUME NEW r \in Rows, View(c)[r] = "deleted", Accept(c, r, a(r)) PROVE Accepted'
    <3>1. row[r] = "deleted"
      BY <1>3, <2>1, <2>3 DEF View
    <3>2. r \in reopened
      BY <3>1 DEF Accepted, History
    <3>3. /\ a(r) \in Transactions /\ a(r).added = n.added /\ a(r).stage = n.stage
          /\ a(r).dirty = n.dirty \cup {r} /\ a(r).todo = n.todo /\ a(r).cur = n.cur
      BY <1>8 DEF Transactions
    <3> HIDE DEF a
    <3>4. \A s \in a(r).dirty : row[s] # "absent"
      BY <1>3, <1>8, <3>1, <3>3
    <3> QED
      BY <1>8, <2>1, <2>3, <3>1, <3>2, <3>3, <3>4, AcceptAccepted
  <2>4. ASSUME NEW r \in FreeKeys(tx[c].url), Goes(c, i(r)), NoJob PROVE Accepted'
    <3>1. r \in Rows
      BY DEF FreeKeys
    <3>2. /\ i(r) \in Transactions /\ i(r).added = tx[c].added /\ i(r).stage = "insert"
          /\ i(r).dirty = tx[c].dirty /\ i(r).todo = tx[c].todo /\ i(r).cur = r /\ i(r).url = tx[c].url
      BY <3>1, TxType DEF Transactions, Stages
    <3> HIDE DEF i
    <3>3. Follows(c, i(r))
      BY <1>3, <2>1, <3>2 DEF Follows, BatchStages
    <3> QED
      BY <2>1, <2>4, <3>2, <3>3, QuietAccepted
  <2> QED
    BY <2>2, <2>3, <2>4
<1>11. CASE FlushDocument(c)
  <2>1. PICK r \in NextWrite(c) :
           /\ FlushesRow(c, r, IF Activates(c) THEN "active" ELSE "deleted")
           /\ Goes(c, [tx[c] EXCEPT !.dirty = @ \ {r}])
    BY <1>11 DEF FlushDocument
  <2> DEFINE t == [tx[c] EXCEPT !.dirty = @ \ {r}]
  <2>2. /\ t \in Transactions /\ t.added = tx[c].added /\ t.stage = tx[c].stage /\ t.dirty \subseteq tx[c].dirty
        /\ t.cur = tx[c].cur /\ t.todo = tx[c].todo /\ t.url = tx[c].url
    BY TxType DEF Transactions
  <2>3. r \in Rows /\ r \in tx[c].dirty /\ tx[c].stage \in {"insert", "rows", "markAll"}
    BY <1>11, TxType DEF NextWrite, FlushDocument
  <2>4. NoJob /\ row' = row /\ reopened' = reopened /\ Goes(c, t)
    BY <1>11, <2>1 DEF FlushDocument, NotCommitted
  <2>5. Activates(c) <=> tx[c].stage \in BatchStages
    BY <2>3 DEF Activates, BatchStages
  <2> HIDE DEF t
  <2>6. Follows(c, t)
    BY <1>3, <2>2, <2>3 DEF Follows
  <2>7. FlushesRow(c, r, IF tx[c].stage \in BatchStages THEN "active" ELSE "deleted") /\ row[r] # "absent"
    BY <1>3, <2>1, <2>3, <2>5
  <2> QED
    BY <2>2, <2>3, <2>4, <2>6, <2>7, QuietAccepted
<1>12. CASE InsertDocument(c)
  <2>1. /\ tx[c].cur \in Rows /\ FlushesRow(c, tx[c].cur, "active") /\ Accept(c, tx[c].cur, n)
        /\ row' = row /\ reopened' = reopened /\ tx[c].stage = "insert" /\ tx[c].stage \in BatchStages
    BY <1>12 DEF InsertDocument, NotCommitted, KeysOK, CurKnown, BatchStages, n
  <2>2. UrlOf[tx[c].cur] \notin n.todo
    BY <1>8, <2>1 DEF Accepted, OwnKey
  <2> QED
    BY <1>3, <1>8, <2>1, <2>2, AcceptAccepted
<1>13. CASE CountActive(c)
  <2> DEFINE m == Cardinality(Active(View(c)))
             l == IF tx[c].alone THEN tx[c].dirty ELSE {}
             t == [tx[c] EXCEPT !.counted = m, !.late = l, !.stage = "totals"]
  <2>1. m \in Nat /\ l \subseteq Rows
    BY CountIsNat, TxType
  <2> HIDE DEF m, l
  <2>2. /\ t \in Transactions /\ t.added = tx[c].added /\ t.stage = "totals" /\ t.dirty = tx[c].dirty
        /\ t.cur = tx[c].cur /\ t.todo = tx[c].todo
    BY <2>1, TxType DEF Transactions, Stages
  <2>3. Goes(c, t) /\ Reads /\ tx[c].stage = "item"
    BY <1>13 DEF CountActive, m, l
  <2> HIDE DEF t
  <2> QED
    BY <1>4, <2>2, <2>3 DEF Reads, NoJob, BatchStages
<1>14. CASE WriteTotals(c)
  <2> DEFINE t == [tx[c] EXCEPT !.stage = "rows", !.counted = 0, !.loaded = 0]
  <2>1. /\ t \in Transactions /\ t.added = tx[c].added /\ t.stage = "rows" /\ t.dirty = tx[c].dirty
        /\ t.cur = tx[c].cur /\ t.todo = tx[c].todo
    BY TxType DEF Transactions, Stages
  <2> HIDE DEF t
  <2>2. Goes(c, t) /\ NoJob /\ NotCommitted /\ wrote' = wrote /\ tx[c].stage = "totals"
    BY <1>14 DEF WriteTotals, t
  <2> QED
    BY <1>4, <2>1, <2>2 DEF NotCommitted, BatchStages
<1>15. CASE MarkDeleted(c)
  <2> DEFINE t == [tx[c] EXCEPT !.stage = "find"]
  <2>1. /\ t \in Transactions /\ t.added = tx[c].added /\ t.stage = "find" /\ t.dirty = tx[c].dirty
        /\ t.cur = tx[c].cur /\ t.todo = tx[c].todo
    BY TxType DEF Transactions, Stages
  <2> HIDE DEF t
  <2>2. /\ Goes(c, t) /\ NoJob /\ NotCommitted /\ tx[c].stage = "mark" /\ tx[c].stage \notin BatchStages
        /\ tx[c].cur \in Rows /\ FlushesRow(c, tx[c].cur, "deleted")
    BY <1>15 DEF MarkDeleted, KeysOK, CurKnown, BatchStages, t
  <2>3. Follows(c, t)
    BY <1>3, <2>1, <2>2 DEF Follows, BatchStages
  <2> QED
    BY <1>3, <2>1, <2>2, <2>3, QuietAccepted DEF NotCommitted
<1>16. CASE FindDocset(c)
  <2> DEFINE t == [tx[c] EXCEPT !.loaded = docset.count, !.stage = "count"]
  <2>1. docset.count \in Nat
    BY DEF TypeOK, DocsetRows
  <2>2. /\ t \in Transactions /\ t.added = tx[c].added /\ t.stage = "count" /\ t.dirty = tx[c].dirty
        /\ t.cur = tx[c].cur /\ t.todo = tx[c].todo
    BY <2>1, TxType DEF Transactions, Stages
  <2> HIDE DEF t
  <2>3. Goes(c, t) /\ Reads /\ tx[c].stage = "find"
    BY <1>16 DEF FindDocset, t
  <2> QED
    BY <1>4, <2>2, <2>3 DEF Reads, NoJob, BatchStages
<1>17. CASE CountRemaining(c)
  <2> DEFINE m == Cardinality(Active(View(c)))
             t == [tx[c] EXCEPT !.counted = m, !.stage = "prune"]
  <2>1. m \in Nat
    BY CountIsNat
  <2> HIDE DEF m
  <2>2. /\ t \in Transactions /\ t.added = tx[c].added /\ t.stage = "prune" /\ t.dirty = tx[c].dirty
        /\ t.cur = tx[c].cur /\ t.todo = tx[c].todo
    BY <2>1, TxType DEF Transactions, Stages
  <2>3. Goes(c, t) /\ Reads /\ tx[c].stage = "count"
    BY <1>17 DEF CountRemaining, m
  <2> HIDE DEF t
  <2> QED
    BY <1>4, <2>2, <2>3 DEF Reads, NoJob, BatchStages
<1>18. CASE Prune(c)
  <2> DEFINE t == [tx[c] EXCEPT !.stage = "markAll", !.cur = 0, !.counted = 0, !.loaded = 0]
  <2>1. /\ t \in Transactions /\ t.added = tx[c].added /\ t.stage = "markAll" /\ t.dirty = tx[c].dirty
        /\ t.cur \in {0} /\ t.todo = tx[c].todo
    BY TxType DEF Transactions, Stages
  <2> HIDE DEF t
  <2>2. Goes(c, t) /\ NoJob /\ NotCommitted /\ wrote' = wrote /\ tx[c].stage = "prune"
    BY <1>18 DEF Prune, t
  <2> QED
    BY <1>4, <2>1, <2>2 DEF NotCommitted, BatchStages
<1>19. CASE SelectMembers(c)
  <2> DEFINE t == [tx[c] EXCEPT !.dirty = Active(row), !.stage = "discard"]
  <2>1. /\ t \in Transactions /\ t.added = tx[c].added /\ t.stage = "discard" /\ t.dirty = Active(row)
        /\ t.cur = tx[c].cur /\ t.todo = tx[c].todo
    BY TxType DEF Transactions, Stages, Active
  <2> HIDE DEF t
  <2>2. Goes(c, t) /\ Reads /\ tx[c].stage = "members"
    BY <1>19 DEF SelectMembers, t
  <2>3. Follows(c, t)
    BY <2>1, <2>2 DEF Follows, BatchStages, Active
  <2> QED
    BY <2>1, <2>2, <2>3, QuietAccepted DEF Reads, NoJob
<1>20. CASE DiscardDocset(c)
  <2> DEFINE t == [tx[c] EXCEPT !.stage = "markAll", !.loaded = 0]
  <2>1. /\ t \in Transactions /\ t.added = tx[c].added /\ t.stage = "markAll" /\ t.dirty = tx[c].dirty
        /\ t.cur = tx[c].cur /\ t.todo = tx[c].todo
    BY TxType DEF Transactions, Stages
  <2> HIDE DEF t
  <2>2. Goes(c, t) /\ NoJob /\ NotCommitted /\ wrote' = wrote /\ tx[c].stage = "discard"
    BY <1>20 DEF DiscardDocset, t
  <2> QED
    BY <1>4, <2>1, <2>2 DEF NotCommitted, BatchStages
<1> QED
  BY <1>1, <1>2, <1>5, <1>6, <1>7, <1>9, <1>10, <1>11, <1>12, <1>13, <1>14, <1>15, <1>16, <1>17,
     <1>18, <1>19, <1>20 DEF Statement, Abort, Refused, DeadlockVictim, GiveUp

\* Every step keeps a new URL accepted once.
LEMMA StepAccepted ==
    TypeOK /\ KeysOK /\ AllPrepared /\ DocumentsHaveJobs /\ Accepted /\ [Next]_vars => Accepted'
<1> SUFFICES ASSUME TypeOK, KeysOK, AllPrepared, DocumentsHaveJobs, Accepted, [Next]_vars PROVE Accepted'
  OBVIOUS
<1>1. ASSUME NEW c \in Clients, NEW S \in SUBSET Urls, SubmitBatch(c, S) PROVE Accepted'
  <2> DEFINE t == [NoTransaction EXCEPT !.stage = "docset", !.todo = S]
  <2>1. t \in Transactions /\ t.dirty = {} /\ t.added = {} /\ t.stage = "docset" /\ t.cur \in {0}
    BY DEF NoTransaction, Transactions, Stages
  <2> HIDE DEF t
  <2>2. Begins(c, t) /\ t.cur \notin Rows
    BY <1>1, <2>1, RegistryAssumption DEF SubmitBatch, t
  <2> QED
    BY <2>1, <2>2, BeginsAccepted
<1>2. ASSUME NEW c \in Clients, NEW r \in Rows, DeleteDocument(c, r) PROVE Accepted'
  <2> DEFINE t == [NoTransaction EXCEPT !.stage = "mark", !.cur = r]
  <2>1. t \in Transactions /\ t.dirty = {} /\ t.added = {} /\ t.stage = "mark" /\ t.cur = r
    BY DEF NoTransaction, Transactions, Stages
  <2> HIDE DEF t
  <2>2. Begins(c, t) /\ row[r] = "active"
    BY <1>2 DEF DeleteDocument, t
  <2> QED
    BY <2>1, <2>2, BeginsAccepted
<1>3. ASSUME NEW c \in Clients, DeleteDocset(c) PROVE Accepted'
  <2> DEFINE t == [NoTransaction EXCEPT !.stage = "members", !.loaded = docset.count]
  <2>1. t \in Transactions /\ t.dirty = {} /\ t.added = {} /\ t.stage = "members" /\ t.cur \in {0}
    <3>1. docset.count \in Nat
      BY DEF TypeOK, DocsetRows
    <3> QED
      BY <3>1 DEF NoTransaction, Transactions, Stages
  <2> HIDE DEF t
  <2>2. Begins(c, t) /\ t.cur \notin Rows
    BY <1>3, <2>1, RegistryAssumption DEF DeleteDocset, t
  <2> QED
    BY <2>1, <2>2, BeginsAccepted
<1>4. ASSUME NEW c \in Clients, Statement(c) \/ Abort(c) PROVE Accepted'
  BY <1>4, StatementAccepted
<1>5. ASSUME NEW j \in Jobs, NEW s \in {"live", "FAILED"}, Work(j, s) PROVE Accepted'
  BY <1>5, WorkAccepted
<1>6. CASE UNCHANGED vars
  BY <1>6 DEF vars, Accepted, History, OneJob, JobsOf, BatchWrites, OwnKey
<1> QED
  BY <1>1, <1>2, <1>3, <1>4, <1>5, <1>6 DEF Next, Request

\* Nothing is accepted in the beginning.
LEMMA InitAccepted == Init => Accepted
<1> SUFFICES ASSUME Init PROVE Accepted
  OBVIOUS
<1>1. PICK gone \in Earlier \cup {0} :
         /\ row = [r \in Rows |-> IF r = gone THEN "deleted" ELSE "absent"]
         /\ jobDoc = [j \in Jobs |-> IF j = 0 THEN gone ELSE 0]
         /\ jobStatus = [j \in Jobs |-> IF j # 0 THEN "none" ELSE IF gone = 0 THEN "void" ELSE "live"]
         /\ reopened = {gone} \ {0}
  BY DEF Init
<1>2. \A c \in Clients : tx[c] = NoTransaction /\ \A r \in Rows : wrote[c][r] = None
  BY DEF Init
<1>3. \A c \in Clients : BatchWrites(c) /\ OwnKey(c)
  BY <1>2 DEF BatchWrites, OwnKey, NoTransaction, BatchStages
<1>4. History
  BY <1>1, RegistryAssumption DEF History
<1>5. OneJob
  <2>1. \A r \in Rows : \A j \in JobsOf(r) : j = 0 /\ r = gone
    BY <1>1, RegistryAssumption DEF JobsOf
  <2>2. \A r \in Rows : \A j \in JobsOf(r) : row[r] # "absent"
    BY <1>1, <2>1
  <2> QED
    BY <2>1, <2>2 DEF OneJob
<1> QED
  BY <1>3, <1>4, <1>5 DEF Accepted

\* What the parts of the invariant say together of one document.
LEMMA AcceptedOnce ==
    TypeOK /\ Unique /\ DocumentsHaveJobs /\ Accepted => NewUrlAcceptedOnce
<1> SUFFICES ASSUME TypeOK, Unique, DocumentsHaveJobs, Accepted, NEW r \in Rows \ reopened, row[r] # "absent"
             PROVE  Cardinality(CommittedJobs(r)) = 1 /\ \A s \in SameUrl(r) : row[s] # "active"
  BY DEF NewUrlAcceptedOnce
<1>1. CommittedJobs(r) # {} /\ CommittedJobs(r) \subseteq JobsOf(r)
  BY DEF DocumentsHaveJobs, CommittedJobs, JobsOf
<1>2. PICK j : CommittedJobs(r) = {j}
  BY <1>1 DEF Accepted, OneJob
<1>3. Cardinality(CommittedJobs(r)) = 1
  BY <1>2, FS_Singleton
<1>4. row[r] = "active"
  BY DEF TypeOK, RowStates, Accepted, History
<1>5. \A s \in SameUrl(r) : row[s] # "active"
  BY <1>4 DEF SameUrl, Unique, OneActivePerUrl
<1> QED
  BY <1>3, <1>5

(* However many batches contain a new URL, and in whatever order their      *)
(* statements come, one document and one job come of it, until the document *)
(* is deleted or its job has failed.                                        *)
THEOREM RegistryAcceptsOnce == Spec => []NewUrlAcceptedOnce
<1> DEFINE I == TypeOK /\ KeysOK /\ Unique /\ AllPrepared /\ DocumentsHaveJobs /\ Accepted
<1>1. Init => I
  BY InitType, InitUnique, InitPrepared, InitAccepted
<1>2. I /\ [Next]_vars => I'
  BY StepType, StepUnique, StepPrepared, StepAccepted
<1>3. I => NewUrlAcceptedOnce
  BY AcceptedOnce
<1> QED
  BY <1>1, <1>2, <1>3, PTL DEF Spec

-----------------------------------------------------------------------------
(***************************************************************************)
(* A request that overlaps with no other one.                              *)
(***************************************************************************)

\* How each statement moves its session on.
LEMMA Sessions ==
    ASSUME TypeOK, NEW c \in Clients
    PROVE  /\ ReadDocset(c) \/ CreateDocset(c) \/ ReviveDocset(c) =>
                 /\ tx'[c].todo = tx[c].todo /\ tx'[c].dirty = tx[c].dirty /\ tx'[c].alone = tx[c].alone
                 /\ tx'[c].late = tx[c].late /\ tx'[c].counted = tx[c].counted
           /\ ReadDocset(c) =>
                 /\ tx'[c].loaded = docset.count
                 /\ tx'[c].stage = IF docset.state = "absent" THEN "create"
                                   ELSE IF docset.state = "pruned" THEN "revive" ELSE "item"
           /\ CreateDocset(c) \/ ReviveDocset(c) => tx'[c].loaded = tx[c].loaded /\ tx'[c].stage = "item"
           /\ CountActive(c) =>
                 /\ tx'[c].todo = tx[c].todo /\ tx'[c].dirty = tx[c].dirty /\ tx'[c].alone = tx[c].alone
                 /\ tx'[c].stage = "totals" /\ tx'[c].loaded = tx[c].loaded
                 /\ tx'[c].counted = Cardinality(Active(View(c)))
                 /\ tx[c].alone => tx'[c].late = tx[c].dirty
           /\ WriteTotals(c) =>
                 /\ tx'[c].todo = tx[c].todo /\ tx'[c].dirty = tx[c].dirty /\ tx'[c].alone = tx[c].alone
                 /\ tx'[c].stage = "rows" /\ tx'[c].late = tx[c].late
           /\ FlushDocument(c) =>
                 \E r \in NextWrite(c) :
                    /\ tx'[c].dirty = tx[c].dirty \ {r}
                    /\ tx'[c].todo = tx[c].todo /\ tx'[c].alone = tx[c].alone /\ tx'[c].url = tx[c].url
                    /\ tx'[c].stage = tx[c].stage /\ tx'[c].late = tx[c].late
                    /\ tx'[c].loaded = tx[c].loaded /\ tx'[c].counted = tx[c].counted
                    /\ FlushesRow(c, r, IF Activates(c) THEN "active" ELSE "deleted")
           /\ MarkDeleted(c) \/ FindDocset(c) \/ CountRemaining(c) =>
                 tx'[c].dirty = tx[c].dirty /\ tx'[c].alone = tx[c].alone /\ tx'[c].late = tx[c].late
           /\ MarkDeleted(c) => tx'[c].stage = "find"
           /\ FindDocset(c) => tx'[c].stage = "count" /\ tx'[c].loaded = docset.count
           /\ CountRemaining(c) => /\ tx'[c].stage = "prune" /\ tx'[c].loaded = tx[c].loaded
                                   /\ tx'[c].counted = Cardinality(Active(View(c)))
           /\ SelectMembers(c) => /\ tx'[c].stage = "discard" /\ tx'[c].dirty = Active(row)
                                  /\ tx'[c].alone = tx[c].alone /\ tx'[c].late = tx[c].late
           /\ Prune(c) \/ DiscardDocset(c) =>
                 /\ tx'[c].dirty = tx[c].dirty /\ tx'[c].alone = tx[c].alone /\ tx'[c].late = tx[c].late
                 /\ tx'[c].stage = "markAll"
<1>1. tx[c] \in Transactions
  BY TxType
<1>2. \A t : Goes(c, t) => tx'[c] = t
  BY DEF Goes, TypeOK
<1>3. ReadDocset(c) =>
         /\ tx'[c].todo = tx[c].todo /\ tx'[c].dirty = tx[c].dirty /\ tx'[c].alone = tx[c].alone
         /\ tx'[c].late = tx[c].late /\ tx'[c].counted = tx[c].counted /\ tx'[c].loaded = docset.count
         /\ tx'[c].stage = IF docset.state = "absent" THEN "create"
                           ELSE IF docset.state = "pruned" THEN "revive" ELSE "item"
  <2> DEFINE g == IF docset.state = "absent" THEN "create"
                  ELSE IF docset.state = "pruned" THEN "revive" ELSE "item"
  <2>1. ReadDocset(c) => tx'[c] = [tx[c] EXCEPT !.loaded = docset.count, !.stage = g]
    BY <1>2 DEF ReadDocset
  <2> HIDE DEF g
  <2>2. ReadDocset(c) =>
           /\ tx'[c].todo = tx[c].todo /\ tx'[c].dirty = tx[c].dirty /\ tx'[c].alone = tx[c].alone
           /\ tx'[c].late = tx[c].late /\ tx'[c].counted = tx[c].counted /\ tx'[c].loaded = docset.count
           /\ tx'[c].stage = g
    BY <1>1, <2>1 DEF Transactions
  <2> QED
    BY <2>2 DEF g
<1>4. CreateDocset(c) \/ ReviveDocset(c) =>
         /\ tx'[c].todo = tx[c].todo /\ tx'[c].dirty = tx[c].dirty /\ tx'[c].alone = tx[c].alone
         /\ tx'[c].late = tx[c].late /\ tx'[c].counted = tx[c].counted
         /\ tx'[c].loaded = tx[c].loaded /\ tx'[c].stage = "item"
  BY <1>1, <1>2 DEF CreateDocset, ReviveDocset, Transactions
<1>5. ASSUME CountActive(c)
      PROVE  /\ tx'[c].todo = tx[c].todo /\ tx'[c].dirty = tx[c].dirty /\ tx'[c].alone = tx[c].alone
             /\ tx'[c].stage = "totals" /\ tx'[c].loaded = tx[c].loaded
             /\ tx'[c].counted = Cardinality(Active(View(c)))
             /\ tx[c].alone => tx'[c].late = tx[c].dirty
  <2> DEFINE m == Cardinality(Active(View(c)))
             l == IF tx[c].alone THEN tx[c].dirty ELSE {}
  <2>1. tx'[c] = [tx[c] EXCEPT !.counted = m, !.late = l, !.stage = "totals"]
    BY <1>2, <1>5 DEF CountActive
  <2>2. tx[c].alone => l = tx[c].dirty
    OBVIOUS
  <2> HIDE DEF m, l
  <2>3. /\ tx'[c].todo = tx[c].todo /\ tx'[c].dirty = tx[c].dirty /\ tx'[c].alone = tx[c].alone
        /\ tx'[c].stage = "totals" /\ tx'[c].loaded = tx[c].loaded /\ tx'[c].counted = m /\ tx'[c].late = l
    BY <1>1, <2>1 DEF Transactions
  <2> QED
    BY <2>2, <2>3 DEF m
<1>6. WriteTotals(c) =>
         /\ tx'[c].todo = tx[c].todo /\ tx'[c].dirty = tx[c].dirty /\ tx'[c].alone = tx[c].alone
         /\ tx'[c].stage = "rows" /\ tx'[c].late = tx[c].late
  BY <1>1, <1>2 DEF WriteTotals, Transactions
<1>7. ASSUME FlushDocument(c)
      PROVE  \E r \in NextWrite(c) :
                /\ tx'[c].dirty = tx[c].dirty \ {r}
                /\ tx'[c].todo = tx[c].todo /\ tx'[c].alone = tx[c].alone /\ tx'[c].url = tx[c].url
                /\ tx'[c].stage = tx[c].stage /\ tx'[c].late = tx[c].late
                /\ tx'[c].loaded = tx[c].loaded /\ tx'[c].counted = tx[c].counted
                /\ FlushesRow(c, r, IF Activates(c) THEN "active" ELSE "deleted")
  <2>1. PICK r \in NextWrite(c) : /\ FlushesRow(c, r, IF Activates(c) THEN "active" ELSE "deleted")
                                  /\ Goes(c, [tx[c] EXCEPT !.dirty = @ \ {r}])
    BY <1>7 DEF FlushDocument
  <2>2. tx'[c] = [tx[c] EXCEPT !.dirty = @ \ {r}]
    BY <1>2, <2>1
  <2>3. /\ tx'[c].dirty = tx[c].dirty \ {r}
        /\ tx'[c].todo = tx[c].todo /\ tx'[c].alone = tx[c].alone /\ tx'[c].url = tx[c].url
        /\ tx'[c].stage = tx[c].stage /\ tx'[c].late = tx[c].late
        /\ tx'[c].loaded = tx[c].loaded /\ tx'[c].counted = tx[c].counted
    BY <1>1, <2>2 DEF Transactions
  <2> QED
    BY <2>1, <2>3
<1>8. MarkDeleted(c) =>
         /\ tx'[c].dirty = tx[c].dirty /\ tx'[c].alone = tx[c].alone /\ tx'[c].late = tx[c].late
         /\ tx'[c].stage = "find"
  BY <1>1, <1>2 DEF MarkDeleted, Transactions
<1>9. FindDocset(c) =>
         /\ tx'[c].dirty = tx[c].dirty /\ tx'[c].alone = tx[c].alone /\ tx'[c].late = tx[c].late
         /\ tx'[c].stage = "count" /\ tx'[c].loaded = docset.count
  BY <1>1, <1>2 DEF FindDocset, Transactions
<1>10. CountRemaining(c) =>
         /\ tx'[c].dirty = tx[c].dirty /\ tx'[c].alone = tx[c].alone /\ tx'[c].late = tx[c].late
         /\ tx'[c].stage = "prune" /\ tx'[c].loaded = tx[c].loaded
         /\ tx'[c].counted = Cardinality(Active(View(c)))
  BY <1>1, <1>2 DEF CountRemaining, Transactions
<1>11. SelectMembers(c) => /\ tx'[c].stage = "discard" /\ tx'[c].dirty = Active(row)
                           /\ tx'[c].alone = tx[c].alone /\ tx'[c].late = tx[c].late
  BY <1>1, <1>2 DEF SelectMembers, Transactions
<1>12. Prune(c) \/ DiscardDocset(c) =>
         /\ tx'[c].dirty = tx[c].dirty /\ tx'[c].alone = tx[c].alone /\ tx'[c].late = tx[c].late
         /\ tx'[c].stage = "markAll"
  BY <1>1, <1>2 DEF Prune, DiscardDocset, Transactions
<1> QED
  BY <1>3, <1>4, <1>5, <1>6, <1>7, <1>8, <1>9, <1>10, <1>11, <1>12

\* How the inspection of an item moves the session on.
LEMMA ItemSessions ==
    ASSUME TypeOK, NEW c \in Clients
    PROVE  /\ InspectActive(c) =>
                 /\ tx'[c].todo = tx[c].todo /\ tx'[c].dirty = tx[c].dirty /\ tx'[c].alone = tx[c].alone
                 /\ tx'[c].loaded = tx[c].loaded
                 /\ \/ tx'[c].stage = "latest"
                    \/ /\ tx'[c].stage = "lookup"
                       /\ \A r \in Active(View(c)) : UrlOf[r] # tx'[c].url
           /\ InspectJob(c) \/ InspectDeleted(c) \/ InsertDocument(c) =>
                 tx'[c].alone = tx[c].alone /\ tx'[c].loaded = tx[c].loaded
           /\ InspectJob(c) \/ InsertDocument(c) =>
                 /\ tx'[c].stage = "item" /\ tx'[c].dirty = tx[c].dirty
                 /\ tx'[c].todo = tx[c].todo \ {tx[c].url}
           /\ InspectDeleted(c) =>
                 \/ \E r \in Rows : /\ View(c)[r] = "deleted" /\ UrlOf[r] = tx[c].url
                                    /\ tx'[c].stage = "item" /\ tx'[c].dirty = tx[c].dirty \cup {r}
                                    /\ tx'[c].todo = tx[c].todo \ {tx[c].url}
                 \/ /\ tx'[c].stage = "insert" /\ tx'[c].dirty = tx[c].dirty
                    /\ tx'[c].todo = tx[c].todo /\ tx'[c].url = tx[c].url
<1>1. tx[c] \in Transactions
  BY TxType
<1>2. \A t : Goes(c, t) => tx'[c] = t
  BY DEF Goes, TypeOK
<1> DEFINE n == NextItem(c)
<1>3. /\ n.stage = "item" /\ n.dirty = tx[c].dirty /\ n.todo = tx[c].todo \ {tx[c].url}
      /\ n.alone = tx[c].alone /\ n.loaded = tx[c].loaded
  BY <1>1 DEF NextItem, Transactions
<1>4. n \in Transactions
  BY NextItemType
<1> HIDE DEF n
<1>5. \A q, t : Accept(c, q, t) => \E j \in Jobs : tx'[c] = [t EXCEPT !.added = @ \cup {j}]
  BY <1>2 DEF Accept, NewJob
<1>6. ASSUME NEW q, Accept(c, q, n)
      PROVE  /\ tx'[c].stage = "item" /\ tx'[c].dirty = tx[c].dirty /\ tx'[c].todo = tx[c].todo \ {tx[c].url}
             /\ tx'[c].alone = tx[c].alone /\ tx'[c].loaded = tx[c].loaded
  <2>1. PICK j \in Jobs : tx'[c] = [n EXCEPT !.added = @ \cup {j}]
    BY <1>5, <1>6
  <2> QED
    BY <1>3, <1>4, <2>1 DEF Transactions
<1>7. ASSUME InspectActive(c)
      PROVE  /\ tx'[c].todo = tx[c].todo /\ tx'[c].dirty = tx[c].dirty /\ tx'[c].alone = tx[c].alone
             /\ tx'[c].loaded = tx[c].loaded
             /\ \/ tx'[c].stage = "latest"
                \/ /\ tx'[c].stage = "lookup"
                   /\ \A r \in Active(View(c)) : UrlOf[r] # tx'[c].url
  <2>1. PICK u \in tx[c].todo :
           \/ /\ {r \in Active(View(c)) : UrlOf[r] = u} = {}
              /\ tx'[c] = [tx[c] EXCEPT !.stage = "lookup", !.url = u]
           \/ \E r \in Rows : tx'[c] = [tx[c] EXCEPT !.stage = "latest", !.url = u, !.cur = r]
    BY <1>2, <1>7 DEF InspectActive, Active
  <2>2. CASE /\ {r \in Active(View(c)) : UrlOf[r] = u} = {}
             /\ tx'[c] = [tx[c] EXCEPT !.stage = "lookup", !.url = u]
    <3>1. tx'[c].url = u /\ tx'[c].stage = "lookup"
      BY <1>1, <2>2 DEF Transactions
    <3>2. /\ tx'[c].todo = tx[c].todo /\ tx'[c].dirty = tx[c].dirty /\ tx'[c].alone = tx[c].alone
          /\ tx'[c].loaded = tx[c].loaded
      BY <1>1, <2>2 DEF Transactions
    <3> QED
      BY <2>2, <3>1, <3>2
  <2>3. ASSUME NEW r \in Rows, tx'[c] = [tx[c] EXCEPT !.stage = "latest", !.url = u, !.cur = r]
        PROVE  /\ tx'[c].todo = tx[c].todo /\ tx'[c].dirty = tx[c].dirty /\ tx'[c].alone = tx[c].alone
               /\ tx'[c].loaded = tx[c].loaded /\ tx'[c].stage = "latest"
    BY <1>1, <2>3 DEF Transactions
  <2> QED
    BY <2>1, <2>2, <2>3
<1>8. ASSUME InspectJob(c) \/ InsertDocument(c)
      PROVE  /\ tx'[c].stage = "item" /\ tx'[c].dirty = tx[c].dirty /\ tx'[c].todo = tx[c].todo \ {tx[c].url}
             /\ tx'[c].alone = tx[c].alone /\ tx'[c].loaded = tx[c].loaded
  <2>1. tx'[c] = n \/ \E q : Accept(c, q, n)
    BY <1>2, <1>8 DEF InspectJob, InsertDocument, n
  <2> QED
    BY <1>3, <1>6, <2>1
<1>9. ASSUME InspectDeleted(c)
      PROVE  /\ tx'[c].alone = tx[c].alone /\ tx'[c].loaded = tx[c].loaded
             /\ \/ \E r \in Rows : /\ View(c)[r] = "deleted" /\ UrlOf[r] = tx[c].url
                                   /\ tx'[c].stage = "item" /\ tx'[c].dirty = tx[c].dirty \cup {r}
                                   /\ tx'[c].todo = tx[c].todo \ {tx[c].url}
                \/ /\ tx'[c].stage = "insert" /\ tx'[c].dirty = tx[c].dirty
                   /\ tx'[c].todo = tx[c].todo /\ tx'[c].url = tx[c].url
  <2> DEFINE a(r) == [n EXCEPT !.dirty = @ \cup {r}]
  <2>1. \/ \E r \in Rows : View(c)[r] = "deleted" /\ UrlOf[r] = tx[c].url /\ Accept(c, r, a(r))
        \/ \E r \in Rows : tx'[c] = [tx[c] EXCEPT !.stage = "insert", !.cur = r]
    BY <1>2, <1>9 DEF InspectDeleted, FreeKeys, n
  <2>2. ASSUME NEW r \in Rows, View(c)[r] = "deleted", UrlOf[r] = tx[c].url, Accept(c, r, a(r))
        PROVE  /\ tx'[c].stage = "item" /\ tx'[c].dirty = tx[c].dirty \cup {r}
               /\ tx'[c].todo = tx[c].todo \ {tx[c].url}
               /\ tx'[c].alone = tx[c].alone /\ tx'[c].loaded = tx[c].loaded
    <3>1. /\ a(r) \in Transactions /\ a(r).stage = n.stage /\ a(r).dirty = n.dirty \cup {r}
          /\ a(r).todo = n.todo /\ a(r).alone = n.alone /\ a(r).loaded = n.loaded
      BY <1>4 DEF Transactions
    <3> HIDE DEF a
    <3>2. PICK j \in Jobs : tx'[c] = [a(r) EXCEPT !.added = @ \cup {j}]
      BY <1>5, <2>2
    <3>3. /\ tx'[c].stage = a(r).stage /\ tx'[c].dirty = a(r).dirty /\ tx'[c].todo = a(r).todo
          /\ tx'[c].alone = a(r).alone /\ tx'[c].loaded = a(r).loaded
      BY <3>1, <3>2 DEF Transactions
    <3> QED
      BY <1>3, <3>1, <3>3
  <2>3. ASSUME NEW r \in Rows, tx'[c] = [tx[c] EXCEPT !.stage = "insert", !.cur = r]
        PROVE  /\ tx'[c].stage = "insert" /\ tx'[c].dirty = tx[c].dirty
               /\ tx'[c].todo = tx[c].todo /\ tx'[c].url = tx[c].url
               /\ tx'[c].alone = tx[c].alone /\ tx'[c].loaded = tx[c].loaded
    BY <1>1, <2>3 DEF Transactions
  <2> HIDE DEF a
  <2> QED
    BY <2>1, <2>2, <2>3
<1> QED
  BY <1>7, <1>8, <1>9

\* What the session of c knows of the docset: a docset that it has read, or written, is not
\* absent, and it writes the docset late.
DocsetKnown(c) ==
    /\ wroteDocset[c] # None => wroteDocset[c].state # "absent"
    /\ tx[c].stage \in {"item", "latest", "lookup", "insert", "totals", "rows", "markAll"} =>
          DocsetView(c).state # "absent"
    /\ tx[c].stage \in {"revive", "mark", "find", "count", "prune"} => docset.state # "absent"
    /\ tx[c].stage \in {"idle", "docset", "create", "revive", "mark", "find", "count", "prune",
                        "members", "discard"} => wroteDocset[c] = None
    /\ tx[c].stage \in {"members", "discard"} => \A r \in Rows : wrote[c][r] = None

\* A docset without a row has no documents.
DocsetOK ==
    /\ docset.state = "absent" => docset.count = 0 /\ \A r \in Rows : row[r] = "absent"
    /\ \A c \in Clients : DocsetKnown(c)

\* A step of c leaves alone what the other sessions know.
LEMMA OtherDocsets ==
    ASSUME TypeOK, DocsetOK, NEW c \in Clients, docset' = docset \/ docset'.state # "absent",
           \A d \in Clients \ {c} :
              /\ wrote'[d] = wrote[d] /\ wroteDocset'[d] = wroteDocset[d] /\ tx'[d].stage = tx[d].stage
    PROVE  \A d \in Clients \ {c} : DocsetKnown(d)'
<1> SUFFICES ASSUME NEW d \in Clients \ {c} PROVE DocsetKnown(d)'
  OBVIOUS
<1>1. DocsetKnown(d)
  BY DEF DocsetOK
<1>2. DocsetView(d).state # "absent" => DocsetView(d)'.state # "absent"
  BY <1>1 DEF DocsetView, DocsetKnown
<1> QED
  BY <1>1, <1>2 DEF DocsetKnown

\* A request that begins knows as much of the docset as it needs.
LEMMA BeginsDocset ==
    ASSUME TypeOK, AllPrepared, DocsetOK, NEW c \in Clients, NEW t \in Transactions, Begins(c, t),
           t.stage \in {"docset", "mark", "members"}, t.stage = "mark" => docset.state # "absent"
    PROVE  DocsetOK'
<1>1. /\ UNCHANGED <<row, docset, wrote, wroteDocset>> /\ tx[c].stage = "idle"
      /\ tx'[c].stage = t.stage /\ \A d \in Clients \ {c} : tx'[d].stage = tx[d].stage
  BY BeginsEffect
<1>2. \A d \in Clients \ {c} : DocsetKnown(d)'
  BY <1>1, OtherDocsets
<1>3. wroteDocset[c] = None /\ \A r \in Rows : wrote[c][r] = None
  BY <1>1 DEF AllPrepared, PreparedOK, DocsetOK, DocsetKnown
<1>4. DocsetKnown(c)'
  BY <1>1, <1>3 DEF DocsetKnown
<1> QED
  BY <1>1, <1>2, <1>4 DEF DocsetOK

\* The docset that a statement flushes.
LEMMA DocsetFlush ==
    ASSUME TypeOK, NEW c \in Clients
    PROVE  \A ds : FlushesDocset(c, ds) =>
              /\ wroteDocset'[c] = ds
              /\ \A d \in Clients \ {c} : wroteDocset'[d] = wroteDocset[d]
  BY DEF FlushesDocset, TypeOK

\* A statement keeps what transactions know of the docset.
LEMMA StatementDocset ==
    ASSUME TypeOK, KeysOK, AllPrepared, DocsetOK, NEW c \in Clients, Statement(c) \/ Abort(c)
    PROVE  DocsetOK'
<1>1. DocsetKnown(c)
  BY DEF DocsetOK
<1>2. \A ds \in DocsetRows : ds # None
  BY RegistryAssumption DEF DocsetRows
<1>3. docset \in DocsetRows /\ DocsetView(c) \in DocsetRows
  BY ViewType DEF TypeOK
<1>4. \A d \in Clients \ {c} : (\E t : Goes(c, t)) => tx'[d] = tx[d]
  BY DEF Goes, TypeOK
\* A statement that neither flushes the docset nor commits.
<1>5. ASSUME NotCommitted, wroteDocset' = wroteDocset, \E t : Goes(c, t),
             wrote' = wrote \/ \A d \in Clients \ {c} : wrote'[d] = wrote[d], DocsetKnown(c)'
      PROVE  DocsetOK'
  <2>1. docset' = docset /\ row' = row
    BY <1>5 DEF NotCommitted
  <2>2. \A d \in Clients \ {c} : DocsetKnown(d)'
    BY <1>4, <1>5, <2>1, OtherDocsets
  <2> QED
    BY <1>5, <2>1, <2>2 DEF DocsetOK
\* A statement that flushes the docset.
<1>6. ASSUME NEW ds \in DocsetRows, FlushesDocset(c, ds), ds.state # "absent", NotCommitted, wrote' = wrote,
             \E t : Goes(c, t), tx'[c].stage \in {"item", "rows", "markAll"}
      PROVE  DocsetOK'
  <2>1. docset' = docset /\ row' = row
    BY <1>6 DEF NotCommitted
  <2>2. wroteDocset'[c] = ds /\ \A d \in Clients \ {c} : wroteDocset'[d] = wroteDocset[d]
    BY <1>6, DocsetFlush
  <2>3. \A d \in Clients \ {c} : DocsetKnown(d)'
    BY <1>4, <1>6, <2>1, <2>2, OtherDocsets
  <2>4. DocsetView(c)' = ds
    BY <1>2, <2>2 DEF DocsetView
  <2>5. DocsetKnown(c)'
    BY <1>6, <2>2, <2>4 DEF DocsetKnown
  <2> QED
    BY <2>1, <2>3, <2>5 DEF DocsetOK
<1>7. ASSUME Goes(c, NoTransaction), Unlocks(c) PROVE DocsetKnown(c)'
  <2>1. tx'[c].stage = "idle" /\ wroteDocset'[c] = None
    BY <1>7 DEF Goes, Unlocks, TypeOK, NoTransaction
  <2> QED
    BY <2>1 DEF DocsetKnown
<1>8. ASSUME Unlocks(c)
      PROVE  \A d \in Clients \ {c} : wrote'[d] = wrote[d] /\ wroteDocset'[d] = wroteDocset[d]
  BY <1>8 DEF Unlocks, TypeOK
<1>9. CASE Rollback(c)
  <2>1. docset' = docset /\ row' = row /\ Goes(c, NoTransaction) /\ Unlocks(c)
    BY <1>9 DEF Rollback, NotCommitted
  <2>2. \A d \in Clients \ {c} : DocsetKnown(d)'
    BY <1>4, <1>8, <2>1, OtherDocsets
  <2> QED
    BY <1>7, <2>1, <2>2 DEF DocsetOK
<1>10. CASE Commit(c)
  <2>1. /\ docset' = DocsetView(c) /\ Goes(c, NoTransaction) /\ Unlocks(c)
        /\ tx[c].stage \in {"rows", "markAll"}
    BY <1>10 DEF Commit
  <2>2. docset'.state # "absent"
    BY <1>1, <2>1 DEF DocsetKnown
  <2>3. \A d \in Clients \ {c} : DocsetKnown(d)'
    BY <1>4, <1>8, <2>1, <2>2, OtherDocsets
  <2> QED
    BY <1>7, <2>1, <2>2, <2>3 DEF DocsetOK
<1>11. CASE ReadDocset(c)
  <2>1. /\ tx'[c].stage = IF docset.state = "absent" THEN "create"
                          ELSE IF docset.state = "pruned" THEN "revive" ELSE "item"
        /\ Reads /\ tx[c].stage = "docset" /\ \E t : Goes(c, t)
    BY <1>11, Sessions DEF ReadDocset
  <2>2. DocsetKnown(c)'
    BY <1>1, <2>1 DEF DocsetKnown, DocsetView, Reads
  <2> QED
    BY <1>5, <2>1, <2>2 DEF Reads, NotCommitted
<1>12. CASE CreateDocset(c) \/ ReviveDocset(c)
  <2>1. /\ tx'[c].stage = "item" /\ NotCommitted /\ wrote' = wrote /\ \E t : Goes(c, t)
        /\ FlushesDocset(c, EmptyDocset) \/ FlushesDocset(c, [docset EXCEPT !.state = "active"])
    BY <1>12, Sessions DEF CreateDocset, ReviveDocset
  <2>2. /\ EmptyDocset \in DocsetRows /\ EmptyDocset.state = "active"
        /\ [docset EXCEPT !.state = "active"] \in DocsetRows /\ [docset EXCEPT !.state = "active"].state = "active"
    BY <1>3 DEF EmptyDocset, DocsetRows
  <2> QED
    BY <1>6, <2>1, <2>2
<1>13. CASE InspectActive(c) \/ InspectJob(c) \/ InspectDeleted(c)
  <2>1. /\ tx'[c].stage \in {"item", "latest", "lookup", "insert"} /\ tx[c].stage \in {"item", "latest", "lookup"}
        /\ NotCommitted /\ wrote' = wrote /\ wroteDocset' = wroteDocset
    BY <1>13, ItemSessions DEF InspectActive, InspectJob, InspectDeleted, Reads, NotCommitted
  <2>2. \E t : Goes(c, t)
    BY <1>13 DEF InspectActive, InspectJob, InspectDeleted, Accept
  <2>3. DocsetKnown(c)'
    BY <1>1, <2>1 DEF DocsetKnown, DocsetView, NotCommitted
  <2> QED
    BY <1>5, <2>1, <2>2, <2>3
<1>14. CASE FlushDocument(c) \/ InsertDocument(c) \/ MarkDeleted(c)
  <2>1. /\ NotCommitted /\ wroteDocset' = wroteDocset /\ \E t : Goes(c, t)
        /\ \E r, s : FlushesRow(c, r, s)
    BY <1>14 DEF FlushDocument, InsertDocument, MarkDeleted, Accept
  <2>2. \A d \in Clients \ {c} : wrote'[d] = wrote[d]
    BY <2>1 DEF FlushesRow, TypeOK
  <2>3. \/ tx'[c].stage = tx[c].stage /\ tx[c].stage \in {"insert", "rows", "markAll"}
        \/ tx'[c].stage = "item" /\ tx[c].stage = "insert"
        \/ tx'[c].stage = "find" /\ tx[c].stage = "mark"
    BY <1>14, Sessions, ItemSessions DEF FlushDocument, InsertDocument, MarkDeleted
  <2>4. DocsetKnown(c)'
    BY <1>1, <2>1, <2>3 DEF DocsetKnown, DocsetView, NotCommitted
  <2> QED
    BY <1>5, <2>1, <2>2, <2>3, <2>4
<1>15. CASE CountActive(c) \/ FindDocset(c) \/ CountRemaining(c) \/ SelectMembers(c)
  <2>1. Reads /\ \E t : Goes(c, t)
    BY <1>15 DEF CountActive, FindDocset, CountRemaining, SelectMembers
  <2>2. \/ tx'[c].stage = "totals" /\ tx[c].stage = "item"
        \/ tx'[c].stage = "count" /\ tx[c].stage = "find"
        \/ tx'[c].stage = "prune" /\ tx[c].stage = "count"
        \/ tx'[c].stage = "discard" /\ tx[c].stage = "members"
    BY <1>15, Sessions DEF CountActive, FindDocset, CountRemaining, SelectMembers
  <2>3. DocsetKnown(c)'
    BY <1>1, <2>1, <2>2 DEF DocsetKnown, DocsetView, Reads
  <2> QED
    BY <1>5, <2>1, <2>3 DEF Reads, NotCommitted
<1>16. CASE WriteTotals(c)
  <2> DEFINE ds == [DocsetView(c) EXCEPT !.count = NewCount(c, DocsetView(c))]
  <2>1. /\ FlushesDocset(c, ds) /\ NotCommitted /\ wrote' = wrote /\ \E t : Goes(c, t)
        /\ tx'[c].stage = "rows" /\ tx[c].stage = "totals"
    BY <1>16, Sessions DEF WriteTotals
  <2>2. ds \in DocsetRows /\ ds.state = DocsetView(c).state
    BY <1>3, TxType DEF NewCount, DocsetRows
  <2> HIDE DEF ds
  <2>3. ds.state # "absent"
    BY <1>1, <2>1, <2>2 DEF DocsetKnown
  <2> QED
    BY <1>6, <2>1, <2>2, <2>3
<1>17. CASE Prune(c)
  <2> DEFINE ds == [state |-> IF tx[c].counted = 0 THEN "pruned" ELSE docset.state,
                    count |-> NewCount(c, docset)]
  <2>1. /\ FlushesDocset(c, ds) /\ NotCommitted /\ wrote' = wrote /\ \E t : Goes(c, t)
        /\ tx'[c].stage = "markAll" /\ tx[c].stage = "prune"
    BY <1>17, Sessions DEF Prune
  <2>2. ds \in DocsetRows /\ ds.state \in {"pruned", docset.state}
    BY <1>3, TxType DEF NewCount, DocsetRows
  <2> HIDE DEF ds
  <2>3. ds.state # "absent"
    BY <1>1, <2>1, <2>2 DEF DocsetKnown
  <2> QED
    BY <1>6, <2>1, <2>2, <2>3
<1>18. CASE DiscardDocset(c)
  <2>1. /\ FlushesDocset(c, PrunedDocset) /\ NotCommitted /\ wrote' = wrote /\ \E t : Goes(c, t)
        /\ tx'[c].stage = "markAll"
    BY <1>18, Sessions DEF DiscardDocset
  <2>2. PrunedDocset \in DocsetRows /\ PrunedDocset.state = "pruned"
    BY DEF PrunedDocset, DocsetRows
  <2> QED
    BY <1>6, <2>1, <2>2
<1> QED
  BY <1>9, <1>10, <1>11, <1>12, <1>13, <1>14, <1>15, <1>16, <1>17, <1>18
     DEF Statement, Abort, Refused, DeadlockVictim, GiveUp

\* A batch that overlaps with no other request: the documents that it has changed in the
\* session stand alone with their URLs, and it knows the count that it is about to replace.
AloneBatch(t, view, ds) ==
    /\ \A r \in t.dirty : view[r] = "deleted" /\ UrlOf[r] \notin t.todo
    /\ \A r, s \in t.dirty : UrlOf[r] = UrlOf[s] => r = s
    /\ \A r \in t.dirty, s \in Active(view) : UrlOf[s] # UrlOf[r]
    /\ t.stage \in {"lookup", "insert"} => \A s \in Active(view) : UrlOf[s] # t.url
    /\ t.stage \in {"create", "revive", "item", "latest", "lookup", "insert", "totals"} => t.loaded = ds.count
    /\ t.stage = "totals" => t.counted = Cardinality(Active(view)) /\ t.late = t.dirty
    /\ t.stage = "rows" =>
          /\ t.dirty \subseteq t.late
          /\ ds.count + Cardinality(t.late \ t.dirty) = Cardinality(Active(view))

\* A deletion that overlaps with no other request.
AloneDeletion(t, view, ds) ==
    /\ t.late = {}
    /\ t.stage \in {"mark", "find", "count", "prune", "members"} => t.dirty = {}
    /\ t.stage = "discard" => t.dirty = Active(view)
    /\ t.stage \in {"count", "prune"} => t.loaded = ds.count
    /\ t.stage = "prune" => t.counted = Cardinality(Active(view))
    /\ t.stage = "markAll" => ds.count = Cardinality(Active(view) \ t.dirty)

Lone(c) ==
    tx[c].alone =>
       /\ tx[c].stage # "idle" /\ \A d \in Clients \ {c} : tx[d].stage = "idle"
       /\ tx[c].stage \in BatchStages => AloneBatch(tx[c], View(c), DocsetView(c))
       /\ tx[c].stage \notin BatchStages => AloneDeletion(tx[c], View(c), DocsetView(c))

AllLone == \A c \in Clients : Lone(c)

\* Documents are counted.
LEMMA ActiveFinite == ASSUME NEW view PROVE IsFiniteSet(Active(view)) /\ Active(view) \subseteq Rows
<1>1. Active(view) \subseteq Rows
  BY DEF Active
<1> QED
  BY <1>1, RegistryAssumption, FS_Subset

\* What a session sees of its own step.
LEMMA ViewStep ==
    ASSUME TypeOK, NEW c \in Clients
    PROVE  /\ row' = row /\ wrote' = wrote => View(c)' = View(c) /\ Active(View(c))' = Active(View(c))
           /\ docset' = docset /\ wroteDocset' = wroteDocset => DocsetView(c)' = DocsetView(c)
           /\ \A ds \in DocsetRows : FlushesDocset(c, ds) => DocsetView(c)' = ds
           /\ row' = row => \A r \in Rows, s \in RowStates : FlushesRow(c, r, s) =>
                 /\ \A q \in Rows : View(c)'[q] = IF q = r THEN s ELSE View(c)[q]
                 /\ Active(View(c))' = IF s = "active" THEN Active(View(c)) \cup {r} ELSE Active(View(c)) \ {r}
<1>1. row' = row /\ wrote' = wrote => View(c)' = View(c)
  BY DEF View
<1>2. docset' = docset /\ wroteDocset' = wroteDocset => DocsetView(c)' = DocsetView(c)
  BY DEF DocsetView
<1>3. ASSUME NEW ds \in DocsetRows, FlushesDocset(c, ds) PROVE DocsetView(c)' = ds
  <2>1. ds # None
    BY RegistryAssumption DEF DocsetRows
  <2> QED
    BY <1>3, <2>1, DocsetFlush DEF DocsetView
<1>4. ASSUME row' = row, NEW r \in Rows, NEW s \in RowStates, FlushesRow(c, r, s)
      PROVE  /\ \A q \in Rows : View(c)'[q] = IF q = r THEN s ELSE View(c)[q]
             /\ Active(View(c))' = IF s = "active" THEN Active(View(c)) \cup {r} ELSE Active(View(c)) \ {r}
  <2>1. \A q \in Rows : wrote'[c][q] = IF q = r THEN s ELSE wrote[c][q]
    BY <1>4 DEF FlushesRow, TypeOK
  <2>2. s # None
    BY RegistryAssumption DEF RowStates
  <2>3. \A q \in Rows : View(c)'[q] = IF q = r THEN s ELSE View(c)[q]
    BY <1>4, <2>1, <2>2 DEF View
  <2> QED
    BY <2>3 DEF Active
<1>5. View(c)' = View(c) => Active(View(c))' = Active(View(c))
  BY DEF Active
<1> QED
  BY <1>1, <1>2, <1>3, <1>4, <1>5

\* Other sessions than that of c do not move, and c is not idle.
LEMMA Moved ==
    ASSUME TypeOK, NEW c \in Clients, Statement(c) \/ Abort(c)
    PROVE  tx[c].stage # "idle" /\ \A d \in Clients \ {c} : tx'[d] = tx[d]
<1>1. InDeadlock(c) => tx[c].stage # "idle"
  <2> SUFFICES ASSUME InDeadlock(c), tx[c].stage = "idle" PROVE FALSE
    OBVIOUS
  <2>1. PICK d : WaitsFor(c, d)
    BY DEF InDeadlock
  <2> QED
    BY <2>1 DEF WaitsFor, WritesDocset, NextWrite
<1>2. tx[c].stage # "idle"
  BY <1>1 DEF Statement, Abort, ReadDocset, CreateDocset, ReviveDocset, InspectActive, InspectJob,
     InspectDeleted, FlushDocument, InsertDocument, CountActive, WriteTotals, MarkDeleted, FindDocset,
     CountRemaining, Prune, SelectMembers, DiscardDocset, Commit, Refused, DeadlockVictim, GiveUp, Activates
<1>3. \E t : Goes(c, t)
  BY DEF Statement, Abort, ReadDocset, CreateDocset, ReviveDocset, InspectActive, InspectJob, Accept,
     InspectDeleted, FlushDocument, InsertDocument, CountActive, WriteTotals, MarkDeleted, FindDocset,
     CountRemaining, Prune, SelectMembers, DiscardDocset, Commit, Refused, DeadlockVictim, GiveUp, Rollback
<1> QED
  BY <1>2, <1>3 DEF Goes, TypeOK

\* A statement of a request that overlaps with no other one, or its end.
LEMMA StatementLone ==
    ASSUME TypeOK, KeysOK, Accepted, DocsetOK, AllLone, NEW c \in Clients, Statement(c) \/ Abort(c)
    PROVE  AllLone'
<1> DEFINE A == Active(View(c))
           B == AloneBatch(tx[c], View(c), DocsetView(c))
           D == AloneDeletion(tx[c], View(c), DocsetView(c))
<1>1. tx[c].stage # "idle" /\ \A d \in Clients \ {c} : tx'[d] = tx[d]
  BY Moved
<1>2. \A d \in Clients \ {c} : Lone(d)'
  BY <1>1 DEF AllLone, Lone
<1>3. SUFFICES ASSUME tx'[c].alone PROVE Lone(c)'
  <2>1. ~tx'[c].alone => Lone(c)'
    BY DEF Lone
  <2> QED
    BY <1>2, <2>1 DEF AllLone
<1>4. \A d \in Clients \ {c} : Lone(d)
  BY DEF AllLone
<1>5. ASSUME tx[c].alone
      PROVE  /\ \A d \in Clients \ {c} : tx'[d].stage = "idle"
             /\ tx[c].stage \in BatchStages => B
             /\ tx[c].stage \notin BatchStages => D
  BY <1>1, <1>5 DEF AllLone, Lone
<1>6. ASSUME tx[c].alone, tx'[c].stage \in BatchStages, AloneBatch(tx[c], View(c), DocsetView(c))' PROVE Lone(c)'
  BY <1>5, <1>6 DEF Lone, BatchStages
<1>7. ASSUME tx[c].alone, tx'[c].stage \notin BatchStages, tx'[c].stage # "idle",
             AloneDeletion(tx[c], View(c), DocsetView(c))'
      PROVE  Lone(c)'
  BY <1>5, <1>7 DEF Lone
<1>8. tx[c].dirty \subseteq Rows /\ A \subseteq Rows /\ IsFiniteSet(A) /\ Cardinality(A) \in Nat
  BY TxType, ActiveFinite, CountIsNat
<1>9. DocsetKnown(c) /\ BatchWrites(c) /\ OwnKey(c) /\ docset \in DocsetRows /\ DocsetView(c) \in DocsetRows
  BY ViewType DEF DocsetOK, Accepted, TypeOK
<1>10. CASE Rollback(c) \/ Commit(c)
  <2>1. tx'[c] = NoTransaction
    BY <1>10 DEF Rollback, Commit, Goes, TypeOK
  <2> QED
    BY <1>3, <2>1 DEF NoTransaction
<1>11. CASE ReadDocset(c)
  <2>1. /\ tx'[c].todo = tx[c].todo /\ tx'[c].dirty = tx[c].dirty /\ tx[c].alone
        /\ tx'[c].loaded = docset.count /\ tx'[c].stage \in {"create", "revive", "item"}
    BY <1>3, <1>11, Sessions
  <2>2. Reads /\ tx[c].stage = "docset" /\ tx[c].stage \in BatchStages
    BY <1>11 DEF ReadDocset, BatchStages
  <2>3. DocsetView(c) = docset
    BY <1>9, <2>2 DEF DocsetKnown, DocsetView
  <2>4. View(c)' = View(c) /\ A' = A /\ DocsetView(c)' = DocsetView(c)
    BY <2>2, ViewStep DEF Reads
  <2>5. AloneBatch(tx[c], View(c), DocsetView(c))'
    BY <1>5, <2>1, <2>2, <2>3, <2>4 DEF AloneBatch
  <2> QED
    BY <1>6, <2>1, <2>5 DEF BatchStages
<1>12. CASE CreateDocset(c) \/ ReviveDocset(c)
  <2>1. /\ tx'[c].todo = tx[c].todo /\ tx'[c].dirty = tx[c].dirty /\ tx[c].alone
        /\ tx'[c].loaded = tx[c].loaded /\ tx'[c].stage = "item"
    BY <1>3, <1>12, Sessions
  <2>2. /\ NotCommitted /\ wrote' = wrote /\ tx[c].stage \in {"create", "revive"} /\ tx[c].stage \in BatchStages
        /\ \/ FlushesDocset(c, EmptyDocset) /\ docset.state = "absent"
           \/ FlushesDocset(c, [docset EXCEPT !.state = "active"])
    BY <1>12 DEF CreateDocset, ReviveDocset, BatchStages
  <2>3. DocsetView(c) = docset
    BY <1>9, <2>2 DEF DocsetKnown, DocsetView
  <2>4. View(c)' = View(c) /\ A' = A
    BY <2>2, ViewStep DEF NotCommitted
  <2>5. /\ EmptyDocset \in DocsetRows /\ EmptyDocset.count = 0
        /\ [docset EXCEPT !.state = "active"] \in DocsetRows
        /\ [docset EXCEPT !.state = "active"].count = docset.count
    BY <1>9 DEF EmptyDocset, DocsetRows
  <2>6. DocsetView(c)'.count = docset.count
    BY <2>2, <2>5, ViewStep DEF DocsetOK
  <2>7. AloneBatch(tx[c], View(c), DocsetView(c))'
    BY <1>5, <2>1, <2>2, <2>3, <2>4, <2>6 DEF AloneBatch
  <2> QED
    BY <1>6, <2>1, <2>7 DEF BatchStages
<1>13. CASE InspectActive(c)
  <2>1. /\ tx'[c].todo = tx[c].todo /\ tx'[c].dirty = tx[c].dirty /\ tx[c].alone
        /\ tx'[c].loaded = tx[c].loaded
        /\ \/ tx'[c].stage = "latest"
           \/ tx'[c].stage = "lookup" /\ \A r \in A : UrlOf[r] # tx'[c].url
    BY <1>3, <1>13, ItemSessions
  <2>2. Reads /\ tx[c].stage = "item" /\ tx[c].stage \in BatchStages
    BY <1>13 DEF InspectActive, BatchStages
  <2>3. View(c)' = View(c) /\ A' = A /\ DocsetView(c)' = DocsetView(c)
    BY <2>2, ViewStep DEF Reads
  <2>4. AloneBatch(tx[c], View(c), DocsetView(c))'
    BY <1>5, <2>1, <2>2, <2>3 DEF AloneBatch
  <2> QED
    BY <1>6, <2>1, <2>4 DEF BatchStages
<1>14. CASE InspectJob(c)
  <2>1. /\ tx'[c].todo = tx[c].todo \ {tx[c].url} /\ tx'[c].dirty = tx[c].dirty /\ tx[c].alone
        /\ tx'[c].loaded = tx[c].loaded /\ tx'[c].stage = "item"
    BY <1>3, <1>14, ItemSessions
  <2>2. /\ NotCommitted /\ wrote' = wrote /\ wroteDocset' = wroteDocset
        /\ tx[c].stage = "latest" /\ tx[c].stage \in BatchStages
    BY <1>14 DEF InspectJob, BatchStages
  <2>3. View(c)' = View(c) /\ A' = A /\ DocsetView(c)' = DocsetView(c)
    BY <2>2, ViewStep DEF NotCommitted
  <2>4. AloneBatch(tx[c], View(c), DocsetView(c))'
    BY <1>5, <2>1, <2>2, <2>3 DEF AloneBatch
  <2> QED
    BY <1>6, <2>1, <2>4 DEF BatchStages
<1>15. CASE InspectDeleted(c)
  <2>1. tx[c].alone /\ tx'[c].loaded = tx[c].loaded
    BY <1>3, <1>15, ItemSessions
  <2>2. /\ NotCommitted /\ wrote' = wrote /\ wroteDocset' = wroteDocset
        /\ tx[c].stage = "lookup" /\ tx[c].stage \in BatchStages
    BY <1>15 DEF InspectDeleted, BatchStages
  <2>3. View(c)' = View(c) /\ A' = A /\ DocsetView(c)' = DocsetView(c)
    BY <2>2, ViewStep DEF NotCommitted
  <2>4. B /\ tx[c].url \in tx[c].todo
    BY <1>5, <1>9, <2>1, <2>2 DEF BatchWrites
  <2>5. ASSUME NEW r \in Rows, View(c)[r] = "deleted", UrlOf[r] = tx[c].url,
               tx'[c].stage = "item", tx'[c].dirty = tx[c].dirty \cup {r}, tx'[c].todo = tx[c].todo \ {tx[c].url}
        PROVE  AloneBatch(tx[c], View(c), DocsetView(c))'
    <3>1. \A s \in tx[c].dirty : UrlOf[s] # UrlOf[r]
      BY <2>4, <2>5 DEF AloneBatch
    <3>2. \A s \in A : UrlOf[s] # UrlOf[r]
      BY <2>2, <2>4, <2>5 DEF AloneBatch
    <3> QED
      BY <2>1, <2>2, <2>3, <2>4, <2>5, <3>1, <3>2 DEF AloneBatch
  <2>6. ASSUME tx'[c].stage = "insert", tx'[c].dirty = tx[c].dirty,
               tx'[c].todo = tx[c].todo, tx'[c].url = tx[c].url
        PROVE  AloneBatch(tx[c], View(c), DocsetView(c))'
    BY <2>1, <2>2, <2>3, <2>4, <2>6 DEF AloneBatch
  <2> QED
    BY <1>6, <1>15, <2>1, <2>5, <2>6, ItemSessions DEF BatchStages
<1>16. CASE FlushDocument(c)
  <2>1. PICK r \in NextWrite(c) :
           /\ tx'[c].dirty = tx[c].dirty \ {r}
           /\ tx'[c].todo = tx[c].todo /\ tx'[c].alone = tx[c].alone /\ tx'[c].url = tx[c].url
           /\ tx'[c].stage = tx[c].stage /\ tx'[c].late = tx[c].late
           /\ tx'[c].loaded = tx[c].loaded /\ tx'[c].counted = tx[c].counted
           /\ FlushesRow(c, r, IF Activates(c) THEN "active" ELSE "deleted")
    BY <1>16, Sessions
  <2>2. /\ r \in tx[c].dirty /\ tx[c].stage \in {"insert", "rows", "markAll"}
        /\ NotCommitted /\ wroteDocset' = wroteDocset
    BY <1>16 DEF FlushDocument, NextWrite
  <2>3. r \in Rows /\ tx[c].alone /\ row' = row /\ "active" \in RowStates /\ "deleted" \in RowStates
    BY <1>3, <1>8, <2>1, <2>2 DEF NotCommitted, RowStates
  <2>4. DocsetView(c)' = DocsetView(c)
    BY <2>2, ViewStep DEF NotCommitted
  <2>5. CASE tx[c].stage \in {"insert", "rows"}
    <3>1. FlushesRow(c, r, "active") /\ tx[c].stage \in BatchStages
      BY <2>1, <2>5 DEF Activates, BatchStages
    <3>2. /\ \A q \in Rows : View(c)'[q] = IF q = r THEN "active" ELSE View(c)[q]
          /\ A' = A \cup {r}
      BY <2>3, <3>1, ViewStep
    <3>3. B /\ (tx[c].stage = "insert" => tx[c].url \in tx[c].todo)
      BY <1>5, <1>9, <2>3, <3>1 DEF BatchWrites
    <3>4. r \notin A /\ Cardinality(A') = Cardinality(A) + 1
      <4>1. r \notin A
        BY <2>2, <3>3 DEF AloneBatch, Active
      <4> QED
        BY <1>8, <3>2, <4>1, FS_AddElement
    <3>5. tx[c].stage = "rows" =>
             Cardinality(tx'[c].late \ tx'[c].dirty) = Cardinality(tx[c].late \ tx[c].dirty) + 1
      <4>1. SUFFICES ASSUME tx[c].stage = "rows"
                     PROVE  Cardinality(tx'[c].late \ tx'[c].dirty) = Cardinality(tx[c].late \ tx[c].dirty) + 1
        OBVIOUS
      <4>2. tx[c].late \subseteq Rows /\ tx[c].dirty \subseteq tx[c].late
        BY <3>3, <4>1, TxType DEF AloneBatch, Transactions
      <4>3. tx'[c].late \ tx'[c].dirty = (tx[c].late \ tx[c].dirty) \cup {r} /\ r \notin tx[c].late \ tx[c].dirty
        BY <2>1, <2>2, <4>2
      <4>4. IsFiniteSet(tx[c].late \ tx[c].dirty)
        BY <4>2, RegistryAssumption, FS_Subset
      <4> QED
        BY <4>3, <4>4, FS_AddElement
    <3>6. Cardinality(tx[c].late \ tx[c].dirty) \in Nat
      BY TxType, RegistryAssumption, FS_Subset, FS_CardinalityType DEF Transactions
    <3>7. /\ \A q \in tx'[c].dirty : View(c)'[q] = "deleted" /\ UrlOf[q] \notin tx'[c].todo
          /\ \A q, s \in tx'[c].dirty : UrlOf[q] = UrlOf[s] => q = s
          /\ \A q \in tx'[c].dirty, s \in A' : UrlOf[s] # UrlOf[q]
      BY <1>8, <2>1, <2>2, <3>2, <3>3 DEF AloneBatch
    <3>8. tx'[c].stage \in {"lookup", "insert"} => \A s \in A' : UrlOf[s] # tx'[c].url
      BY <2>1, <2>2, <3>2, <3>3 DEF AloneBatch
    <3>9. DocsetView(c).count \in Nat
      BY <1>9 DEF DocsetRows
    <3>10. AloneBatch(tx[c], View(c), DocsetView(c))'
      BY <2>1, <2>2, <2>4, <3>3, <3>4, <3>5, <3>6, <3>7, <3>8, <3>9 DEF AloneBatch
    <3> QED
      BY <1>6, <2>1, <2>3, <3>1, <3>10
  <2>6. CASE tx[c].stage = "markAll"
    <3>1. FlushesRow(c, r, "deleted") /\ tx[c].stage \notin BatchStages
      BY <2>1, <2>6 DEF Activates, BatchStages
    <3>2. A' = A \ {r}
      BY <2>3, <3>1, ViewStep
    <3>3. D
      BY <1>5, <2>3, <3>1
    <3>4. A' \ tx'[c].dirty = A \ tx[c].dirty
      BY <2>1, <2>2, <3>2
    <3>5. AloneDeletion(tx[c], View(c), DocsetView(c))'
      BY <2>1, <2>4, <2>6, <3>3, <3>4 DEF AloneDeletion
    <3> QED
      BY <1>7, <2>1, <2>3, <2>6, <3>1, <3>5
  <2> QED
    BY <2>2, <2>5, <2>6
<1>17. CASE InsertDocument(c)
  <2>1. /\ tx'[c].todo = tx[c].todo \ {tx[c].url} /\ tx'[c].dirty = tx[c].dirty /\ tx[c].alone
        /\ tx'[c].loaded = tx[c].loaded /\ tx'[c].stage = "item"
    BY <1>3, <1>17, ItemSessions
  <2>2. /\ NotCommitted /\ wroteDocset' = wroteDocset /\ FlushesRow(c, tx[c].cur, "active") /\ tx[c].dirty = {}
        /\ tx[c].stage = "insert" /\ tx[c].stage \in BatchStages /\ tx[c].cur \in Rows
    BY <1>17 DEF InsertDocument, BatchStages, KeysOK, CurKnown
  <2>3. DocsetView(c)' = DocsetView(c)
    BY <2>2, ViewStep DEF NotCommitted
  <2>4. AloneBatch(tx[c], View(c), DocsetView(c))'
    BY <1>5, <2>1, <2>2, <2>3 DEF AloneBatch
  <2> QED
    BY <1>6, <2>1, <2>4 DEF BatchStages
<1>18. CASE CountActive(c)
  <2>1. /\ tx'[c].todo = tx[c].todo /\ tx'[c].dirty = tx[c].dirty /\ tx[c].alone
        /\ tx'[c].stage = "totals" /\ tx'[c].loaded = tx[c].loaded
        /\ tx'[c].counted = Cardinality(A) /\ tx'[c].late = tx[c].dirty
    BY <1>3, <1>18, Sessions
  <2>2. Reads /\ tx[c].stage = "item" /\ tx[c].stage \in BatchStages
    BY <1>18 DEF CountActive, BatchStages
  <2>3. View(c)' = View(c) /\ A' = A /\ DocsetView(c)' = DocsetView(c)
    BY <2>2, ViewStep DEF Reads
  <2>4. AloneBatch(tx[c], View(c), DocsetView(c))'
    BY <1>5, <2>1, <2>2, <2>3 DEF AloneBatch
  <2> QED
    BY <1>6, <2>1, <2>4 DEF BatchStages
<1>19. CASE WriteTotals(c)
  <2> DEFINE ds == [DocsetView(c) EXCEPT !.count = NewCount(c, DocsetView(c))]
  <2>1. /\ tx'[c].todo = tx[c].todo /\ tx'[c].dirty = tx[c].dirty /\ tx[c].alone
        /\ tx'[c].stage = "rows" /\ tx'[c].late = tx[c].late
    BY <1>3, <1>19, Sessions
  <2>2. /\ NotCommitted /\ wrote' = wrote /\ FlushesDocset(c, ds)
        /\ tx[c].stage = "totals" /\ tx[c].stage \in BatchStages
    BY <1>19 DEF WriteTotals, BatchStages
  <2>3. B
    BY <1>5, <2>1, <2>2
  <2>4. NewCount(c, DocsetView(c)) = Cardinality(A)
    BY <2>2, <2>3 DEF NewCount, AloneBatch
  <2>5. ds \in DocsetRows /\ ds.count = Cardinality(A)
    BY <1>8, <1>9, <2>4 DEF DocsetRows
  <2> HIDE DEF ds
  <2>6. DocsetView(c)'.count = Cardinality(A)
    BY <2>2, <2>5, ViewStep
  <2>7. View(c)' = View(c) /\ A' = A
    BY <2>2, ViewStep DEF NotCommitted
  <2>8. tx'[c].late = tx'[c].dirty /\ Cardinality(tx'[c].late \ tx'[c].dirty) = 0
    <3>1. tx'[c].late = tx'[c].dirty
      BY <2>1, <2>2, <2>3 DEF AloneBatch
    <3>2. tx'[c].late \ tx'[c].dirty = {}
      BY <3>1
    <3> QED
      BY <3>1, <3>2, FS_EmptySet
  <2>9. AloneBatch(tx[c], View(c), DocsetView(c))'
    BY <1>8, <2>1, <2>3, <2>6, <2>7, <2>8 DEF AloneBatch
  <2> QED
    BY <1>6, <2>1, <2>9 DEF BatchStages
<1>20. CASE MarkDeleted(c)
  <2>1. /\ tx'[c].dirty = tx[c].dirty /\ tx[c].alone /\ tx'[c].late = tx[c].late /\ tx'[c].stage = "find"
    BY <1>3, <1>20, Sessions
  <2>2. tx[c].stage = "mark" /\ tx[c].stage \notin BatchStages
    BY <1>20 DEF MarkDeleted, BatchStages
  <2>3. AloneDeletion(tx[c], View(c), DocsetView(c))'
    BY <1>5, <2>1, <2>2 DEF AloneDeletion
  <2> QED
    BY <1>7, <2>1, <2>3 DEF BatchStages
<1>21. CASE FindDocset(c)
  <2>1. /\ tx'[c].dirty = tx[c].dirty /\ tx[c].alone /\ tx'[c].late = tx[c].late /\ tx'[c].stage = "count"
        /\ tx'[c].loaded = docset.count
    BY <1>3, <1>21, Sessions
  <2>2. Reads /\ tx[c].stage = "find" /\ tx[c].stage \notin BatchStages
    BY <1>21 DEF FindDocset, BatchStages
  <2>3. DocsetView(c) = docset /\ DocsetView(c)' = DocsetView(c)
    BY <1>9, <2>2, ViewStep DEF DocsetKnown, DocsetView, Reads
  <2>4. AloneDeletion(tx[c], View(c), DocsetView(c))'
    BY <1>5, <2>1, <2>2, <2>3 DEF AloneDeletion
  <2> QED
    BY <1>7, <2>1, <2>4 DEF BatchStages
<1>22. CASE CountRemaining(c)
  <2>1. /\ tx'[c].dirty = tx[c].dirty /\ tx[c].alone /\ tx'[c].late = tx[c].late /\ tx'[c].stage = "prune"
        /\ tx'[c].loaded = tx[c].loaded /\ tx'[c].counted = Cardinality(A)
    BY <1>3, <1>22, Sessions
  <2>2. Reads /\ tx[c].stage = "count" /\ tx[c].stage \notin BatchStages
    BY <1>22 DEF CountRemaining, BatchStages
  <2>3. A' = A /\ DocsetView(c)' = DocsetView(c)
    BY <2>2, ViewStep DEF Reads
  <2>4. AloneDeletion(tx[c], View(c), DocsetView(c))'
    BY <1>5, <2>1, <2>2, <2>3 DEF AloneDeletion
  <2> QED
    BY <1>7, <2>1, <2>4 DEF BatchStages
<1>23. CASE Prune(c)
  <2> DEFINE ds == [state |-> IF tx[c].counted = 0 THEN "pruned" ELSE docset.state,
                    count |-> NewCount(c, docset)]
  <2>1. /\ tx'[c].dirty = tx[c].dirty /\ tx[c].alone /\ tx'[c].late = tx[c].late /\ tx'[c].stage = "markAll"
    BY <1>3, <1>23, Sessions
  <2>2. /\ NotCommitted /\ wrote' = wrote /\ FlushesDocset(c, ds)
        /\ tx[c].stage = "prune" /\ tx[c].stage \notin BatchStages
    BY <1>23 DEF Prune, BatchStages
  <2>3. D /\ DocsetView(c) = docset
    BY <1>5, <1>9, <2>1, <2>2 DEF DocsetKnown, DocsetView
  <2>4. NewCount(c, docset) = Cardinality(A)
    BY <2>2, <2>3 DEF NewCount, AloneDeletion
  <2>5. ds \in DocsetRows /\ ds.count = Cardinality(A)
    BY <1>8, <1>9, <2>4 DEF DocsetRows
  <2> HIDE DEF ds
  <2>6. DocsetView(c)'.count = Cardinality(A)
    BY <2>2, <2>5, ViewStep
  <2>7. A' = A
    BY <2>2, ViewStep DEF NotCommitted
  <2>8. A' \ tx'[c].dirty = A
    BY <2>1, <2>2, <2>3, <2>7 DEF AloneDeletion
  <2>9. AloneDeletion(tx[c], View(c), DocsetView(c))'
    BY <2>1, <2>3, <2>6, <2>8 DEF AloneDeletion
  <2> QED
    BY <1>7, <2>1, <2>9 DEF BatchStages
<1>24. CASE SelectMembers(c)
  <2>1. /\ tx'[c].dirty = Active(row) /\ tx[c].alone /\ tx'[c].late = tx[c].late /\ tx'[c].stage = "discard"
    BY <1>3, <1>24, Sessions
  <2>2. Reads /\ tx[c].stage = "members" /\ tx[c].stage \notin BatchStages
    BY <1>24 DEF SelectMembers, BatchStages
  <2>3. A' = A /\ A = Active(row)
    <3>1. \A r \in Rows : View(c)[r] = row[r]
      BY <1>9, <2>2 DEF DocsetKnown, View
    <3>2. A = Active(row)
      BY <3>1 DEF Active
    <3> QED
      BY <2>2, <3>2, ViewStep DEF Reads
  <2>4. AloneDeletion(tx[c], View(c), DocsetView(c))'
    BY <1>5, <2>1, <2>2, <2>3 DEF AloneDeletion
  <2> QED
    BY <1>7, <2>1, <2>4 DEF BatchStages
<1>25. CASE DiscardDocset(c)
  <2>1. /\ tx'[c].dirty = tx[c].dirty /\ tx[c].alone /\ tx'[c].late = tx[c].late /\ tx'[c].stage = "markAll"
    BY <1>3, <1>25, Sessions
  <2>2. /\ NotCommitted /\ wrote' = wrote /\ FlushesDocset(c, PrunedDocset)
        /\ tx[c].stage = "discard" /\ tx[c].stage \notin BatchStages
    BY <1>25 DEF DiscardDocset, BatchStages
  <2>3. A' = A
    BY <2>2, ViewStep DEF NotCommitted
  <2>4. A' \ tx'[c].dirty = {}
    BY <1>5, <2>1, <2>2, <2>3 DEF AloneDeletion
  <2>5. PrunedDocset \in DocsetRows /\ PrunedDocset.count = 0
    BY DEF PrunedDocset, DocsetRows
  <2>6. DocsetView(c)'.count = Cardinality(A' \ tx'[c].dirty)
    BY <2>2, <2>4, <2>5, ViewStep, FS_EmptySet
  <2>7. AloneDeletion(tx[c], View(c), DocsetView(c))'
    BY <1>5, <2>1, <2>2, <2>6 DEF AloneDeletion
  <2> QED
    BY <1>7, <2>1, <2>7 DEF BatchStages
<1> QED
  BY <1>10, <1>11, <1>12, <1>13, <1>14, <1>15, <1>16, <1>17, <1>18, <1>19, <1>20, <1>21, <1>22, <1>23,
     <1>24, <1>25 DEF Statement, Abort, Refused, DeadlockVictim, GiveUp

\* A request begins alone if no other one is in progress, and ends the solitude of others.
LEMMA BeginsLone ==
    ASSUME TypeOK, NEW c \in Clients, NEW t \in Transactions, Begins(c, t),
           t.dirty = {}, t.late = {}, t.stage \in {"docset", "mark", "members"}
    PROVE  AllLone'
<1>1. /\ tx[c].stage = "idle" /\ tx'[c].dirty = {} /\ tx'[c].late = {} /\ tx'[c].stage = t.stage
      /\ tx'[c].alone => \A e \in Clients \ {c} : tx[e].stage = "idle"
      /\ \A d \in Clients \ {c} : ~tx'[d].alone /\ tx'[d].stage = tx[d].stage
  BY BeginsEffect
<1>2. \A d \in Clients \ {c} : Lone(d)'
  BY <1>1 DEF Lone
<1>3. t.stage \in BatchStages => t.stage = "docset"
  BY DEF BatchStages
<1>4. tx'[c].stage = "docset" => AloneBatch(tx[c], View(c), DocsetView(c))'
  BY <1>1 DEF AloneBatch
<1>5. tx'[c].stage # "docset" => AloneDeletion(tx[c], View(c), DocsetView(c))'
  BY <1>1 DEF AloneDeletion
<1>6. Lone(c)'
  BY <1>1, <1>3, <1>4, <1>5 DEF Lone, BatchStages
<1> QED
  BY <1>2, <1>6 DEF AllLone

Alone == DocsetOK /\ AllLone

\* Every step keeps what a lone transaction knows.
LEMMA StepAlone == TypeOK /\ KeysOK /\ AllPrepared /\ Accepted /\ Alone /\ [Next]_vars => Alone'
<1> SUFFICES ASSUME TypeOK, KeysOK, AllPrepared, Accepted, Alone, [Next]_vars PROVE Alone'
  OBVIOUS
<1>1. ASSUME NEW c \in Clients, NEW S \in SUBSET Urls, SubmitBatch(c, S) PROVE Alone'
  <2> DEFINE t == [NoTransaction EXCEPT !.stage = "docset", !.todo = S]
  <2>1. t \in Transactions /\ t.dirty = {} /\ t.late = {} /\ t.stage = "docset"
    BY DEF NoTransaction, Transactions, Stages
  <2> HIDE DEF t
  <2>2. Begins(c, t)
    BY <1>1 DEF SubmitBatch, t
  <2> QED
    BY <2>1, <2>2, BeginsDocset, BeginsLone DEF Alone
<1>2. ASSUME NEW c \in Clients, NEW r \in Rows, DeleteDocument(c, r) PROVE Alone'
  <2> DEFINE t == [NoTransaction EXCEPT !.stage = "mark", !.cur = r]
  <2>1. t \in Transactions /\ t.dirty = {} /\ t.late = {} /\ t.stage = "mark"
    BY DEF NoTransaction, Transactions, Stages
  <2> HIDE DEF t
  <2>2. Begins(c, t) /\ row[r] = "active"
    BY <1>2 DEF DeleteDocument, t
  <2>3. docset.state # "absent"
    BY <2>2 DEF Alone, DocsetOK
  <2> QED
    BY <2>1, <2>2, <2>3, BeginsDocset, BeginsLone DEF Alone
<1>3. ASSUME NEW c \in Clients, DeleteDocset(c) PROVE Alone'
  <2> DEFINE t == [NoTransaction EXCEPT !.stage = "members", !.loaded = docset.count]
  <2>1. t \in Transactions /\ t.dirty = {} /\ t.late = {} /\ t.stage = "members"
    <3>1. docset.count \in Nat
      BY DEF TypeOK, DocsetRows
    <3> QED
      BY <3>1 DEF NoTransaction, Transactions, Stages
  <2> HIDE DEF t
  <2>2. Begins(c, t)
    BY <1>3 DEF DeleteDocset, t
  <2> QED
    BY <2>1, <2>2, BeginsDocset, BeginsLone DEF Alone
<1>4. ASSUME NEW c \in Clients, Statement(c) \/ Abort(c) PROVE Alone'
  BY <1>4, StatementDocset, StatementLone DEF Alone
<1>5. CASE UNCHANGED <<row, docset, wrote, wroteDocset, tx>>
  BY <1>5 DEF Alone, DocsetOK, DocsetKnown, AllLone, Lone, View, DocsetView
<1>6. ASSUME NEW j \in Jobs, NEW s \in {"live", "FAILED"}, Work(j, s) PROVE Alone'
  BY <1>5, <1>6 DEF Work
<1> QED
  BY <1>1, <1>2, <1>3, <1>4, <1>5, <1>6 DEF Next, Request, vars

\* There is no transaction in the beginning.
LEMMA InitAlone == Init => Alone
<1> SUFFICES ASSUME Init PROVE Alone
  OBVIOUS
<1>1. \A c \in Clients : /\ tx[c] = NoTransaction /\ wroteDocset[c] = None
                         /\ \A r \in Rows : wrote[c][r] = None
  BY DEF Init
<1>2. docset.state = "absent" => docset.count = 0 /\ \A r \in Rows : row[r] = "absent"
  <2>1. PICK gone \in Earlier \cup {0} :
           /\ row = [r \in Rows |-> IF r = gone THEN "deleted" ELSE "absent"]
           /\ docset \in IF gone = 0 THEN {NoDocset, EmptyDocset} ELSE {PrunedDocset}
    BY DEF Init
  <2>2. docset.state = "absent" => gone = 0 /\ docset.count = 0
    BY <2>1 DEF NoDocset, EmptyDocset, PrunedDocset
  <2> QED
    BY <2>1, <2>2, RegistryAssumption
<1>3. \A c \in Clients : DocsetKnown(c)
  BY <1>1 DEF DocsetKnown, NoTransaction
<1>4. AllLone
  BY <1>1 DEF AllLone, Lone, NoTransaction
<1> QED
  BY <1>2, <1>3, <1>4 DEF Alone, DocsetOK

\* The invariant of Registry.
RegistryInv == TypeOK /\ KeysOK /\ Unique /\ AllPrepared /\ DocumentsHaveJobs /\ Accepted /\ Alone

\* The invariant holds in every reachable state.
LEMMA RegistryInvAlways == Spec => []RegistryInv
<1>1. Init => RegistryInv
  BY InitType, InitUnique, InitPrepared, InitAccepted, InitAlone DEF RegistryInv
<1>2. RegistryInv /\ [Next]_vars => RegistryInv'
  BY StepType, StepUnique, StepPrepared, StepAccepted, StepAlone DEF RegistryInv
<1> QED
  BY <1>1, <1>2, PTL DEF Spec

\* What the invariant says of a count that is about to be committed.
LEMMA LoneCounts == RegistryInv => LoneRequestCounts
<1> SUFFICES ASSUME RegistryInv, NEW c \in Clients,
                    tx[c].alone, tx[c].stage \in {"rows", "markAll"}, tx[c].dirty = {}
             PROVE  DocsetView(c).count + Cardinality(tx[c].late) = Cardinality(Active(View(c)))
  BY DEF LoneRequestCounts
<1>1. Lone(c)
  BY DEF RegistryInv, Alone, AllLone
<1>2. DocsetView(c).count \in Nat /\ Cardinality(Active(View(c))) \in Nat
  BY ViewType, CountIsNat DEF RegistryInv, DocsetRows
<1>3. CASE tx[c].stage = "rows"
  <2>1. AloneBatch(tx[c], View(c), DocsetView(c))
    BY <1>1, <1>3 DEF Lone, BatchStages
  <2>2. tx[c].late \ tx[c].dirty = tx[c].late
    OBVIOUS
  <2> QED
    BY <1>3, <2>1, <2>2 DEF AloneBatch
<1>4. CASE tx[c].stage = "markAll"
  <2>1. AloneDeletion(tx[c], View(c), DocsetView(c))
    BY <1>1, <1>4 DEF Lone, BatchStages
  <2>2. Active(View(c)) \ tx[c].dirty = Active(View(c)) /\ tx[c].late = {}
    BY <2>1 DEF AloneDeletion
  <2>3. Cardinality(tx[c].late) = 0
    BY <2>2, FS_EmptySet
  <2> QED
    BY <1>2, <1>4, <2>1, <2>2, <2>3 DEF AloneDeletion
<1> QED
  BY <1>3, <1>4

\* What the invariant says of the locks and the URLs of a request that is alone.
LEMMA LoneSucceeds == RegistryInv => LoneRequestSucceeds
<1> SUFFICES ASSUME RegistryInv, NEW c \in Clients, tx[c].alone
             PROVE  ~InDeadlock(c) /\ ~(Activates(c) /\ \E r \in NextWrite(c) : KeyTaken(c, r))
  BY DEF LoneRequestSucceeds
<1>1. Lone(c) /\ OwnKey(c)
  BY DEF RegistryInv, Alone, AllLone, Accepted
<1>2. \A d \in Clients \ {c} : wroteDocset[d] = None /\ \A r \in Rows : wrote[d][r] = None
  BY <1>1 DEF Lone, RegistryInv, Alone, DocsetOK, DocsetKnown, AllPrepared, PreparedOK
<1>3. NextWrite(c) \subseteq Rows
  BY TxType DEF NextWrite, RegistryInv, KeysOK, CurKnown
<1>4. \A d \in Clients : ~WaitsFor(c, d)
  BY <1>2, <1>3 DEF WaitsFor, SameUrl
<1>5. ~InDeadlock(c)
  BY <1>4 DEF InDeadlock
<1>6. ASSUME Activates(c), NEW r \in NextWrite(c), KeyTaken(c, r) PROVE FALSE
  <2>1. tx[c].stage \in {"insert", "rows"} /\ tx[c].stage \in BatchStages
    BY <1>6 DEF Activates, BatchStages
  <2>2. AloneBatch(tx[c], View(c), DocsetView(c))
    BY <1>1, <2>1 DEF Lone
  <2>3. PICK s \in Active(View(c)) : UrlOf[s] = UrlOf[r]
    BY <1>6 DEF KeyTaken, SameUrl, Active
  <2>4. r \notin tx[c].dirty
    BY <2>2, <2>3 DEF AloneBatch
  <2>5. tx[c].stage = "insert" /\ r = tx[c].cur
    BY <1>6, <2>1, <2>4 DEF NextWrite
  <2> QED
    BY <1>1, <2>2, <2>3, <2>5 DEF AloneBatch, OwnKey
<1> QED
  BY <1>5, <1>6

(* Whatever counts overlapping requests have left, a request that overlaps  *)
(* with no other one commits the number of active documents, less those it  *)
(* has reactivated without a flush.                                         *)
THEOREM RegistryCountsHeal == Spec => []LoneRequestCounts
<1>1. RegistryInv => LoneRequestCounts
  BY LoneCounts
<1> QED
  BY <1>1, RegistryInvAlways, PTL

(* A request that overlaps with no other one is not refused by an index and *)
(* never in a deadlock, whatever the tables hold.                           *)
THEOREM RegistryLoneSucceeds == Spec => []LoneRequestSucceeds
<1>1. RegistryInv => LoneRequestSucceeds
  BY LoneSucceeds
<1> QED
  BY <1>1, RegistryInvAlways, PTL

-----------------------------------------------------------------------------
(***************************************************************************)
(* Requests that wait.  The prover cannot expand ENABLED, so the next      *)
(* statement of a request is described by its guards.                      *)
(***************************************************************************)

\* The guards of Statement(c), except for the victim of a deadlock: reads wait for nobody,
\* a transaction with nothing left to flush is committed, and what writes is free.
MayMove(c) ==
    \/ tx[c].stage \in {"docset", "item", "latest", "lookup", "find", "count", "members"}
    \/ tx[c].stage \in {"rows", "markAll"} /\ tx[c].dirty = {}
    \/ /\ Free(c)
       /\ \/ tx[c].stage \in {"create", "revive", "totals", "mark", "prune", "discard"}
          \/ tx[c].stage = "insert" /\ tx[c].dirty = {}
          \/ \E r \in NextWrite(c) : r \in tx[c].dirty

InProgress == {c \in Clients : tx[c].stage # "idle"}

\* Some request in progress goes on, or is in a circle of which PostgreSQL fails one.
NobodyIsStuck == InProgress # {} => \E c \in Clients : MayMove(c) \/ InDeadlock(c)

\* A flush has a document to begin with.
LEMMA FlushBegins ==
    ASSUME TypeOK, NEW c \in Clients,
           tx[c].stage \in {"insert", "rows", "markAll"}, tx[c].dirty # {}
    PROVE  \E r \in NextWrite(c) : r \in tx[c].dirty
<1>1. tx[c].dirty \in SUBSET Nat
  BY TxType, RegistryAssumption
<1>2. PICK r \in tx[c].dirty : \A s \in tx[c].dirty : r <= s
  BY <1>1, Least
<1> QED
  BY <1>2 DEF NextWrite

\* Whoever waits for nobody goes on.
LEMMA FreeMoves ==
    ASSUME TypeOK, NEW c \in Clients, tx[c].stage # "idle", Free(c)
    PROVE  MayMove(c)
<1>1. tx[c].stage \in Stages
  BY TxType DEF Transactions
<1>2. CASE tx[c].stage \in {"insert", "rows", "markAll"}
  BY <1>2, FlushBegins DEF MayMove
<1>3. CASE tx[c].stage \notin {"insert", "rows", "markAll"}
  BY <1>1, <1>3 DEF MayMove, Stages
<1> QED
  BY <1>2, <1>3

\* Requests wait only for other requests in progress: whatever ends a transaction unlocks
\* all that it has written.
LEMMA WaitsForProgress ==
    ASSUME RegistryInv, NEW c \in Clients, NEW d \in Clients, WaitsFor(c, d)
    PROVE  d \in InProgress /\ d # c
<1>1. NextWrite(c) \subseteq Rows
  BY TxType DEF NextWrite, RegistryInv, KeysOK, CurKnown
<1>2. wroteDocset[d] # None \/ \E r \in Rows : wrote[d][r] # None
  BY <1>1 DEF WaitsFor, SameUrl
<1>3. tx[d].stage = "idle" => wroteDocset[d] = None /\ \A r \in Rows : wrote[d][r] = None
  BY DEF RegistryInv, Alone, DocsetOK, DocsetKnown, AllPrepared, PreparedOK
<1> QED
  BY <1>2, <1>3 DEF InProgress, WaitsFor

\* Of some clients who all wait for one of them, the fewest of this kind are a circle: a
\* client that nobody waits for could be left out.
LEMMA SomeCircle ==
    ASSUME NEW B \in SUBSET Clients, B # {}, \A x \in B : \E y \in B : WaitsFor(x, y)
    PROVE  \E c \in B : InDeadlock(c)
<1> DEFINE closed == {S \in SUBSET B : S # {} /\ \A x \in S : \E y \in S : WaitsFor(x, y)}
           sizes == {Cardinality(S) : S \in closed}
<1>1. \A S \in closed : IsFiniteSet(S) /\ Cardinality(S) \in Nat
  BY RegistryAssumption, FS_Subset, FS_CardinalityType
<1>2. PICK S \in closed : \A T \in closed : Cardinality(S) <= Cardinality(T)
  <2>1. B \in closed
    OBVIOUS
  <2> HIDE DEF closed
  <2>2. sizes \in SUBSET Nat /\ sizes # {}
    BY <1>1, <2>1
  <2>3. PICK m \in sizes : \A k \in sizes : m <= k
    <3> HIDE DEF sizes
    <3> QED
      BY <2>2, Least
  <2>4. \A T \in closed : m <= Cardinality(T)
    BY <2>3
  <2> QED
    BY <2>3, <2>4
<1>3. S \subseteq Clients /\ S # {} /\ \A x \in S : \E y \in S : WaitsFor(x, y)
  OBVIOUS
<1>4. ASSUME NEW x \in S PROVE \E y \in S : WaitsFor(y, x)
  <2> SUFFICES ASSUME \A y \in S : ~WaitsFor(y, x) PROVE FALSE
    OBVIOUS
  <2> DEFINE T == S \ {x}
  <2>1. ~WaitsFor(x, x)
    OBVIOUS
  <2>2. \A y \in T : \E z \in T : WaitsFor(y, z)
    BY <1>3
  <2>3. T # {}
    BY <1>3, <2>1
  <2>4. T \in closed
    BY <2>2, <2>3
  <2>5. Cardinality(T) = Cardinality(S) - 1 /\ Cardinality(S) \in Nat
    <3> HIDE DEF closed
    <3> QED
      BY <1>1, <1>4, FS_RemoveElement
  <2> HIDE DEF closed, T
  <2> QED
    BY <1>1, <1>2, <2>4, <2>5
<1>5. PICK c \in S : TRUE
  BY <1>3
<1> QED
  BY <1>3, <1>4, <1>5 DEF InDeadlock

\* What the invariant says of requests that wait.
LEMMA SomebodyMoves == RegistryInv => NobodyIsStuck
<1> SUFFICES ASSUME RegistryInv, InProgress # {}, \A c \in Clients : ~MayMove(c)
             PROVE  \E c \in Clients : InDeadlock(c)
  BY DEF NobodyIsStuck
<1>1. InProgress \in SUBSET Clients
  BY DEF InProgress
<1>2. ASSUME NEW c \in InProgress PROVE \E d \in InProgress : WaitsFor(c, d)
  <2>1. c \in Clients /\ tx[c].stage # "idle" /\ TypeOK
    BY <1>2 DEF InProgress, RegistryInv
  <2>2. ~Free(c)
    BY <2>1, FreeMoves
  <2> QED
    BY <2>1, <2>2, WaitsForProgress DEF Free
<1> QED
  BY <1>1, <1>2, SomeCircle

(* Requests never wait for one another for good, for any number of them and *)
(* of documents: while a request is in progress, one has a next statement,  *)
(* or waits in a circle that PostgreSQL breaks.                             *)
THEOREM RegistryNeverStuck == Spec => []NobodyIsStuck
<1>1. RegistryInv => NobodyIsStuck
  BY SomebodyMoves
<1> QED
  BY <1>1, RegistryInvAlways, PTL

-----------------------------------------------------------------------------
(***************************************************************************)
(* Requests that come one at a time, as Ingestion takes them.              *)
(***************************************************************************)

\* Restriction: a request begins when no other one is in progress.  Workers and failures
\* are free to act.
OneAtATime == \A c, d \in InProgress : c = d

SerialRequests == Init /\ [][Next /\ OneAtATime']_vars

\* A pruned docset is empty, and no more documents are counted than there are.
TablesAgree == PrunedMeansEmpty /\ docset.count <= Cardinality(Active(row))

\* What a request that was never overlapped knows: a document is deleted from a docset that
\* is not pruned, a batch has one to add to, and what is pruned is counted empty.
Serially(c) ==
    /\ tx[c].stage # "idle" => tx[c].alone
    /\ tx[c].stage \in {"mark", "find", "count", "prune"} => docset.state # "pruned"
    /\ tx[c].stage \in {"item", "latest", "lookup", "insert", "totals", "rows"} =>
          DocsetView(c).state # "pruned"
    /\ tx[c].stage = "markAll" /\ DocsetView(c).state = "pruned" => DocsetView(c).count = 0

SerialInv == TablesAgree /\ \A c \in Clients : Serially(c)

\* Nothing is active when nothing is counted.
LEMMA NoneActive ==
    ASSUME NEW view, Cardinality(Active(view)) = 0
    PROVE  Active(view) = {}
  BY ActiveFinite, FS_EmptySet

\* Some request is in progress: then it is the only one.
LEMMA OnlyOne ==
    ASSUME RegistryInv, SerialInv, NEW c \in Clients, tx[c].stage # "idle"
    PROVE  tx[c].alone /\ Lone(c) /\ \A d \in Clients \ {c} : tx[d].stage = "idle"
<1>1. Serially(c) /\ Lone(c)
  BY DEF SerialInv, RegistryInv, Alone, AllLone
<1> QED
  BY <1>1 DEF Serially, Lone

\* A request that begins alone is alone.
LEMMA BeginsSerially ==
    ASSUME RegistryInv, SerialInv, NEW c \in Clients, NEW t \in Transactions, Begins(c, t),
           t.stage \in {"docset", "mark", "members"}, t.stage = "mark" => docset.state # "pruned",
           OneAtATime'
    PROVE  SerialInv'
<1> DEFINE other == \A e \in Clients \ {c} : tx[e].stage = "idle"
<1>1. /\ UNCHANGED <<row, docset, wrote, wroteDocset>> /\ tx'[c].stage = t.stage
      /\ \A d \in Clients \ {c} : tx'[d].stage = tx[d].stage
  BY BeginsEffect DEF RegistryInv
<1>2. \A d \in Clients \ {c} : tx'[d].stage = "idle"
  BY <1>1 DEF OneAtATime, InProgress
<1>3. other
  BY <1>1, <1>2
<1>4. tx'[c].alone
  <2> HIDE DEF other
  <2>1. tx'[c] = [t EXCEPT !.alone = other]
    BY DEF Begins, other
  <2> QED
    BY <1>3, <2>1 DEF Transactions
<1>5. Serially(c)'
  BY <1>1, <1>4 DEF Serially
<1>6. \A d \in Clients \ {c} : Serially(d)'
  BY <1>2 DEF Serially
<1>7. TablesAgree'
  BY <1>1 DEF SerialInv, TablesAgree, PrunedMeansEmpty, Active
<1> QED
  BY <1>5, <1>6, <1>7 DEF SerialInv

\* A statement of the only request, or its end.
LEMMA StatementSerially ==
    ASSUME RegistryInv, SerialInv, NEW c \in Clients, Statement(c) \/ Abort(c)
    PROVE  SerialInv'
<1> DEFINE view == DocsetView(c)
<1>1. TypeOK /\ Serially(c) /\ TablesAgree
  BY DEF RegistryInv, SerialInv
<1>2. tx[c].stage # "idle" /\ \A d \in Clients \ {c} : tx'[d] = tx[d]
  BY <1>1, Moved
<1>3. tx[c].alone /\ Lone(c) /\ \A d \in Clients \ {c} : tx[d].stage = "idle"
  BY <1>2, OnlyOne
<1>4. \A d \in Clients \ {c} : Serially(d)'
  BY <1>2, <1>3 DEF Serially
<1>5. SUFFICES Serially(c)' /\ TablesAgree'
  BY <1>4 DEF SerialInv
<1>6. row' = row /\ docset' = docset => TablesAgree'
  BY <1>1 DEF TablesAgree, PrunedMeansEmpty, Active
<1>7. docset \in DocsetRows /\ view \in DocsetRows /\ tx[c].counted \in Nat
  BY <1>1, ViewType, TxType DEF TypeOK
<1>8. tx[c].stage \notin BatchStages => AloneDeletion(tx[c], View(c), view)
  BY <1>3 DEF Lone
\* The request has ended.
<1>9. \A t : Goes(c, t) => tx'[c] = t
  BY <1>1 DEF Goes, TypeOK
<1>10. Goes(c, NoTransaction) => Serially(c)'
  BY <1>9 DEF Serially, NoTransaction
<1>11. CASE Rollback(c)
  BY <1>6, <1>10, <1>11 DEF Rollback, NotCommitted
<1>12. CASE Commit(c)
  <2>1. /\ row' = View(c) /\ docset' = view /\ Goes(c, NoTransaction)
        /\ tx[c].stage \in {"rows", "markAll"} /\ tx[c].dirty = {}
    BY <1>12 DEF Commit
  <2>2. view.count + Cardinality(tx[c].late) = Cardinality(Active(View(c)))
    BY <1>3, <2>1, LoneCounts DEF LoneRequestCounts
  <2>3. Cardinality(tx[c].late) \in Nat
    <3>1. tx[c].late \subseteq Rows
      BY <1>1, TxType DEF Transactions
    <3> QED
      BY <3>1, RegistryAssumption, FS_Subset, FS_CardinalityType
  <2>4. view.count \in Nat /\ view.count <= Cardinality(Active(View(c)))
    BY <1>7, <2>2, <2>3 DEF DocsetRows
  <2>5. ASSUME view.state = "pruned" PROVE Active(View(c)) = {}
    <3>1. tx[c].stage = "markAll" /\ view.count = 0
      BY <1>1, <2>1, <2>5 DEF Serially
    <3>2. Active(View(c)) \ tx[c].dirty = Active(View(c))
      BY <2>1
    <3>3. Cardinality(Active(View(c))) = 0
      BY <1>8, <3>1, <3>2 DEF AloneDeletion, BatchStages
    <3> QED
      BY <3>3, NoneActive
  <2> QED
    BY <1>10, <2>1, <2>4, <2>5 DEF TablesAgree, PrunedMeansEmpty, Active
\* A statement that commits nothing and leaves the docset alone.
<1>13. ASSUME NotCommitted, wroteDocset' = wroteDocset, tx'[c].alone = tx[c].alone,
              \/ tx'[c].stage = tx[c].stage
              \/ /\ tx'[c].stage \in {"item", "latest", "lookup", "insert", "totals", "rows"}
                 /\ tx[c].stage \in {"item", "latest", "lookup", "insert", "totals", "rows"}
              \/ /\ tx'[c].stage \in {"find", "count", "prune"}
                 /\ tx[c].stage \in {"mark", "find", "count"}
              \/ tx'[c].stage = "discard"
       PROVE  Serially(c)' /\ TablesAgree'
  <2>1. row' = row /\ docset' = docset /\ DocsetView(c)' = view
    BY <1>13 DEF NotCommitted, DocsetView
  <2> HIDE DEF view
  <2> QED
    BY <1>1, <1>3, <1>6, <1>13, <2>1 DEF Serially, view
\* A statement that flushes the docset.
<1>14. ASSUME NEW ds \in DocsetRows, FlushesDocset(c, ds), NotCommitted, tx'[c].alone = tx[c].alone,
              \/ tx'[c].stage \in {"item", "rows"} /\ ds.state # "pruned"
              \/ tx'[c].stage = "markAll" /\ (ds.state = "pruned" => ds.count = 0)
       PROVE  Serially(c)' /\ TablesAgree'
  <2>1. row' = row /\ docset' = docset /\ DocsetView(c)' = ds
    BY <1>1, <1>14, ViewStep DEF NotCommitted
  <2> QED
    BY <1>3, <1>6, <1>14, <2>1 DEF Serially
<1>15. CASE ReadDocset(c)
  <2>1. /\ tx'[c].stage = IF docset.state = "absent" THEN "create"
                          ELSE IF docset.state = "pruned" THEN "revive" ELSE "item"
        /\ Reads /\ tx[c].stage = "docset" /\ tx'[c].alone = tx[c].alone
    BY <1>1, <1>15, Sessions, Zenon DEF ReadDocset
  <2>2. wroteDocset[c] = None
    BY <2>1 DEF RegistryInv, Alone, DocsetOK, DocsetKnown
  <2>3. row' = row /\ docset' = docset /\ DocsetView(c)' = docset
    BY <2>1, <2>2 DEF Reads, DocsetView
  <2> QED
    BY <1>3, <1>6, <2>1, <2>3 DEF Serially
<1>16. CASE CreateDocset(c) \/ ReviveDocset(c)
  <2>1. /\ tx'[c].stage = "item" /\ NotCommitted /\ tx'[c].alone = tx[c].alone
        /\ FlushesDocset(c, EmptyDocset) \/ FlushesDocset(c, [docset EXCEPT !.state = "active"])
    BY <1>1, <1>16, Sessions, Zenon DEF CreateDocset, ReviveDocset
  <2>2. /\ EmptyDocset \in DocsetRows /\ EmptyDocset.state = "active"
        /\ [docset EXCEPT !.state = "active"] \in DocsetRows /\ [docset EXCEPT !.state = "active"].state = "active"
    BY <1>7 DEF EmptyDocset, DocsetRows
  <2> QED
    BY <1>14, <2>1, <2>2, Zenon
<1>17. CASE InspectActive(c) \/ InspectJob(c) \/ InspectDeleted(c)
  <2>1. tx'[c].stage \in {"item", "latest", "lookup", "insert"} /\ tx'[c].alone = tx[c].alone
    <3>1. InspectActive(c) => tx'[c].stage \in {"latest", "lookup"} /\ tx'[c].alone = tx[c].alone
      BY <1>1, ItemSessions
    <3>2. InspectJob(c) => tx'[c].stage = "item" /\ tx'[c].alone = tx[c].alone
      BY <1>1, ItemSessions, Zenon
    <3>3. InspectDeleted(c) => tx'[c].stage \in {"item", "insert"} /\ tx'[c].alone = tx[c].alone
      BY <1>1, ItemSessions
    <3> QED
      BY <1>17, <3>1, <3>2, <3>3
  <2>2. /\ tx[c].stage \in {"item", "latest", "lookup"}
        /\ NotCommitted /\ wroteDocset' = wroteDocset
    BY <1>17 DEF InspectActive, InspectJob, InspectDeleted, Reads, NotCommitted
  <2> QED
    BY <1>13, <2>1, <2>2, Zenon
<1>18. CASE FlushDocument(c) \/ InsertDocument(c) \/ MarkDeleted(c)
  <2>1. NotCommitted /\ wroteDocset' = wroteDocset
    BY <1>18 DEF FlushDocument, InsertDocument, MarkDeleted
  <2>2. FlushDocument(c) => tx'[c].alone = tx[c].alone /\ tx'[c].stage = tx[c].stage
    BY <1>1, Sessions, Zenon
  <2>3. InsertDocument(c) =>
           tx'[c].alone = tx[c].alone /\ tx'[c].stage = "item" /\ tx[c].stage = "insert"
    BY <1>1, ItemSessions, Zenon DEF InsertDocument
  <2>4. MarkDeleted(c) =>
           tx'[c].alone = tx[c].alone /\ tx'[c].stage = "find" /\ tx[c].stage = "mark"
    BY <1>1, Sessions, Zenon DEF MarkDeleted
  <2> QED
    BY <1>13, <1>18, <2>1, <2>2, <2>3, <2>4
<1>19. CASE CountActive(c) \/ FindDocset(c) \/ CountRemaining(c) \/ SelectMembers(c)
  <2>1. NotCommitted /\ wroteDocset' = wroteDocset
    BY <1>19 DEF CountActive, FindDocset, CountRemaining, SelectMembers, Reads, NotCommitted
  <2>2. CountActive(c) =>
           tx'[c].alone = tx[c].alone /\ tx'[c].stage = "totals" /\ tx[c].stage = "item"
    BY <1>1, Sessions, Zenon DEF CountActive
  <2>3. FindDocset(c) =>
           tx'[c].alone = tx[c].alone /\ tx'[c].stage = "count" /\ tx[c].stage = "find"
    BY <1>1, Sessions, Zenon DEF FindDocset
  <2>4. CountRemaining(c) =>
           tx'[c].alone = tx[c].alone /\ tx'[c].stage = "prune" /\ tx[c].stage = "count"
    BY <1>1, Sessions, Zenon DEF CountRemaining
  <2>5. SelectMembers(c) => tx'[c].alone = tx[c].alone /\ tx'[c].stage = "discard"
    BY <1>1, Sessions, Zenon
  <2> QED
    BY <1>13, <1>19, <2>1, <2>2, <2>3, <2>4, <2>5
<1>20. CASE WriteTotals(c)
  <2> DEFINE ds == [view EXCEPT !.count = NewCount(c, view)]
  <2>1. /\ FlushesDocset(c, ds) /\ NotCommitted /\ tx'[c].alone = tx[c].alone
        /\ tx'[c].stage = "rows" /\ tx[c].stage = "totals"
    BY <1>1, <1>20, Sessions, Zenon DEF WriteTotals
  <2>2. ds \in DocsetRows /\ ds.state = view.state
    BY <1>7 DEF NewCount, DocsetRows
  <2> HIDE DEF ds
  <2>3. view.state # "pruned"
    BY <1>1, <2>1 DEF Serially
  <2> QED
    BY <1>14, <2>1, <2>2, <2>3
<1>21. CASE Prune(c)
  <2> DEFINE ds == [state |-> IF tx[c].counted = 0 THEN "pruned" ELSE docset.state,
                    count |-> NewCount(c, docset)]
  <2>1. /\ FlushesDocset(c, ds) /\ NotCommitted /\ tx'[c].alone = tx[c].alone
        /\ tx'[c].stage = "markAll" /\ tx[c].stage = "prune"
    BY <1>1, <1>21, Sessions, Zenon DEF Prune
  <2>2. ds \in DocsetRows
    BY <1>7 DEF NewCount, DocsetRows
  <2>3. docset.state # "pruned" /\ wroteDocset[c] = None
    BY <1>1, <2>1 DEF Serially, RegistryInv, Alone, DocsetOK, DocsetKnown
  <2>4. tx[c].loaded = docset.count
    BY <1>8, <2>1, <2>3 DEF AloneDeletion, BatchStages, DocsetView
  <2>5. ds.state = "pruned" => ds.count = 0
    BY <2>3, <2>4 DEF NewCount
  <2> HIDE DEF ds
  <2> QED
    BY <1>14, <2>1, <2>2, <2>5
<1>22. CASE DiscardDocset(c)
  <2>1. /\ FlushesDocset(c, PrunedDocset) /\ NotCommitted /\ tx'[c].stage = "markAll"
        /\ tx'[c].alone = tx[c].alone
    BY <1>1, <1>22, Sessions, Zenon DEF DiscardDocset
  <2>2. PrunedDocset \in DocsetRows /\ PrunedDocset.count = 0
    BY DEF PrunedDocset, DocsetRows
  <2> QED
    BY <1>14, <2>1, <2>2, Zenon
<1> QED
  BY <1>11, <1>12, <1>15, <1>16, <1>17, <1>18, <1>19, <1>20, <1>21, <1>22
     DEF Statement, Abort, Refused, DeadlockVictim, GiveUp

\* Every step of requests that come one at a time.
LEMMA StepSerially == RegistryInv /\ SerialInv /\ [Next /\ OneAtATime']_vars => SerialInv'
<1> SUFFICES ASSUME RegistryInv, SerialInv, [Next /\ OneAtATime']_vars PROVE SerialInv'
  OBVIOUS
<1>1. ASSUME NEW c \in Clients, NEW S \in SUBSET Urls, SubmitBatch(c, S), OneAtATime' PROVE SerialInv'
  <2> DEFINE t == [NoTransaction EXCEPT !.stage = "docset", !.todo = S]
  <2>1. t \in Transactions /\ t.stage = "docset"
    BY DEF NoTransaction, Transactions, Stages
  <2> HIDE DEF t
  <2>2. Begins(c, t)
    BY <1>1 DEF SubmitBatch, t
  <2> QED
    BY <1>1, <2>1, <2>2, BeginsSerially
<1>2. ASSUME NEW c \in Clients, NEW r \in Rows, DeleteDocument(c, r), OneAtATime' PROVE SerialInv'
  <2> DEFINE t == [NoTransaction EXCEPT !.stage = "mark", !.cur = r]
  <2>1. t \in Transactions /\ t.stage = "mark"
    BY DEF NoTransaction, Transactions, Stages
  <2> HIDE DEF t
  <2>2. Begins(c, t) /\ row[r] = "active"
    BY <1>2 DEF DeleteDocument, t
  <2>3. docset.state # "pruned"
    BY <2>2 DEF SerialInv, TablesAgree, PrunedMeansEmpty, Active
  <2> QED
    BY <1>2, <2>1, <2>2, <2>3, BeginsSerially
<1>3. ASSUME NEW c \in Clients, DeleteDocset(c), OneAtATime' PROVE SerialInv'
  <2> DEFINE t == [NoTransaction EXCEPT !.stage = "members", !.loaded = docset.count]
  <2>1. t \in Transactions /\ t.stage = "members"
    <3>1. docset.count \in Nat
      BY DEF RegistryInv, TypeOK, DocsetRows
    <3> QED
      BY <3>1 DEF NoTransaction, Transactions, Stages
  <2> HIDE DEF t
  <2>2. Begins(c, t)
    BY <1>3 DEF DeleteDocset, t
  <2> QED
    BY <1>3, <2>1, <2>2, BeginsSerially
<1>4. ASSUME NEW c \in Clients, Statement(c) \/ Abort(c) PROVE SerialInv'
  BY <1>4, StatementSerially
<1>5. CASE UNCHANGED <<row, docset, wroteDocset, tx>>
  BY <1>5 DEF SerialInv, TablesAgree, PrunedMeansEmpty, Active, Serially, DocsetView
<1>6. ASSUME NEW j \in Jobs, NEW s \in {"live", "FAILED"}, Work(j, s) PROVE SerialInv'
  BY <1>5, <1>6 DEF Work
<1> QED
  BY <1>1, <1>2, <1>3, <1>4, <1>5, <1>6 DEF Next, Request, vars

\* No document is active in the beginning.
LEMMA InitSerially == Init => SerialInv
<1> SUFFICES ASSUME Init PROVE SerialInv
  OBVIOUS
<1>1. \A c \in Clients : Serially(c)
  BY DEF Init, Serially, NoTransaction
<1>2. PICK gone \in Earlier \cup {0} :
         /\ row = [r \in Rows |-> IF r = gone THEN "deleted" ELSE "absent"]
         /\ docset \in IF gone = 0 THEN {NoDocset, EmptyDocset} ELSE {PrunedDocset}
  BY DEF Init
<1>3. docset.count = 0 /\ Active(row) = {}
  BY <1>2 DEF NoDocset, EmptyDocset, PrunedDocset, Active
<1>4. Cardinality(Active(row)) = 0
  BY <1>3, FS_EmptySet
<1> QED
  BY <1>1, <1>3, <1>4 DEF SerialInv, TablesAgree, PrunedMeansEmpty

(* What PruneRace refutes for requests that overlap holds when they come    *)
(* one at a time, statement by statement, with workers and failures in      *)
(* between: a pruned docset has no active document, and document_count is   *)
(* at most the number of active documents.                                  *)
THEOREM SerialRequestsAgree == SerialRequests => []TablesAgree
<1>1. Init => RegistryInv /\ SerialInv
  BY InitType, InitUnique, InitPrepared, InitAccepted, InitAlone, InitSerially DEF RegistryInv
<1>2. RegistryInv /\ SerialInv /\ [Next /\ OneAtATime']_vars => RegistryInv' /\ SerialInv'
  <2>1. RegistryInv /\ [Next]_vars => RegistryInv'
    BY StepType, StepUnique, StepPrepared, StepAccepted, StepAlone DEF RegistryInv
  <2> QED
    BY <2>1, StepSerially
<1>3. SerialInv => TablesAgree
  BY DEF SerialInv
<1> QED
  BY <1>1, <1>2, <1>3, PTL DEF SerialRequests
=============================================================================
