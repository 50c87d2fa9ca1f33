------------------------- MODULE IndexPipelineProofs -------------------------
(***************************************************************************)
(* Proofs about IndexPipeline for every set of targets, URLs, collections  *)
(* and contents, every channel and batch size, and every bound.            *)
(***************************************************************************)
EXTENDS IndexPipeline, FiniteSetTheorems, TLAPS

USE NoneAssumption, TopologyAssumption, BoundsAssumption

-----------------------------------------------------------------------------
(* Type correctness *)

\* A queued deletion only ever names URLs.
LEMMA QueuedDeletesAreUrls ==
    ASSUME TypeOK
    PROVE  /\ QueuedDeletes \subseteq Url
           /\ UNION {deleteQ[i] : i \in DOMAIN deleteQ} \subseteq Url
<1>1. \A t \in Target : removing[t] \subseteq Url
  BY DEF TypeOK
<1>2. \A i \in DOMAIN deleteQ : deleteQ[i] \subseteq Url
  BY DEF TypeOK
<1>3. ASSUME NEW x, x \in QueuedDeletes PROVE x \in Url
  <2>1. PICK S : /\ x \in S
                 /\ S \in {removing[t] : t \in Target} \cup {deleteQ[i] : i \in DOMAIN deleteQ}
    BY <1>3 DEF QueuedDeletes
  <2> QED BY <2>1, <1>1, <1>2
<1>4. ASSUME NEW x, x \in UNION {deleteQ[i] : i \in DOMAIN deleteQ} PROVE x \in Url
  BY <1>2, <1>4
<1> QED BY <1>3, <1>4

\* crawled_pages::upsert keeps the table well formed.
LEMMA UpsertType ==
    ASSUME TypeOK, NEW t \in Target, task[t].url \in Url,
           NEW e \in Opt(Hash), NEW h \in Opt(Hash)
    PROVE  upsert(t, e, h) \in [Coll -> [Url -> PageRow]]
BY DEF TypeOK, upsert, PageRow, Opt

\* A task past "ready" works on a URL, and one past "fetch" holds a body.
TaskHasUrl ==
    \A t \in Target :
        /\ task[t].pc \notin {"idle", "ready"} => task[t].url \in Url
        /\ task[t].pc \in {"fresh", "send", "row"} => task[t].got \in Hash

TypeInv == TypeOK /\ TaskHasUrl

LEMMA IdleReadyType == Idle \in TaskState /\ Ready \in TaskState
BY DEF Idle, Ready, TaskState, TaskPC, PageRow, NoRow, Opt

\* Moving a task's program counter keeps the rest of its record.
LEMMA MovePC ==
    ASSUME TypeOK, NEW t \in Target, NEW p \in TaskPC,
           task' = [task EXCEPT ![t] = At(@, p)]
    PROVE  /\ task' \in [Target -> TaskState]
           /\ task'[t].pc = p /\ task'[t].url = task[t].url
           /\ task'[t].got = task[t].got /\ task'[t].prior = task[t].prior
           /\ \A s \in Target \ {t} : task'[s] = task[s]
BY DEF TypeOK, TaskState, At

LEMMA InitTypeInv == Init => TypeInv
<1> SUFFICES ASSUME Init PROVE TypeInv
  OBVIOUS
<1>1. TypeOK
  BY IdleReadyType
  DEF Init, TypeOK, PageRow, NoRow, Doc, NoDoc, Opt, NoBatch, NoRemovals
<1>2. TaskHasUrl
  BY DEF Init, TaskHasUrl, Idle
<1> QED BY <1>1, <1>2 DEF TypeInv

LEMMA CrawlStepType ==
    ASSUME TypeInv, NEW t \in Target, CrawlStep(t)
    PROVE  TypeInv'
<1> USE IdleReadyType DEF TypeInv
<1>1. CASE Dispatch(t)
  BY <1>1 DEF Dispatch, TypeOK, TaskHasUrl, Idle, Ready, dbVars, writerVars, chanVars, envVars, histVars
<1>2. CASE Finish(t)
  BY <1>2 DEF Finish, TypeOK, TaskHasUrl, Idle, dbVars, writerVars, chanVars, envVars, histVars
<1>3. ASSUME NEW u \in Url, Load(t, u) PROVE TypeInv'
  BY <1>3 DEF Load, TypeOK, TaskHasUrl, TaskState, TaskPC, Opt, dbVars, writerVars, chanVars, envVars, histVars
<1>4. CASE Answer(t)
  BY <1>4 DEF Answer, TypeOK, TaskHasUrl, TaskState, TaskPC, Opt, dbVars, writerVars, chanVars, envVars, histVars
<1>5. CASE OtherStatus(t)
  BY <1>5 DEF OtherStatus, At, TypeOK, TaskHasUrl, TaskState, TaskPC, Opt, dbVars, writerVars, chanVars, envVars, histVars
<1>6. CASE FetchFails(t)
  BY <1>6 DEF FetchFails, TypeOK, TaskHasUrl, Idle, Ready, dbVars, writerVars, chanVars, envVars, histVars
<1>7. CASE KeepRow(t)
  BY <1>7, UpsertType DEF KeepRow, TypeOK, TaskHasUrl, TaskState, PageRow, Idle, Ready, dbVars, writerVars, chanVars, envVars, histVars
<1>8. CASE SkipIndex(t)
  BY <1>8, UpsertType DEF SkipIndex, EtagOf, Opt, TypeOK, TaskHasUrl, TaskState, PageRow, Idle, Ready, dbVars, writerVars, chanVars, envVars, histVars
<1>9. CASE BeginSend(t)
  <2>1. /\ task' = [task EXCEPT ![t] = At(@, "send")] /\ "send" \in TaskPC
        /\ task[t].pc = "fresh"
    BY <1>9 DEF BeginSend, TaskPC
  <2>2. TaskHasUrl'
    <3>1. /\ task'[t].url = task[t].url /\ task'[t].got = task[t].got
          /\ \A s \in Target \ {t} : task'[s] = task[s]
      BY <2>1, MovePC
    <3>2. task[t].url \in Url /\ task[t].got \in Hash
      BY <2>1 DEF TaskHasUrl
    <3> QED BY <3>1, <3>2 DEF TaskHasUrl
  <2>3. task' \in [Target -> TaskState]
    BY <2>1, MovePC
  <2>4. TypeOK'
    BY <1>9, <2>3 DEF BeginSend, TypeOK, dbVars, writerVars, envVars, histVars
  <2> QED BY <2>2, <2>4
<1>10. CASE Send(t)
  <2>1. /\ task' = [task EXCEPT ![t] = At(@, "row")] /\ "row" \in TaskPC
        /\ task[t].pc = "send"
    BY <1>10 DEF Send, TaskPC
  <2>2. TaskHasUrl'
    <3>1. /\ task'[t].url = task[t].url /\ task'[t].got = task[t].got
          /\ \A s \in Target \ {t} : task'[s] = task[s]
      BY <2>1, MovePC
    <3>2. task[t].url \in Url /\ task[t].got \in Hash
      BY <2>1 DEF TaskHasUrl
    <3> QED BY <3>1, <3>2 DEF TaskHasUrl
  <2>3. index_url(t, task[t].url) \in Url /\ TargetColl[t] \in Coll /\ task[t].got \in Hash
    BY <2>1 DEF TaskHasUrl, index_url
  <2>4. upsertQ' \in Seq(Job) /\ orphan' \subseteq Url
    BY <1>10, <2>3 DEF Send, Job, TypeOK
  <2>5. TypeOK'
    BY <1>10, <2>1, <2>4, MovePC DEF Send, TypeOK, dbVars, writerVars, envVars, histVars
  <2> QED BY <2>2, <2>5
<1>11. CASE SendFails(t)
  BY <1>11 DEF SendFails, TypeOK, TaskHasUrl, Idle, Ready, dbVars, writerVars, envVars, histVars
<1>12. CASE WriteRow(t)
  <2>1. task[t].pc = "row" /\ task[t].url \in Url /\ task[t].got \in Hash
    BY <1>12 DEF WriteRow, TaskHasUrl
  <2>2. pages' \in [Coll -> [Url -> PageRow]]
    BY <1>12, <2>1, UpsertType DEF WriteRow, EtagOf, Opt
  <2>3. index_url(t, task[t].url) \in Url
    BY <2>1 DEF index_url
  <2>4. task' \in [Target -> TaskState] /\ TaskHasUrl'
    BY <1>12 DEF WriteRow, TypeOK, TaskHasUrl, Ready
  <2>5. TypeOK'
    BY <1>12, <2>2, <2>3, <2>4
    DEF WriteRow, TypeOK, writerVars, chanVars, envVars
  <2> QED BY <2>4, <2>5
<1> QED BY <1>1, <1>2, <1>3, <1>4, <1>5, <1>6, <1>7, <1>8, <1>9, <1>10, <1>11, <1>12 DEF CrawlStep

\* A flush leaves a well-formed writer behind.
LEMMA CommitType ==
    ASSUME TypeOK, NEW st \in [Url -> Doc], NEW jnl \in [Coll -> [Url -> Opt(Hash)]],
           NEW n \in Nat, Commit(st, jnl, n)
    PROVE  /\ index' \in [Url -> Doc] /\ staged' \in [Url -> Doc]
           /\ batch' \in [Coll -> [Url -> Opt(Hash)]]
           /\ marks' \in [Coll -> [Url -> Opt(Hash)]]
           /\ pending' \in 0..(BATCH_SIZE - 1)
           /\ ipc' \in {"run", "mark", "down"}
           /\ inflight' \in Int
BY DEF TypeOK, Commit, NoBatch, Opt

LEMMA ExitType ==
    ASSUME TypeInv, Exit, UNCHANGED <<tstate, pages, task, removing>>,
           tainted' \subseteq Coll \X Url
    PROVE  TypeInv'
<1>1. orphan' \subseteq Url
  BY QueuedDeletesAreUrls DEF TypeInv, TypeOK, Exit
<1>2. lost' \in Nat
  BY DEF TypeInv, TypeOK, Exit
<1>3. NoBatch \in [Coll -> [Url -> Opt(Hash)]]
  BY DEF NoBatch, Opt
<1>4. TypeOK'
  BY <1>1, <1>2, <1>3 DEF TypeInv, TypeOK, Exit
<1>5. TaskHasUrl'
  BY DEF TypeInv, TaskHasUrl
<1> QED BY <1>4, <1>5 DEF TypeInv

LEMMA IndexerStepType ==
    ASSUME TypeInv, IndexerStep
    PROVE  TypeInv'
<1> USE DEF TypeInv
<1>1. CASE Recv
  <2> DEFINE j == Head(upsertQ)
             st == [staged EXCEPT ![j.url] = [coll |-> j.coll, content |-> j.hash]]
             jnl == [batch EXCEPT ![j.coll][j.url] = j.hash]
  <2>1. j \in Job /\ upsertQ' \in Seq(Job)
    BY <1>1 DEF Recv, StagedDoc, Journaled, TypeOK
  <2>2. st \in [Url -> Doc] /\ jnl \in [Coll -> [Url -> Opt(Hash)]]
    BY <2>1 DEF TypeOK, Job, Doc, Opt
  <2>3. pending + 1 \in Nat
    BY DEF TypeOK
  <2>4. /\ index' \in [Url -> Doc] /\ staged' \in [Url -> Doc]
        /\ batch' \in [Coll -> [Url -> Opt(Hash)]]
        /\ marks' \in [Coll -> [Url -> Opt(Hash)]]
        /\ pending' \in 0..(BATCH_SIZE - 1)
        /\ ipc' \in {"run", "mark", "down"} /\ inflight' \in Int
    <3>1. CASE BatchFull(pending + 1)
      <4>1. Commit(st, jnl, pending + 1)
        BY <1>1, <3>1 DEF Recv, StagedDoc, Journaled
      <4> HIDE DEF st, jnl
      <4> QED BY <4>1, <2>2, <2>3, CommitType
    <3>2. CASE ~BatchFull(pending + 1)
      <4>1. /\ staged' = st /\ batch' = jnl /\ pending' = pending + 1
            /\ UNCHANGED <<index, marks, ipc, inflight>>
        BY <1>1, <3>2 DEF Recv, StagedDoc, Journaled
      <4> HIDE DEF st, jnl
      <4> QED BY <4>1, <3>2, <2>2 DEF BatchFull, TypeOK
    <3> QED BY <3>1, <3>2
  <2>5. tainted' \subseteq Coll \X Url
    BY <1>1 DEF Recv, StagedDoc, Journaled, TypeOK
  <2>6. TypeOK'
    BY <1>1, <2>1, <2>4, <2>5 DEF Recv, StagedDoc, Journaled, TypeOK, dbVars, procVars, envVars
  <2>7. TaskHasUrl'
    BY <1>1 DEF Recv, StagedDoc, Journaled, procVars, TaskHasUrl
  <2> QED BY <2>6, <2>7
<1>2. CASE RecvDelete
  <2> DEFINE urls == Head(deleteQ)
             st == [u \in Url |-> IF u \in urls THEN NoDoc ELSE staged[u]]
  <2>1. urls \subseteq Url /\ deleteQ' \in Seq(SUBSET Url)
    BY <1>2 DEF RecvDelete, delete_urls, TypeOK
  <2>2. st \in [Url -> Doc] /\ batch \in [Coll -> [Url -> Opt(Hash)]] /\ pending \in Nat
    BY DEF TypeOK, NoDoc, Doc, Opt
  <2>3. Commit(st, batch, pending)
    BY <1>2 DEF RecvDelete, delete_urls
  <2>4. tainted' \subseteq Coll \X Url
    BY <1>2, <2>1 DEF RecvDelete, delete_urls, TypeOK
  <2> HIDE DEF st, urls
  <2>5. /\ index' \in [Url -> Doc] /\ staged' \in [Url -> Doc]
        /\ batch' \in [Coll -> [Url -> Opt(Hash)]]
        /\ marks' \in [Coll -> [Url -> Opt(Hash)]]
        /\ pending' \in 0..(BATCH_SIZE - 1)
        /\ ipc' \in {"run", "mark", "down"} /\ inflight' \in Int
    BY <2>2, <2>3, CommitType
  <2>6. TypeOK'
    BY <1>2, <2>1, <2>4, <2>5 DEF RecvDelete, delete_urls, TypeOK, dbVars, procVars, envVars
  <2>7. TaskHasUrl'
    BY <1>2 DEF RecvDelete, delete_urls, procVars, TaskHasUrl
  <2> QED BY <2>6, <2>7
<1>3. CASE Deadline
  <2>1. Commit(staged, batch, pending) /\ pending \in Nat
    BY <1>3 DEF Deadline, TypeOK
  <2>2. /\ index' \in [Url -> Doc] /\ staged' \in [Url -> Doc]
        /\ batch' \in [Coll -> [Url -> Opt(Hash)]]
        /\ marks' \in [Coll -> [Url -> Opt(Hash)]]
        /\ pending' \in 0..(BATCH_SIZE - 1)
        /\ ipc' \in {"run", "mark", "down"} /\ inflight' \in Int
    BY <2>1, CommitType DEF TypeOK
  <2>3. TypeOK'
    BY <1>3, <2>2 DEF Deadline, TypeOK, dbVars, procVars, envVars, histVars
  <2>4. TaskHasUrl'
    BY <1>3 DEF Deadline, procVars, TaskHasUrl
  <2> QED BY <2>3, <2>4
<1>4. CASE Mark
  <2>1. pages' \in [Coll -> [Url -> PageRow]]
    <3> SUFFICES ASSUME NEW c \in Coll, NEW u \in Url
                 PROVE  IF HasRow(c, u) /\ marks[c][u] # None
                        THEN [pages[c][u] EXCEPT !.indexed = marks[c][u]] \in PageRow
                        ELSE pages[c][u] \in PageRow
      BY <1>4 DEF Mark, mark_indexed_batch
    <3>1. pages[c][u] \in PageRow /\ marks[c][u] \in Opt(Hash)
      BY DEF TypeOK
    <3> QED BY <3>1 DEF PageRow
  <2>2. marks' \in [Coll -> [Url -> Opt(Hash)]]
    BY <1>4 DEF Mark, NoBatch, Opt
  <2>3. TypeOK'
    BY <1>4, <2>1, <2>2 DEF Mark, TypeOK, chanVars, procVars, envVars
  <2>4. TaskHasUrl'
    BY <1>4 DEF Mark, procVars, TaskHasUrl
  <2> QED BY <2>3, <2>4
<1>5. CASE CommitFails
  BY <1>5, ExitType DEF CommitFails, TypeOK, dbVars, procVars
<1>6. CASE MarkFails
  <2>1. tainted' \subseteq Coll \X Url
    BY <1>6 DEF MarkFails, Marked, TypeOK
  <2> QED BY <1>6, <2>1, ExitType DEF MarkFails, dbVars, procVars
<1> QED BY <1>1, <1>2, <1>3, <1>4, <1>5, <1>6 DEF IndexerStep

LEMMA AdminStepType ==
    ASSUME TypeInv, AdminStep
    PROVE  TypeInv'
<1> USE DEF TypeInv
<1>1. ASSUME NEW t \in Target, AddTarget(t) PROVE TypeInv'
  BY <1>1 DEF AddTarget, TypeOK, TaskHasUrl, writerVars, chanVars, procVars, envVars, histVars
<1>2. ASSUME NEW t \in Target, RemoveTarget(t) PROVE TypeInv'
  <2>1. pages' \in [Coll -> [Url -> PageRow]]
    BY <1>2 DEF RemoveTarget, Cascade, NoRow, PageRow, Opt, TypeOK
  <2>2. removing' \in [Target -> SUBSET Url] /\ tstate' \in [Target -> {"unborn", "live", "gone"}]
    BY <1>2 DEF RemoveTarget, PagesOf, TypeOK
  <2>3. TypeOK'
    <3>1. /\ UNCHANGED <<index, staged, batch, pending, marks, ipc>>
          /\ UNCHANGED <<upsertQ, deleteQ, inflight, task, site>>
          /\ UNCHANGED <<changes, crashes, failures, tainted, orphan, lost>>
          /\ removals' = removals + 1
      BY <1>2 DEF RemoveTarget, writerVars, chanVars, histVars
    <3> QED BY <2>1, <2>2, <3>1 DEF TypeOK
  <2>4. TaskHasUrl'
    BY <1>2 DEF RemoveTarget, TaskHasUrl
  <2> QED BY <2>3, <2>4
<1>3. ASSUME NEW t \in Target, SendDelete(t) PROVE TypeInv'
  BY <1>3 DEF SendDelete, TypeOK, TaskHasUrl, dbVars, writerVars, envVars, histVars
<1>4. ASSUME NEW t \in Target, SendDeleteFails(t) PROVE TypeInv'
  BY <1>4 DEF SendDeleteFails, TypeOK, TaskHasUrl, dbVars, writerVars, chanVars, envVars
<1>5. ASSUME NEW c \in Coll, DeleteCollection(c) PROVE TypeInv'
  <2>1. pages' \in [Coll -> [Url -> PageRow]]
    BY <1>5 DEF DeleteCollection, NoRow, PageRow, Opt, TypeOK
  <2>2. tstate' \in [Target -> {"unborn", "live", "gone"}] /\ orphan' \subseteq Url
    BY <1>5 DEF DeleteCollection, TypeOK
  <2>3. TypeOK'
    BY <1>5, <2>1, <2>2 DEF DeleteCollection, TypeOK, writerVars, chanVars, procVars
  <2>4. TaskHasUrl'
    BY <1>5 DEF DeleteCollection, procVars, TaskHasUrl
  <2> QED BY <2>3, <2>4
<1> QED BY <1>1, <1>2, <1>3, <1>4, <1>5 DEF AdminStep

LEMMA EnvStepType ==
    ASSUME TypeInv, EnvStep
    PROVE  TypeInv'
<1> USE DEF TypeInv
<1>1. CASE Crash
  <2>1. orphan' \subseteq Url /\ tainted' \subseteq Coll \X Url
    BY <1>1, QueuedDeletesAreUrls DEF Crash, Marked, TypeOK
  <2>2. /\ NoBatch \in [Coll -> [Url -> Opt(Hash)]]
        /\ NoRemovals \in [Target -> SUBSET Url]
        /\ [t \in Target |-> Idle] \in [Target -> TaskState]
    BY IdleReadyType DEF NoBatch, NoRemovals, Opt
  <2>3. TypeOK'
    BY <1>1, <2>1, <2>2 DEF Crash, TypeOK, dbVars
  <2>4. TaskHasUrl'
    BY <1>1 DEF Crash, TaskHasUrl, Idle
  <2> QED BY <2>3, <2>4
<1>2. ASSUME NEW u \in Url, NEW h \in Hash, SiteChange(u, h) PROVE TypeInv'
  BY <1>2 DEF SiteChange, TypeOK, TaskHasUrl, dbVars, writerVars, chanVars, procVars, histVars
<1> QED BY <1>1, <1>2 DEF EnvStep

\* Type correctness, for every value of the constants.
THEOREM TypeCorrect == Spec => [](TypeOK /\ TaskHasUrl)
<1>1. TypeInv /\ [Next]_vars => TypeInv'
  <2> SUFFICES ASSUME TypeInv, [Next]_vars PROVE TypeInv'
    OBVIOUS
  <2>1. CASE Next
    BY <2>1, CrawlStepType, IndexerStepType, AdminStepType, EnvStepType DEF Next
  <2>2. CASE UNCHANGED vars
    BY <2>2 DEF vars, dbVars, writerVars, chanVars, procVars, envVars, histVars,
                TypeInv, TypeOK, TaskHasUrl
  <2> QED BY <2>1, <2>2
<1> QED BY <1>1, InitTypeInv, PTL DEF Spec, TypeInv

-----------------------------------------------------------------------------
(* The journal *)

Inv == TypeOK /\ TaskHasUrl /\ JournalInv

\* A step that leaves the writer alone and at most forgets journal entries of
\* the table keeps the journal faithful: every crawl and admin step is one.
LEMMA TableStep ==
    ASSUME Inv, UNCHANGED <<index, staged, batch, pending, marks, ipc, tainted>>,
           \A c \in Coll, u \in Url :
              /\ pages'[c][u].indexed \in {None, pages[c][u].indexed}
              /\ pages'[c][u].target = None => pages'[c][u].indexed = None
    PROVE  JournalInv'
<1>1. JournalFaithful'
  <2> SUFFICES ASSUME NEW c \in Coll, NEW u \in Url,
                      HasRow(c, u)', pages'[c][u].indexed # None,
                      <<c, u>> \notin tainted, ipc = "mark" => marks[c][u] = None
               PROVE  index[u] = [coll |-> c, content |-> pages'[c][u].indexed]
    BY DEF JournalFaithful
  <2>1. pages[c][u].indexed = pages'[c][u].indexed /\ HasRow(c, u)
    BY DEF Inv, JournalInv
  <2> QED BY <2>1 DEF Inv, JournalInv, JournalFaithful
<1> QED BY <1>1 DEF Inv, JournalInv, HasRow

\* What crawled_pages::upsert does to the journal column: nothing.
LEMMA UpsertKeepsJournal ==
    ASSUME Inv, NEW t \in Target, task[t].url \in Url, NEW e, NEW h,
           pages' = upsert(t, e, h)
    PROVE  \A c \in Coll, u \in Url :
              /\ pages'[c][u].indexed \in {None, pages[c][u].indexed}
              /\ pages'[c][u].target = None => pages'[c][u].indexed = None
<1> SUFFICES ASSUME NEW c \in Coll, NEW u \in Url
             PROVE  /\ pages'[c][u].indexed \in {None, pages[c][u].indexed}
                    /\ pages'[c][u].target = None => pages'[c][u].indexed = None
  OBVIOUS
<1>1. CASE tstate[t] = "live" /\ c = TargetColl[t] /\ u = task[t].url
  BY <1>1 DEF Inv, TypeOK, upsert
<1>2. CASE ~(tstate[t] = "live" /\ c = TargetColl[t] /\ u = task[t].url)
  <2>1. pages'[c][u] = pages[c][u]
    BY <1>2 DEF Inv, TypeOK, upsert
  <2> QED BY <2>1 DEF Inv, JournalInv, HasRow
<1> QED BY <1>1, <1>2

LEMMA CrawlStepJournal ==
    ASSUME Inv, NEW t \in Target, CrawlStep(t)
    PROVE  JournalInv'
<1>1. UNCHANGED <<index, staged, batch, pending, marks, ipc, tainted>>
  BY DEF CrawlStep, Dispatch, Finish, Load, Answer, OtherStatus, FetchFails, KeepRow,
         SkipIndex, BeginSend, Send, SendFails, WriteRow, writerVars, histVars
<1>2. CASE KeepRow(t) \/ SkipIndex(t) \/ WriteRow(t)
  <2>1. task[t].url \in Url
    BY <1>2 DEF KeepRow, SkipIndex, WriteRow, Inv, TaskHasUrl
  <2>2. \E e, h : pages' = upsert(t, e, h)
    BY <1>2 DEF KeepRow, SkipIndex, WriteRow
  <2> QED BY <1>1, <2>1, <2>2, UpsertKeepsJournal, TableStep
<1>3. CASE ~(KeepRow(t) \/ SkipIndex(t) \/ WriteRow(t))
  <2>1. UNCHANGED pages
    BY <1>3 DEF CrawlStep, Dispatch, Finish, Load, Answer, OtherStatus, FetchFails,
                BeginSend, Send, SendFails, dbVars
  <2>2. \A c \in Coll, u \in Url :
              /\ pages'[c][u].indexed \in {None, pages[c][u].indexed}
              /\ pages'[c][u].target = None => pages'[c][u].indexed = None
    BY <2>1 DEF Inv, JournalInv, HasRow
  <2> QED BY <1>1, <2>2, TableStep
<1> QED BY <1>2, <1>3

LEMMA AdminStepJournal ==
    ASSUME Inv, AdminStep
    PROVE  JournalInv'
<1>1. UNCHANGED <<index, staged, batch, pending, marks, ipc, tainted>>
  BY DEF AdminStep, AddTarget, RemoveTarget, SendDelete, SendDeleteFails,
         DeleteCollection, writerVars, histVars
<1>2. \A c \in Coll, u \in Url : pages'[c][u] = pages[c][u] \/ pages'[c][u] = NoRow
  <2>1. ASSUME NEW t \in Target, RemoveTarget(t)
        PROVE  \A c \in Coll, u \in Url : pages'[c][u] = pages[c][u] \/ pages'[c][u] = NoRow
    BY <2>1 DEF RemoveTarget, Cascade
  <2>2. ASSUME NEW d \in Coll, DeleteCollection(d)
        PROVE  \A c \in Coll, u \in Url : pages'[c][u] = pages[c][u] \/ pages'[c][u] = NoRow
    BY <2>2 DEF DeleteCollection, Inv, TypeOK
  <2>3. ASSUME NEW t \in Target, AddTarget(t) \/ SendDelete(t) \/ SendDeleteFails(t)
        PROVE  pages' = pages
    BY <2>3 DEF AddTarget, SendDelete, SendDeleteFails, dbVars
  <2> QED BY <2>1, <2>2, <2>3 DEF AdminStep
<1>3. \A c \in Coll, u \in Url :
        /\ pages'[c][u].indexed \in {None, pages[c][u].indexed}
        /\ pages'[c][u].target = None => pages'[c][u].indexed = None
  BY <1>2 DEF Inv, JournalInv, HasRow, NoRow
<1> QED BY <1>1, <1>3, TableStep

\* Committing a staged state that the journal describes: the journal entries
\* describe the new index, and rows without one keep the document they had.
LEMMA CommitJournal ==
    ASSUME Inv, ipc = "run", UNCHANGED pages,
           NEW st \in [Url -> Doc], NEW jnl \in [Coll -> [Url -> Opt(Hash)]], NEW n \in Nat,
           Commit(st, jnl, n),
           tainted \subseteq tainted',
           n = 0 => jnl = NoBatch,
           \A c \in Coll, u \in Url :
              jnl[c][u] # None /\ <<c, u>> \notin tainted'
                 => st[u] = [coll |-> c, content |-> jnl[c][u]],
           \A c \in Coll, u \in Url :
              jnl[c][u] = None /\ <<c, u>> \notin tainted' => st[u] = index[u]
    PROVE  JournalInv'
<1>1. /\ index' = st /\ staged' = st /\ marks' = jnl /\ batch' = NoBatch /\ pending' = 0
      /\ ipc' = IF n = 0 THEN "run" ELSE "mark"
  BY DEF Commit
<1>2. \A c \in Coll, u \in Url : NoBatch[c][u] = None
  BY DEF NoBatch
<1>3. JournalFaithful'
  <2> SUFFICES ASSUME NEW c \in Coll, NEW u \in Url,
                      HasRow(c, u)', pages'[c][u].indexed # None,
                      <<c, u>> \notin tainted', ipc' = "mark" => marks'[c][u] = None
               PROVE  index'[u] = [coll |-> c, content |-> pages'[c][u].indexed]
    BY DEF JournalFaithful
  <2>1. jnl[c][u] = None
    BY <1>1, <1>2
  <2>2. st[u] = index[u] /\ <<c, u>> \notin tainted
    BY <2>1
  <2> QED BY <1>1, <2>2 DEF Inv, JournalInv, JournalFaithful, HasRow
<1> QED BY <1>1, <1>2, <1>3 DEF Inv, JournalInv, HasRow

LEMMA RecvJournal ==
    ASSUME Inv, Recv
    PROVE  JournalInv'
<1> DEFINE j == Head(upsertQ)
           st == [staged EXCEPT ![j.url] = [coll |-> j.coll, content |-> j.hash]]
           jnl == [batch EXCEPT ![j.coll][j.url] = j.hash]
<1>1. j \in Job /\ j.coll \in Coll /\ j.url \in Url /\ j.hash \in Hash
  <2>1. j \in Job
    BY DEF Recv, StagedDoc, Journaled, Inv, TypeOK
  <2> QED BY <2>1 DEF Job
<1>2. st \in [Url -> Doc] /\ jnl \in [Coll -> [Url -> Opt(Hash)]]
  BY <1>1 DEF Inv, TypeOK, Job, Doc, Opt
<1>3. /\ tainted' = tainted \cup {r \in Coll \X Url : r[2] = j.url /\ r[1] # j.coll}
      /\ UNCHANGED pages /\ ipc = "run"
  BY DEF Recv, StagedDoc, Journaled, dbVars
<1>4. ASSUME NEW c \in Coll
      PROVE  c # j.coll => <<c, j.url>> \in tainted'
  BY <1>1, <1>3
<1>5. ASSUME NEW c \in Coll, NEW u \in Url
      PROVE  /\ c = j.coll /\ u = j.url => jnl[c][u] = j.hash /\ jnl[c][u] # None
             /\ ~(c = j.coll /\ u = j.url) => jnl[c][u] = batch[c][u]
             /\ u = j.url => st[u] = [coll |-> j.coll, content |-> j.hash]
             /\ u # j.url => st[u] = staged[u]
  BY <1>1 DEF Inv, TypeOK
<1>6. tainted \subseteq tainted'
  BY <1>3
<1> HIDE DEF st, jnl, j
<1>7. ASSUME NEW c \in Coll, NEW u \in Url, jnl[c][u] # None, <<c, u>> \notin tainted'
      PROVE  st[u] = [coll |-> c, content |-> jnl[c][u]]
  <2>1. CASE u = j.url
    BY <2>1, <1>4, <1>5, <1>7
  <2>2. CASE u # j.url
    BY <2>2, <1>5, <1>6, <1>7 DEF Inv, JournalInv
  <2> QED BY <2>1, <2>2
<1>8. CASE BatchFull(pending + 1)
  <2>1. Commit(st, jnl, pending + 1)
    BY <1>8 DEF Recv, StagedDoc, Journaled, st, jnl, j
  <2>2. pending + 1 \in Nat /\ pending + 1 # 0
    BY DEF Inv, TypeOK
  <2>3. ASSUME NEW c \in Coll, NEW u \in Url, jnl[c][u] = None, <<c, u>> \notin tainted'
        PROVE  st[u] = index[u]
    <3>1. u # j.url
      BY <1>1, <1>4, <1>5, <2>3
    <3>2. \A d \in Coll : batch[d][u] = None
      BY <3>1, <1>5, <1>6, <2>3 DEF Inv, JournalInv
    <3> QED BY <3>1, <3>2, <1>5 DEF Inv, JournalInv
  <2> QED BY <1>2, <1>3, <1>6, <1>7, <2>1, <2>2, <2>3, CommitJournal
<1>9. CASE ~BatchFull(pending + 1)
  <2>1. /\ staged' = st /\ batch' = jnl /\ pending' = pending + 1
        /\ UNCHANGED <<index, marks, ipc>>
    BY <1>9 DEF Recv, StagedDoc, Journaled, st, jnl, j
  <2>2. JournalFaithful'
    BY <2>1, <1>3, <1>6 DEF Inv, JournalInv, JournalFaithful, HasRow
  <2>3. \A u \in Url : (\A c \in Coll : batch'[c][u] = None) => staged'[u] = index'[u]
    <3> SUFFICES ASSUME NEW u \in Url, \A c \in Coll : jnl[c][u] = None
                 PROVE  st[u] = index[u]
      BY <2>1
    <3>1. u # j.url
      BY <1>1, <1>5
    <3>2. st[u] = staged[u] /\ \A c \in Coll : batch[c][u] = None
      BY <3>1, <1>1, <1>5
    <3> QED BY <3>2 DEF Inv, JournalInv
  <2>4. ASSUME NEW c \in Coll, NEW d \in Coll, NEW u \in Url, batch'[c][u] # None, c # d
        PROVE  <<d, u>> \in tainted'
    <3>1. CASE c = j.coll /\ u = j.url
      BY <3>1, <2>4, <1>4
    <3>2. CASE ~(c = j.coll /\ u = j.url)
      BY <3>2, <2>1, <2>4, <1>5, <1>6 DEF Inv, JournalInv
    <3> QED BY <3>1, <3>2
  <2>5. pending' # 0
    BY <2>1 DEF Inv, TypeOK
  <2> QED BY <2>1, <2>2, <2>3, <2>4, <2>5, <1>3, <1>7 DEF Inv, JournalInv, HasRow
<1> QED BY <1>8, <1>9

LEMMA RecvDeleteJournal ==
    ASSUME Inv, RecvDelete
    PROVE  JournalInv'
<1> DEFINE urls == Head(deleteQ)
           st == [u \in Url |-> IF u \in urls THEN NoDoc ELSE staged[u]]
<1>1. urls \subseteq Url
  BY DEF RecvDelete, delete_urls, Inv, TypeOK
<1>2. /\ Commit(st, batch, pending) /\ tainted' = tainted \cup (Coll \X urls)
      /\ UNCHANGED pages /\ ipc = "run"
  BY DEF RecvDelete, delete_urls, dbVars
<1>3. st \in [Url -> Doc] /\ batch \in [Coll -> [Url -> Opt(Hash)]] /\ pending \in Nat
  BY DEF Inv, TypeOK, NoDoc, Doc, Opt
<1>4. ASSUME NEW c \in Coll, NEW u \in Url, <<c, u>> \notin tainted'
      PROVE  st[u] = staged[u] /\ <<c, u>> \notin tainted
  BY <1>2, <1>4
<1> HIDE DEF st, urls
<1>5. \A c \in Coll, u \in Url :
        batch[c][u] # None /\ <<c, u>> \notin tainted'
           => st[u] = [coll |-> c, content |-> batch[c][u]]
  BY <1>4 DEF Inv, JournalInv
<1>6. ASSUME NEW c \in Coll, NEW u \in Url, batch[c][u] = None, <<c, u>> \notin tainted'
      PROVE  st[u] = index[u]
  <2>1. \A d \in Coll : batch[d][u] = None
    BY <1>4, <1>6 DEF Inv, JournalInv
  <2>2. staged[u] = index[u]
    BY <2>1 DEF Inv, JournalInv
  <2>3. st[u] = staged[u]
    BY <1>4, <1>6
  <2> QED BY <2>2, <2>3
<1>7. pending = 0 => batch = NoBatch
  BY DEF Inv, JournalInv
<1>8. tainted \subseteq tainted'
  BY <1>2
<1>9. \A c \in Coll, u \in Url :
        batch[c][u] = None /\ <<c, u>> \notin tainted' => st[u] = index[u]
  BY <1>6
<1>10. Commit(st, batch, pending) => JournalInv'
  BY <1>2, <1>3, <1>5, <1>7, <1>8, <1>9, CommitJournal, SMTT(60)
<1> QED BY <1>2, <1>10

LEMMA DeadlineJournal ==
    ASSUME Inv, Deadline
    PROVE  JournalInv'
<1>1. /\ Commit(staged, batch, pending) /\ tainted' = tainted
      /\ UNCHANGED pages /\ ipc = "run"
  BY DEF Deadline, dbVars, histVars
<1>2. staged \in [Url -> Doc] /\ batch \in [Coll -> [Url -> Opt(Hash)]] /\ pending \in Nat
  BY DEF Inv, TypeOK
<1>3. ASSUME NEW c \in Coll, NEW u \in Url, batch[c][u] = None, <<c, u>> \notin tainted'
      PROVE  staged[u] = index[u]
  <2>1. \A d \in Coll : batch[d][u] = None
    BY <1>1, <1>3 DEF Inv, JournalInv
  <2> QED BY <2>1 DEF Inv, JournalInv
<1>4. \A c \in Coll, u \in Url :
        batch[c][u] # None /\ <<c, u>> \notin tainted'
           => staged[u] = [coll |-> c, content |-> batch[c][u]]
  BY <1>1 DEF Inv, JournalInv
<1>5. pending = 0 => batch = NoBatch
  BY DEF Inv, JournalInv
<1>6. tainted \subseteq tainted'
  BY <1>1
<1>7. \A c \in Coll, u \in Url :
        batch[c][u] = None /\ <<c, u>> \notin tainted' => staged[u] = index[u]
  BY <1>3
<1>8. Commit(staged, batch, pending) => JournalInv'
  BY <1>1, <1>2, <1>4, <1>5, <1>6, <1>7, CommitJournal, SMTT(60)
<1> QED BY <1>1, <1>8

\* mark_indexed_batch makes the table say what the index holds.
LEMMA MarkJournal ==
    ASSUME Inv, Mark
    PROVE  JournalInv'
<1>1. /\ pages' = mark_indexed_batch /\ ipc = "mark" /\ ipc' = "run" /\ marks' = NoBatch
      /\ UNCHANGED <<index, staged, batch, pending>>
      /\ tainted' = tainted \
           {r \in Marked : index[r[2]] = [coll |-> r[1], content |-> marks[r[1]][r[2]]]}
  BY DEF Mark
<1>2. \A c \in Coll, u \in Url : NoBatch[c][u] = None
  BY DEF NoBatch
<1>3. ASSUME NEW c \in Coll, NEW u \in Url
      PROVE  /\ HasRow(c, u) /\ marks[c][u] # None => pages'[c][u].indexed = marks[c][u]
             /\ ~(HasRow(c, u) /\ marks[c][u] # None) => pages'[c][u] = pages[c][u]
             /\ pages'[c][u].target = pages[c][u].target
  <2>1. pages[c][u] \in PageRow
    BY DEF Inv, TypeOK
  <2>2. pages'[c][u] = IF HasRow(c, u) /\ marks[c][u] # None
                       THEN [pages[c][u] EXCEPT !.indexed = marks[c][u]]
                       ELSE pages[c][u]
    BY <1>1 DEF mark_indexed_batch
  <2> QED BY <2>1, <2>2 DEF PageRow
<1>4. ASSUME NEW c \in Coll, NEW u \in Url, <<c, u>> \notin tainted', <<c, u>> \in tainted
      PROVE  marks[c][u] # None /\ index[u] = [coll |-> c, content |-> marks[c][u]]
  <2>1. PICK r \in Marked : /\ r = <<c, u>>
                            /\ index[r[2]] = [coll |-> r[1], content |-> marks[r[1]][r[2]]]
    BY <1>1, <1>4
  <2> QED BY <2>1 DEF Marked
<1>5. JournalFaithful'
  <2> SUFFICES ASSUME NEW c \in Coll, NEW u \in Url,
                      HasRow(c, u)', pages'[c][u].indexed # None, <<c, u>> \notin tainted'
               PROVE  index[u] = [coll |-> c, content |-> pages'[c][u].indexed]
    BY <1>1 DEF JournalFaithful
  <2>1. HasRow(c, u)
    BY <1>3 DEF HasRow
  <2>2. CASE marks[c][u] # None
    BY <2>1, <2>2, <1>1, <1>3, <1>4 DEF Inv, JournalInv
  <2>3. CASE marks[c][u] = None
    <3>1. <<c, u>> \notin tainted /\ pages'[c][u] = pages[c][u]
      BY <2>3, <1>3, <1>4
    <3> QED BY <2>1, <2>3, <3>1 DEF Inv, JournalInv, JournalFaithful
  <2> QED BY <2>2, <2>3
<1>6. \A c \in Coll, u \in Url : ~HasRow(c, u)' => pages'[c][u].indexed = None
  BY <1>3 DEF Inv, JournalInv, HasRow
<1> QED BY <1>1, <1>2, <1>5, <1>6 DEF Inv, JournalInv

\* Losing the writer's buffer, with the interrupted journal tainted, is safe.
LEMMA DropJournal ==
    ASSUME Inv, UNCHANGED <<pages, index>>, staged' = index, batch' = NoBatch,
           pending' = 0, marks' = NoBatch, ipc' \in {"run", "down"},
           tainted \subseteq tainted', ipc = "mark" => Marked \subseteq tainted'
    PROVE  JournalInv'
<1>1. \A c \in Coll, u \in Url : NoBatch[c][u] = None
  BY DEF NoBatch
<1>2. \A c \in Coll, u \in Url :
        ipc = "mark" /\ <<c, u>> \notin tainted' => marks[c][u] = None
  BY DEF Marked
<1>3. JournalFaithful'
  BY <1>2 DEF Inv, JournalInv, JournalFaithful, HasRow
<1> QED BY <1>1, <1>3 DEF Inv, JournalInv, HasRow

LEMMA IndexerStepJournal ==
    ASSUME Inv, IndexerStep
    PROVE  JournalInv'
<1>1. CASE CommitFails
  BY <1>1, DropJournal DEF CommitFails, Exit, dbVars
<1>2. CASE MarkFails
  BY <1>2, DropJournal DEF MarkFails, Exit, dbVars
<1> QED BY <1>1, <1>2, RecvJournal, RecvDeleteJournal, DeadlineJournal, MarkJournal
        DEF IndexerStep

LEMMA EnvStepJournal ==
    ASSUME Inv, EnvStep
    PROVE  JournalInv'
<1>1. CASE Crash
  BY <1>1, DropJournal DEF Crash, dbVars
<1>2. ASSUME NEW u \in Url, NEW h \in Hash, SiteChange(u, h) PROVE JournalInv'
  BY <1>2 DEF SiteChange, Inv, JournalInv, JournalFaithful, HasRow, Marked,
              dbVars, writerVars, histVars
<1> QED BY <1>1, <1>2 DEF EnvStep

LEMMA InitJournal == Init => JournalInv
BY DEF Init, JournalInv, JournalFaithful, HasRow, NoRow, NoBatch

\* The inductive invariant of the journal.
THEOREM Invariance == Spec => []Inv
<1>1. Init => Inv
  BY InitTypeInv, InitJournal DEF Inv, TypeInv
<1>2. Inv /\ [Next]_vars => Inv'
  <2> SUFFICES ASSUME Inv, [Next]_vars PROVE Inv'
    OBVIOUS
  <2>1. TypeInv
    BY DEF Inv, TypeInv
  <2>2. CASE Next
    <3>1. TypeInv'
      BY <2>1, <2>2, CrawlStepType, IndexerStepType, AdminStepType, EnvStepType DEF Next
    <3>2. JournalInv'
      BY <2>2, CrawlStepJournal, IndexerStepJournal, AdminStepJournal, EnvStepJournal DEF Next
    <3> QED BY <3>1, <3>2 DEF Inv, TypeInv
  <2>3. CASE UNCHANGED vars
    BY <2>3 DEF vars, dbVars, writerVars, chanVars, procVars, envVars, histVars,
                Inv, TypeOK, TaskHasUrl, JournalInv, JournalFaithful, HasRow
  <2> QED BY <2>2, <2>3
<1> QED BY <1>1, <1>2, PTL DEF Spec

\* indexed_content_hash names the committed document, whatever the channel
\* and batch sizes, targets, collections and aliases, and however crashes,
\* failures, removals and site changes interleave, but for tainted rows; and
\* the writer's uncommitted journal describes what its next commit will hold.
THEOREM JournalIsFaithful == Spec => []JournalInv
<1>1. Inv => JournalInv
  BY DEF Inv
<1> QED BY <1>1, Invariance, PTL

-----------------------------------------------------------------------------
(* The in-flight counter *)

LEMMA SendingFinite ==
    /\ IsFiniteSet(Sending)
    /\ Cardinality(Sending) \in Nat
    /\ Cardinality(Sending) = 0 => Sending = {}
BY FS_Subset, FS_CardinalityType, FS_EmptySet DEF Sending

LEMMA InitInflight == Init => InflightAccounting
<1> SUFFICES ASSUME Init PROVE InflightAccounting
  OBVIOUS
<1>1. Sending = {}
  BY DEF Init, Sending, Idle
<1> QED BY <1>1, FS_EmptySet DEF Init, InflightAccounting

\* A step that leaves Sending, the queue and the counters alone.
LEMMA CrawlStepInflight ==
    ASSUME TypeInv, InflightAccounting, NEW t \in Target, CrawlStep(t)
    PROVE  InflightAccounting'
<1> USE SendingFinite DEF TypeInv
<1>1. CASE BeginSend(t)
  <2>1. /\ task[t].pc = "fresh" /\ inflight' = inflight + 1
        /\ task' = [task EXCEPT ![t] = At(@, "send")]
        /\ UNCHANGED <<upsertQ, pending, lost>>
    BY <1>1 DEF BeginSend, writerVars, histVars
  <2>2. t \notin Sending /\ Sending' = Sending \cup {t}
    <3>1. task'[t].pc = "send" /\ \A s \in Target \ {t} : task'[s] = task[s]
      BY <2>1, MovePC DEF TaskPC
    <3> QED BY <2>1, <3>1 DEF Sending
  <2>3. Cardinality(Sending') = Cardinality(Sending) + 1
    BY <2>2, FS_AddElement
  <2> QED BY <2>1, <2>3 DEF InflightAccounting, TypeOK
<1>2. CASE Send(t)
  <2>1. /\ task[t].pc = "send"
        /\ task' = [task EXCEPT ![t] = At(@, "row")]
        /\ \E j \in Job : upsertQ' = Append(upsertQ, j)
        /\ UNCHANGED <<inflight, pending, lost>>
    <3>1. [coll |-> TargetColl[t], url |-> index_url(t, task[t].url), hash |-> task[t].got] \in Job
      BY <1>2 DEF Send, TaskHasUrl, index_url, Job
    <3> QED BY <1>2, <3>1 DEF Send, writerVars
  <2>2. t \in Sending /\ Sending' = Sending \ {t}
    BY <2>1 DEF Sending, TypeOK, At
  <2>3. Cardinality(Sending') = Cardinality(Sending) - 1
    BY <2>2, FS_RemoveElement
  <2>4. Len(upsertQ') = Len(upsertQ) + 1
    BY <2>1 DEF TypeOK
  <2>5. Len(upsertQ) \in Nat /\ pending \in Nat /\ lost \in Nat /\ inflight \in Int
    BY DEF TypeOK
  <2> QED BY <2>1, <2>3, <2>4, <2>5 DEF InflightAccounting
<1>3. CASE SendFails(t)
  <2>1. /\ task[t].pc = "send" /\ inflight' = inflight - 1
        /\ task' = [task EXCEPT ![t] = Ready]
        /\ UNCHANGED <<upsertQ, pending, lost>>
    BY <1>3 DEF SendFails, writerVars, histVars
  <2>2. t \in Sending /\ Sending' = Sending \ {t}
    BY <2>1 DEF Sending, TypeOK, Ready
  <2>3. Cardinality(Sending') = Cardinality(Sending) - 1
    BY <2>2, FS_RemoveElement
  <2> QED BY <2>1, <2>3 DEF InflightAccounting, TypeOK
<1>4. CASE ~(BeginSend(t) \/ Send(t) \/ SendFails(t))
  <2>1. UNCHANGED <<inflight, upsertQ, pending, lost>>
    BY <1>4 DEF CrawlStep, Dispatch, Finish, Load, Answer, OtherStatus, FetchFails, KeepRow,
                SkipIndex, WriteRow, writerVars, chanVars, histVars
  <2>2. /\ task[t].pc # "send" /\ task'[t].pc # "send"
        /\ \A s \in Target \ {t} : task'[s] = task[s]
    <3>1. CASE Dispatch(t) \/ Finish(t) \/ FetchFails(t)
      BY <3>1 DEF Dispatch, Finish, FetchFails, Idle, Ready, TypeOK
    <3>2. CASE KeepRow(t) \/ SkipIndex(t) \/ WriteRow(t)
      BY <3>2 DEF KeepRow, SkipIndex, WriteRow, Ready, TypeOK
    <3>3. ASSUME NEW u \in Url, Load(t, u)
          PROVE  /\ task[t].pc # "send" /\ task'[t].pc # "send"
                 /\ \A s \in Target \ {t} : task'[s] = task[s]
      BY <3>3 DEF Load, TypeOK
    <3>4. CASE Answer(t)
      BY <3>4 DEF Answer, TypeOK
    <3>5. CASE OtherStatus(t)
      BY <3>5 DEF OtherStatus, At, TypeOK
    <3> QED BY <1>4, <3>1, <3>2, <3>3, <3>4, <3>5 DEF CrawlStep
  <2>3. Sending' = Sending
    BY <2>2 DEF Sending
  <2> QED BY <2>1, <2>3 DEF InflightAccounting
<1> QED BY <1>1, <1>2, <1>3, <1>4

LEMMA IndexerStepInflight ==
    ASSUME TypeInv, InflightAccounting, IndexerStep
    PROVE  InflightAccounting'
<1> USE SendingFinite DEF TypeInv
<1>1. Sending' = Sending
  <2>1. UNCHANGED task
    BY DEF IndexerStep, Recv, StagedDoc, Journaled, RecvDelete, delete_urls, Deadline, Mark, CommitFails, MarkFails, procVars
  <2> QED BY <2>1 DEF Sending
<1>2. CASE Recv
  <2>1. Len(upsertQ') = Len(upsertQ) - 1 /\ lost' = lost
    BY <1>2 DEF Recv, StagedDoc, Journaled, TypeOK
  <2>2. CASE BatchFull(pending + 1)
    <3>1. inflight' = inflight - (pending + 1) /\ pending' = 0
      BY <1>2, <2>2 DEF Recv, StagedDoc, Journaled, Commit
    <3>2. Len(upsertQ) \in Nat /\ pending \in Nat /\ lost \in Nat /\ inflight \in Int
      BY DEF TypeOK
    <3> QED BY <1>1, <2>1, <3>1, <3>2 DEF InflightAccounting
  <2>3. CASE ~BatchFull(pending + 1)
    BY <1>1, <1>2, <2>1, <2>3 DEF Recv, StagedDoc, Journaled, InflightAccounting, TypeOK
  <2> QED BY <2>2, <2>3
<1>3. CASE RecvDelete
  BY <1>1, <1>3 DEF RecvDelete, delete_urls, Commit, InflightAccounting, TypeOK
<1>4. CASE Deadline
  BY <1>1, <1>4 DEF Deadline, Commit, InflightAccounting, TypeOK, histVars
<1>5. CASE Mark
  BY <1>1, <1>5 DEF Mark, InflightAccounting, chanVars
<1>6. CASE CommitFails \/ MarkFails
  <2>1. /\ upsertQ' = <<>> /\ pending' = 0 /\ lost' = lost + Len(upsertQ) + pending
        /\ inflight' = inflight
    BY <1>6 DEF CommitFails, MarkFails, Exit
  <2>2. Len(upsertQ) \in Nat /\ Len(upsertQ') = 0
    BY <2>1 DEF TypeOK
  <2> QED BY <1>1, <2>1, <2>2 DEF InflightAccounting, TypeOK
<1> QED BY <1>2, <1>3, <1>4, <1>5, <1>6 DEF IndexerStep

LEMMA OtherStepInflight ==
    ASSUME TypeInv, InflightAccounting, AdminStep \/ EnvStep
    PROVE  InflightAccounting'
<1>1. CASE Crash
  <2>1. Sending' = {}
    BY <1>1 DEF Crash, Sending, Idle
  <2> QED BY <1>1, <2>1, FS_EmptySet DEF Crash, InflightAccounting
<1>2. CASE UNCHANGED <<task, inflight, upsertQ, pending, lost>>
  BY <1>2 DEF InflightAccounting, Sending
<1>3. AdminStep => UNCHANGED <<task, inflight, upsertQ, pending, lost>>
  BY DEF AdminStep, AddTarget, RemoveTarget, SendDelete, SendDeleteFails,
         DeleteCollection, writerVars, chanVars, procVars, histVars
<1>4. EnvStep => Crash \/ UNCHANGED <<task, inflight, upsertQ, pending, lost>>
  BY DEF EnvStep, SiteChange, writerVars, chanVars, procVars, histVars
<1> QED BY <1>1, <1>2, <1>3, <1>4

\* No job is counted twice or forgotten, at any channel capacity and batch
\* size and for any number of crawl tasks.
THEOREM InflightIsExact == Spec => []InflightAccounting
<1>1. Inv /\ InflightAccounting /\ [Next]_vars => InflightAccounting'
  <2> SUFFICES ASSUME Inv, InflightAccounting, [Next]_vars PROVE InflightAccounting'
    OBVIOUS
  <2>1. TypeInv
    BY DEF Inv, TypeInv
  <2>2. CASE Next
    BY <2>1, <2>2, CrawlStepInflight, IndexerStepInflight, OtherStepInflight DEF Next
  <2>3. CASE UNCHANGED vars
    BY <2>3 DEF vars, writerVars, chanVars, procVars, histVars, InflightAccounting, Sending
  <2> QED BY <2>2, <2>3
<1> QED BY <1>1, InitInflight, Invariance, PTL DEF Spec

\* A zero counter means the committed index holds every job ever accepted by
\* this process: the direction of flush's comment that the code keeps.
THEOREM ZeroIsDurable == Spec => []ZeroMeansDurable
<1>1. Inv /\ InflightAccounting => ZeroMeansDurable
  <2> SUFFICES ASSUME Inv, InflightAccounting, indexing_pending_count = 0
               PROVE  upsertQ = <<>> /\ Sending = {} /\ staged = index
    BY DEF ZeroMeansDurable
  <2>0. inflight \in Int /\ inflight <= 0
    BY DEF indexing_pending_count, Inv, TypeOK
  <2>1. Len(upsertQ) \in Nat /\ pending \in Nat /\ lost \in Nat
    BY DEF Inv, TypeOK
  <2>2. Len(upsertQ) = 0 /\ pending = 0 /\ Cardinality(Sending) = 0
    BY <2>0, <2>1, SendingFinite DEF InflightAccounting
  <2>3. upsertQ = <<>> /\ Sending = {}
    BY <2>2, SendingFinite DEF Inv, TypeOK
  <2>4. \A u \in Url : staged[u] = index[u]
    BY <2>2 DEF Inv, JournalInv, NoBatch
  <2>5. staged = index
    BY <2>4 DEF Inv, TypeOK
  <2> QED BY <2>3, <2>5
<1> QED BY <1>1, Invariance, InflightIsExact, PTL

-----------------------------------------------------------------------------
(* When nothing taints *)

Untouched == tainted = {} /\ deleteQ = <<>> /\ \A t \in Target : removing[t] = {}

\* With one collection, no removal, no database failure and no crash inside a
\* flush, the journal is literally true between flushes: crashes anywhere else
\* and site changes at any moment cannot falsify it.
THEOREM UndisturbedJournal ==
    ASSUME \A c, d \in Coll : c = d, MaxRemovals = 0, MaxFailures = 0, FlushCrash = FALSE
    PROVE  Spec => []JournalTruth
<1>1. Init => Untouched
  BY DEF Init, Untouched, NoRemovals
<1>2. Inv /\ Untouched /\ [Next]_vars => Untouched'
  <2> SUFFICES ASSUME Inv, Untouched, [Next]_vars PROVE Untouched'
    OBVIOUS
  <2>1. ASSUME NEW t \in Target, CrawlStep(t) PROVE Untouched'
    BY <2>1 DEF CrawlStep, Dispatch, Finish, Load, Answer, OtherStatus, FetchFails, KeepRow,
                SkipIndex, BeginSend, Send, SendFails, WriteRow, chanVars, histVars, Untouched
  <2>2. CASE IndexerStep
    <3>1. CASE Recv
      <4>1. Head(upsertQ).coll \in Coll
        <5>1. Head(upsertQ) \in Job
          BY <3>1 DEF Recv, StagedDoc, Journaled, Inv, TypeOK
        <5> QED BY <5>1 DEF Job
      <4>2. tainted' = tainted
        BY <3>1, <4>1 DEF Recv, StagedDoc, Journaled
      <4> QED BY <3>1, <4>2 DEF Recv, StagedDoc, Journaled, procVars, Untouched
    <3>2. CASE RecvDelete
      BY <3>2 DEF RecvDelete, delete_urls, Untouched
    <3>3. CASE Deadline
      BY <3>3 DEF Deadline, procVars, histVars, Untouched
    <3>4. CASE Mark
      BY <3>4 DEF Mark, chanVars, procVars, Untouched
    <3>5. CASE CommitFails \/ MarkFails
      BY <3>5 DEF CommitFails, MarkFails, Inv, TypeOK
    <3> QED BY <2>2, <3>1, <3>2, <3>3, <3>4, <3>5 DEF IndexerStep
  <2>3. CASE AdminStep
    <3>1. ASSUME NEW t \in Target, AddTarget(t) PROVE Untouched'
      BY <3>1 DEF AddTarget, chanVars, procVars, histVars, Untouched
    <3>2. ASSUME NEW t \in Target, RemoveTarget(t) PROVE Untouched'
      BY <3>2 DEF RemoveTarget, Inv, TypeOK
    <3>3. ASSUME NEW t \in Target, SendDelete(t) \/ SendDeleteFails(t) PROVE Untouched'
      BY <3>3 DEF SendDelete, SendDeleteFails, Untouched
    <3>4. ASSUME NEW c \in Coll, DeleteCollection(c) PROVE Untouched'
      BY <3>4 DEF DeleteCollection, Inv, TypeOK
    <3> QED BY <2>3, <3>1, <3>2, <3>3, <3>4 DEF AdminStep
  <2>4. CASE Crash
    <3>1. marks = NoBatch
      BY <2>4 DEF Crash, Inv, JournalInv
    <3>2. Marked = {}
      BY <3>1 DEF Marked, NoBatch
    <3> QED BY <2>4, <3>2 DEF Crash, NoRemovals, Untouched
  <2>5. ASSUME NEW u \in Url, NEW h \in Hash, SiteChange(u, h) PROVE Untouched'
    BY <2>5 DEF SiteChange, chanVars, procVars, histVars, Untouched
  <2>6. CASE UNCHANGED vars
    BY <2>6 DEF vars, chanVars, procVars, histVars, Untouched
  <2> QED BY <2>1, <2>2, <2>3, <2>4, <2>5, <2>6 DEF Next, EnvStep
<1>3. Inv /\ Untouched => JournalTruth
  BY DEF Inv, JournalInv, JournalFaithful, JournalTruth, Untouched
<1> QED BY <1>1, <1>2, <1>3, Invariance, PTL DEF Spec

-----------------------------------------------------------------------------
(* Every document can still be taken out again *)

\* What it means for a URL to be queued for deletion.
LEMMA InQueuedDeletes ==
    ASSUME NEW u
    PROVE  u \in QueuedDeletes <=> \/ \E t \in Target : u \in removing[t]
                                   \/ \E i \in DOMAIN deleteQ : u \in deleteQ[i]
<1>1. ASSUME u \in QueuedDeletes
      PROVE  \/ \E t \in Target : u \in removing[t]
             \/ \E i \in DOMAIN deleteQ : u \in deleteQ[i]
  BY <1>1 DEF QueuedDeletes
<1>2. ASSUME NEW t \in Target, u \in removing[t] PROVE u \in QueuedDeletes
  BY <1>2 DEF QueuedDeletes
<1>3. ASSUME NEW i \in DOMAIN deleteQ, u \in deleteQ[i] PROVE u \in QueuedDeletes
  BY <1>3 DEF QueuedDeletes
<1> QED BY <1>1, <1>2, <1>3

\* The same, in the next state.
LEMMA InQueuedDeletesNext ==
    ASSUME NEW u
    PROVE  u \in QueuedDeletes' <=> \/ \E t \in Target : u \in removing'[t]
                                    \/ \E i \in DOMAIN deleteQ' : u \in deleteQ'[i]
<1>1. ASSUME u \in QueuedDeletes'
      PROVE  \/ \E t \in Target : u \in removing'[t]
             \/ \E i \in DOMAIN deleteQ' : u \in deleteQ'[i]
  BY <1>1 DEF QueuedDeletes
<1>2. ASSUME NEW t \in Target, u \in removing'[t] PROVE u \in QueuedDeletes'
  BY <1>2 DEF QueuedDeletes
<1>3. ASSUME NEW i \in DOMAIN deleteQ', u \in deleteQ'[i] PROVE u \in QueuedDeletes'
  BY <1>3 DEF QueuedDeletes
<1> QED BY <1>1, <1>2, <1>3

DocTypeInv == TypeInv /\ DocInv

LEMMA QueuedJobType ==
    ASSUME DocTypeInv, NEW i \in DOMAIN upsertQ
    PROVE  upsertQ[i] \in Job /\ upsertQ[i].coll \in Coll /\ upsertQ[i].url \in Url
<1>1. upsertQ[i] \in Job
  BY DEF DocTypeInv, TypeInv, TypeOK
<1> QED BY <1>1 DEF Job

\* The rows' owners and the removal lists, the two parts of DocInv that speak
\* neither of documents nor of jobs.
OwnersInv ==
    /\ \A c \in Coll, u \in Url : HasRow(c, u) => TargetColl[pages[c][u].target] = c
    /\ \A t \in Target : tstate[t] # "gone" => removing[t] = {}

\* A step that forgets nothing keeps every document accounted for, when it
\* puts no document in the index but the staged ones.
LEMMA DocStep ==
    ASSUME DocTypeInv, OwnersInv',
           \A c \in Coll, u \in Url : Accounted(c, u) => Accounted(c, u)',
           \A u \in Url : /\ index'[u] \in {index[u], staged[u]}
                          /\ staged'[u] \in {index[u], staged[u]},
           \A i \in DOMAIN upsertQ' :
              Accounted(upsertQ[i].coll, upsertQ[i].url)' \/ RowComing(upsertQ[i])'
    PROVE  DocInv'
<1>1. \A u \in Url : /\ index[u].coll # None => Accounted(index[u].coll, u)
                     /\ staged[u].coll # None => Accounted(staged[u].coll, u)
                     /\ index[u].coll \in Coll \cup {None}
                     /\ staged[u].coll \in Coll \cup {None}
  BY DEF DocTypeInv, TypeInv, TypeOK, Doc, Opt, DocInv, DocHasRow, Accounted
<1>2. ASSUME NEW u \in Url
      PROVE  /\ index'[u].coll # None => Accounted(index[u].coll, u)'
             /\ staged'[u].coll # None => Accounted(staged[u].coll, u)'
  <2>1. ASSUME NEW d \in {index[u], staged[u]}, d.coll # None
        PROVE  /\ d.coll \in Coll
               /\ HasRow(d.coll, u)' \/ u \in QueuedDeletes' \/ u \in orphan'
    BY <1>1, <2>1 DEF Accounted
  <2> QED BY <2>1 DEF Accounted, HasRow
<1> QED BY <1>2 DEF DocInv, DocHasRow, Accounted, OwnersInv

\* Jobs already queued stay accounted for while no sender leaves its row.
LEMMA QueueStep ==
    ASSUME DocTypeInv, UNCHANGED upsertQ,
           \A c \in Coll, u \in Url : Accounted(c, u) => Accounted(c, u)',
           \A t \in Target : task[t].pc = "row" => task'[t] = task[t]
    PROVE  \A i \in DOMAIN upsertQ' :
              Accounted(upsertQ[i].coll, upsertQ[i].url)' \/ RowComing(upsertQ[i])'
<1> SUFFICES ASSUME NEW i \in DOMAIN upsertQ'
             PROVE  Accounted(upsertQ[i].coll, upsertQ[i].url)' \/ RowComing(upsertQ[i])'
  OBVIOUS
<1>0. i \in DOMAIN upsertQ
  OBVIOUS
<1>1. upsertQ[i].coll \in Coll /\ upsertQ[i].url \in Url
  BY <1>0, QueuedJobType
<1>2. CASE Accounted(upsertQ[i].coll, upsertQ[i].url)
  BY <1>1, <1>2 DEF Accounted, HasRow
<1>3. CASE RowComing(upsertQ[i])
  BY <1>3 DEF RowComing, index_url
<1> QED BY <1>0, <1>2, <1>3 DEF DocTypeInv, DocInv

\* A step that keeps the rows, lengthens the list of queued deletions and
\* forgets no orphan keeps everything accounted for.
LEMMA KeepsAccounted ==
    ASSUME \A c \in Coll, u \in Url : HasRow(c, u) => Accounted(c, u)',
           \A u \in Url : u \in QueuedDeletes => u \in QueuedDeletes' \/ u \in orphan',
           orphan \subseteq orphan'
    PROVE  \A c \in Coll, u \in Url : Accounted(c, u) => Accounted(c, u)'
BY DEF Accounted

\* crawled_pages::upsert removes no row and gives its own row to the task's
\* target, which is one of the row's collection.
LEMMA UpsertOwners ==
    ASSUME DocTypeInv, NEW t \in Target, task[t].url \in Url, NEW e, NEW h,
           pages' = upsert(t, e, h)
    PROVE  /\ \A c \in Coll, u \in Url : HasRow(c, u) => HasRow(c, u)'
           /\ \A c \in Coll, u \in Url :
                HasRow(c, u)' => TargetColl[pages'[c][u].target] = c
           /\ tstate[t] = "live" => pages'[TargetColl[t]][task[t].url].target # None
<1>1. ASSUME NEW c \in Coll, NEW u \in Url
      PROVE  /\ HasRow(c, u) => HasRow(c, u)'
             /\ HasRow(c, u)' => TargetColl[pages'[c][u].target] = c
  <2>1. CASE tstate[t] = "live" /\ c = TargetColl[t] /\ u = task[t].url
    BY <2>1 DEF DocTypeInv, TypeInv, TypeOK, upsert, HasRow
  <2>2. CASE ~(tstate[t] = "live" /\ c = TargetColl[t] /\ u = task[t].url)
    <3>1. pages'[c][u] = pages[c][u]
      BY <2>2 DEF DocTypeInv, TypeInv, TypeOK, upsert
    <3> QED BY <3>1 DEF DocTypeInv, DocInv, HasRow
  <2> QED BY <2>1, <2>2
<1>2. tstate[t] = "live" => pages'[TargetColl[t]][task[t].url].target # None
  BY DEF DocTypeInv, TypeInv, TypeOK, upsert, HasRow
<1> QED BY <1>1, <1>2

\* A step of a crawl task other than the three that follow touches neither the
\* table, nor the documents, nor the jobs.
LEMMA QuietStepDocs ==
    ASSUME DocTypeInv,
           UNCHANGED <<tstate, pages, index, staged, upsertQ, deleteQ, removing, orphan>>,
           \A t \in Target : task[t].pc = "row" => task'[t] = task[t]
    PROVE  DocInv'
<1>1. QueuedDeletes' = QueuedDeletes
  BY DEF QueuedDeletes
<1>2. \A c \in Coll, u \in Url : Accounted(c, u) => Accounted(c, u)'
  BY <1>1 DEF Accounted, HasRow
<1>3. OwnersInv'
  BY DEF OwnersInv, DocTypeInv, DocInv, HasRow
<1> QED BY <1>2, <1>3, DocStep, QueueStep

LEMMA SendDocs ==
    ASSUME DocTypeInv, NEW t \in Target, Send(t)
    PROVE  DocInv'
<1> DEFINE c == TargetColl[t]
<1>0. PICK w, v, j : /\ w = task[t].url /\ v = index_url(t, w)
                     /\ j = [coll |-> c, url |-> v, hash |-> task[t].got]
  OBVIOUS
<1>1. /\ UNCHANGED <<tstate, pages, index, staged, deleteQ, removing>>
      /\ upsertQ' = Append(upsertQ, j) /\ task' = [task EXCEPT ![t] = At(@, "row")]
      /\ orphan' = IF v # w /\ ~HasRow(c, v) THEN orphan \cup {v} ELSE orphan
      /\ task[t].pc = "send" /\ ThreadFree
  BY <1>0 DEF Send, dbVars, writerVars
<1>2. /\ upsertQ \in Seq(Job) /\ j \in Job /\ w \in Url /\ v \in Url
      /\ j.coll = c /\ j.url = v
  BY <1>0, <1>1 DEF DocTypeInv, TypeInv, TypeOK, TaskHasUrl, Job, index_url
<1>3. QueuedDeletes' = QueuedDeletes
  BY <1>1 DEF QueuedDeletes
<1>4. \A d \in Coll, u \in Url : Accounted(d, u) => Accounted(d, u)'
  BY <1>1, <1>3 DEF Accounted, HasRow
<1>5. OwnersInv'
  BY <1>1 DEF OwnersInv, DocTypeInv, DocInv, HasRow
<1>6. /\ task'[t].pc = "row" /\ task'[t].url = w
      /\ \A s \in Target : task[s].pc = "row" => task'[s] = task[s]
  <2>1. "row" \in TaskPC /\ TypeOK
    BY DEF TaskPC, DocTypeInv, TypeInv
  <2> QED BY <1>0, <1>1, <2>1, MovePC
<1>7. Accounted(c, v)' \/ RowComing(j)'
  <2>1. CASE v = w
    BY <1>0, <1>2, <1>6, <2>1 DEF RowComing, index_url
  <2>2. CASE v # w /\ HasRow(c, v)
    BY <1>1, <2>2 DEF Accounted, HasRow
  <2>3. CASE v # w /\ ~HasRow(c, v)
    BY <1>1, <2>3 DEF Accounted
  <2> QED BY <2>1, <2>2, <2>3
<1>8. ASSUME NEW i \in DOMAIN upsertQ'
      PROVE  Accounted(upsertQ[i].coll, upsertQ[i].url)' \/ RowComing(upsertQ[i])'
  <2>1. CASE i \in DOMAIN upsertQ
    <3>1. upsertQ'[i] = upsertQ[i] /\ upsertQ[i] \in Job
      BY <1>1, <1>2, <2>1
    <3>2. CASE RowComing(upsertQ[i])
      BY <3>1, <3>2, <1>6 DEF RowComing, index_url
    <3>3. CASE Accounted(upsertQ[i].coll, upsertQ[i].url)
      <4>1. upsertQ[i].coll \in Coll /\ upsertQ[i].url \in Url
        BY <3>1 DEF Job
      <4> QED BY <3>1, <3>3, <4>1, <1>4 DEF Accounted, HasRow
    <3> QED BY <2>1, <3>2, <3>3 DEF DocTypeInv, DocInv
  <2>2. CASE i \notin DOMAIN upsertQ
    <3>1. upsertQ'[i] = j
      BY <1>1, <1>2, <1>8, <2>2
    <3> QED BY <1>2, <1>7, <3>1 DEF Accounted, RowComing, HasRow
  <2> QED BY <2>1, <2>2
<1> QED BY <1>1, <1>4, <1>5, <1>8, DocStep

LEMMA WriteRowDocs ==
    ASSUME DocTypeInv, NEW t \in Target, WriteRow(t)
    PROVE  DocInv'
<1> DEFINE v == index_url(t, task[t].url)
<1>1. /\ UNCHANGED <<tstate, index, staged, upsertQ, deleteQ, removing>>
      /\ pages' = upsert(t, EtagOf(task[t].url, task[t].got), task[t].got)
      /\ task' = [task EXCEPT ![t] = Ready]
      /\ orphan' = IF tstate[t] = "live" THEN orphan ELSE orphan \cup {v}
      /\ task[t].pc = "row"
  BY DEF WriteRow, writerVars, chanVars
<1>2. task[t].url \in Url
  BY <1>1 DEF DocTypeInv, TypeInv, TaskHasUrl
<1>3. QueuedDeletes' = QueuedDeletes
  BY <1>1 DEF QueuedDeletes
<1>4. /\ \A c \in Coll, u \in Url : HasRow(c, u) => HasRow(c, u)'
      /\ \A c \in Coll, u \in Url :
           HasRow(c, u)' => TargetColl[pages'[c][u].target] = c
      /\ tstate[t] = "live" => pages'[TargetColl[t]][task[t].url].target # None
  BY <1>1, <1>2, UpsertOwners
<1>5. \A c \in Coll, u \in Url : Accounted(c, u) => Accounted(c, u)'
  BY <1>1, <1>3, <1>4 DEF Accounted
<1>6. OwnersInv'
  BY <1>1, <1>4 DEF OwnersInv, DocTypeInv, DocInv
<1>7. \A s \in Target \ {t} : task'[s] = task[s]
  BY <1>1 DEF DocTypeInv, TypeInv, TypeOK
<1>8. ASSUME NEW i \in DOMAIN upsertQ'
      PROVE  Accounted(upsertQ[i].coll, upsertQ[i].url)' \/ RowComing(upsertQ[i])'
  <2>1. i \in DOMAIN upsertQ /\ upsertQ'[i] = upsertQ[i]
    BY <1>1, <1>8
  <2>2. upsertQ[i].coll \in Coll /\ upsertQ[i].url \in Url
    BY <2>1, QueuedJobType
  <2>3. CASE Accounted(upsertQ[i].coll, upsertQ[i].url)
    BY <2>1, <2>2, <2>3, <1>5 DEF Accounted, HasRow
  <2>4. CASE RowComing(upsertQ[i])
    <3>1. PICK s \in Target :
            /\ task[s].pc = "row" /\ task[s].url = upsertQ[i].url
            /\ TargetColl[s] = upsertQ[i].coll
            /\ index_url(s, upsertQ[i].url) = upsertQ[i].url
      BY <2>4 DEF RowComing
    <3>2. CASE s # t
      BY <2>1, <3>1, <3>2, <1>7 DEF RowComing, index_url
    <3>3. CASE s = t /\ tstate[t] = "live"
      BY <2>1, <3>1, <3>3, <1>4 DEF Accounted, HasRow
    <3>4. CASE s = t /\ tstate[t] # "live"
      <4>1. upsertQ[i].url \in orphan'
        BY <3>1, <3>4, <1>1
      <4> QED BY <2>1, <4>1 DEF Accounted
    <3> QED BY <3>2, <3>3, <3>4
  <2> QED BY <2>1, <2>3, <2>4 DEF DocTypeInv, DocInv
<1> QED BY <1>1, <1>5, <1>6, <1>8, DocStep

LEMMA CrawlStepDocs ==
    ASSUME DocTypeInv, NEW t \in Target, CrawlStep(t)
    PROVE  DocInv'
<1>1. CASE Send(t)
  BY <1>1, SendDocs
<1>2. CASE WriteRow(t)
  BY <1>2, WriteRowDocs
<1>3. CASE KeepRow(t) \/ SkipIndex(t)
  <2>1. /\ UNCHANGED <<tstate, index, staged, upsertQ, deleteQ, removing, orphan>>
        /\ task' = [task EXCEPT ![t] = Ready] /\ task[t].pc # "row"
    BY <1>3 DEF KeepRow, SkipIndex, writerVars, chanVars, histVars
  <2>2. \E e, h : pages' = upsert(t, e, h)
    BY <1>3 DEF KeepRow, SkipIndex
  <2>3. task[t].url \in Url
    BY <1>3 DEF KeepRow, SkipIndex, DocTypeInv, TypeInv, TaskHasUrl
  <2>4. /\ \A c \in Coll, u \in Url : HasRow(c, u) => HasRow(c, u)'
        /\ \A c \in Coll, u \in Url :
             HasRow(c, u)' => TargetColl[pages'[c][u].target] = c
    BY <2>2, <2>3, UpsertOwners
  <2>5. QueuedDeletes' = QueuedDeletes
    BY <2>1 DEF QueuedDeletes
  <2>6. \A c \in Coll, u \in Url : Accounted(c, u) => Accounted(c, u)'
    BY <2>1, <2>4, <2>5 DEF Accounted
  <2>7. OwnersInv'
    BY <2>1, <2>4 DEF OwnersInv, DocTypeInv, DocInv
  <2>8. \A s \in Target : task[s].pc = "row" => task'[s] = task[s]
    BY <2>1 DEF DocTypeInv, TypeInv, TypeOK
  <2> QED BY <2>1, <2>6, <2>7, <2>8, DocStep, QueueStep
<1>4. CASE ~(Send(t) \/ WriteRow(t) \/ KeepRow(t) \/ SkipIndex(t))
  <2>1. /\ UNCHANGED <<tstate, pages, index, staged, upsertQ, deleteQ, removing, orphan>>
        /\ task[t].pc # "row" /\ \E x : task' = [task EXCEPT ![t] = x]
    BY <1>4 DEF CrawlStep, Dispatch, Finish, Load, Answer, OtherStatus, FetchFails,
                BeginSend, SendFails, dbVars, writerVars, chanVars, histVars
  <2>2. \A s \in Target : task[s].pc = "row" => task'[s] = task[s]
    BY <2>1 DEF DocTypeInv, TypeInv, TypeOK
  <2> QED BY <2>1, <2>2, QuietStepDocs
<1> QED BY <1>1, <1>2, <1>3, <1>4

\* While the thread is free no sender has a row to write: a queued job is
\* already accounted for when the indexer takes it.
LEMMA JobsAccounted ==
    ASSUME DocTypeInv, ThreadFree
    PROVE  \A i \in DOMAIN upsertQ : Accounted(upsertQ[i].coll, upsertQ[i].url)
BY DEF DocTypeInv, DocInv, ThreadFree, RowComing

LEMMA RecvDocs ==
    ASSUME DocTypeInv, Recv
    PROVE  DocInv'
<1>0. PICK j : j = Head(upsertQ)
  OBVIOUS
<1>1. /\ UNCHANGED <<tstate, pages, deleteQ, removing, task, orphan>>
      /\ upsertQ # <<>> /\ upsertQ' = Tail(upsertQ) /\ ThreadFree
  BY DEF Recv, dbVars, procVars
<1>2. /\ upsertQ \in Seq(Job) /\ 1 \in DOMAIN upsertQ /\ j = upsertQ[1]
  BY <1>0, <1>1 DEF DocTypeInv, TypeInv, TypeOK
<1>3. j.coll \in Coll /\ j.url \in Url /\ Accounted(j.coll, j.url)
  BY <1>1, <1>2, JobsAccounted, QueuedJobType
<1>4. /\ staged' = StagedDoc(j)
      /\ index' = index \/ index' = StagedDoc(j)
  BY <1>0 DEF Recv, Commit
<1>5. QueuedDeletes' = QueuedDeletes
  BY <1>1 DEF QueuedDeletes
<1>6. \A c \in Coll, u \in Url : Accounted(c, u) <=> Accounted(c, u)'
  BY <1>1, <1>5 DEF Accounted, HasRow
<1>7. ASSUME NEW u \in Url
      PROVE  /\ staged'[u].coll # None => Accounted(staged[u].coll, u)'
             /\ index'[u].coll # None => Accounted(index[u].coll, u)'
  <2>1. /\ index[u].coll # None => index[u].coll \in Coll /\ Accounted(index[u].coll, u)
        /\ staged[u].coll # None => staged[u].coll \in Coll /\ Accounted(staged[u].coll, u)
    BY DEF DocTypeInv, TypeInv, TypeOK, Doc, Opt, DocInv, DocHasRow, Accounted
  <2>2. StagedDoc(j)[u] = IF u = j.url THEN [coll |-> j.coll, content |-> j.hash]
                                       ELSE staged[u]
    BY <1>3 DEF StagedDoc, DocTypeInv, TypeInv, TypeOK
  <2>3. StagedDoc(j)[u].coll # None
          => StagedDoc(j)[u].coll \in Coll /\ Accounted(StagedDoc(j)[u].coll, u)
    BY <2>1, <2>2, <1>3
  <2>4. ASSUME NEW c \in Coll, Accounted(c, u)
        PROVE  pages'[c][u].target # None \/ u \in QueuedDeletes' \/ u \in orphan'
    BY <2>4, <1>6 DEF Accounted, HasRow
  <2> QED BY <2>1, <2>3, <2>4, <1>4 DEF Accounted, HasRow
<1>8. ASSUME NEW i \in DOMAIN upsertQ'
      PROVE  Accounted(upsertQ[i].coll, upsertQ[i].url)'
  <2>1. i + 1 \in DOMAIN upsertQ /\ upsertQ'[i] = upsertQ[i + 1]
    BY <1>1, <1>2, <1>8
  <2>2. PICK c \in Coll, u \in Url :
          c = upsertQ[i + 1].coll /\ u = upsertQ[i + 1].url /\ Accounted(c, u)
    BY <2>1, <1>1, JobsAccounted, QueuedJobType
  <2> QED BY <2>1, <2>2, <1>6 DEF Accounted, HasRow
<1>9. OwnersInv'
  BY <1>1 DEF OwnersInv, DocTypeInv, DocInv, HasRow
<1> QED BY <1>7, <1>8, <1>9 DEF DocInv, DocHasRow, Accounted, OwnersInv

\* The delete batch goes, and with it the documents it names; nothing that
\* the batch accounted for is left, because no job is queued behind it.
LEMMA RecvDeleteDocs ==
    ASSUME DocTypeInv, RecvDelete
    PROVE  DocInv'
<1>0. PICK urls : urls = Head(deleteQ)
  OBVIOUS
<1>1. /\ UNCHANGED <<tstate, pages, removing, task, orphan, upsertQ>>
      /\ deleteQ # <<>> /\ deleteQ' = Tail(deleteQ) /\ upsertQ = <<>>
      /\ staged' = delete_urls(urls) /\ index' = delete_urls(urls)
  BY <1>0 DEF RecvDelete, Commit, dbVars, procVars
<1>2. deleteQ \in Seq(SUBSET Url)
  BY DEF DocTypeInv, TypeInv, TypeOK
<1>3. ASSUME NEW u \in Url, u \notin urls, u \in QueuedDeletes
      PROVE  u \in QueuedDeletes'
  <2>1. CASE \E t \in Target : u \in removing[t]
    BY <2>1, <1>1, InQueuedDeletesNext
  <2>2. CASE \E i \in DOMAIN deleteQ : u \in deleteQ[i]
    <3>1. PICK i \in DOMAIN deleteQ : u \in deleteQ[i]
      BY <2>2
    <3>2. i # 1
      BY <1>0, <1>1, <1>2, <1>3, <3>1
    <3>3. i - 1 \in DOMAIN deleteQ' /\ deleteQ'[i - 1] = deleteQ[i]
      BY <1>1, <1>2, <3>1, <3>2
    <3> QED BY <3>1, <3>3, InQueuedDeletesNext
  <2> QED BY <2>1, <2>2, <1>3, InQueuedDeletes
<1>4. ASSUME NEW u \in Url, staged'[u].coll # None
      PROVE  Accounted(staged[u].coll, u)' /\ Accounted(index[u].coll, u)'
  <2>1. /\ u \notin urls
        /\ staged'[u] = staged[u] /\ index'[u] = staged[u]
    BY <1>1, <1>4 DEF delete_urls, NoDoc
  <2>2. Accounted(staged[u].coll, u)
    BY <1>4, <2>1 DEF DocTypeInv, DocInv
  <2> QED BY <1>1, <1>3, <2>1, <2>2 DEF Accounted, HasRow
<1>5. OwnersInv'
  BY <1>1 DEF OwnersInv, DocTypeInv, DocInv, HasRow
<1>6. DOMAIN upsertQ' = {}
  BY <1>1
<1> QED BY <1>1, <1>4, <1>5, <1>6 DEF DocInv, DocHasRow, Accounted, OwnersInv

LEMMA MarkDocs ==
    ASSUME DocTypeInv, Mark
    PROVE  DocInv'
<1>1. /\ UNCHANGED <<tstate, index, staged, upsertQ, deleteQ, removing, task, orphan>>
      /\ pages' = mark_indexed_batch
  BY DEF Mark, chanVars, procVars
<1>2. \A c \in Coll, u \in Url : pages'[c][u].target = pages[c][u].target
  <2> SUFFICES ASSUME NEW c \in Coll, NEW u \in Url
               PROVE  pages'[c][u].target = pages[c][u].target
    OBVIOUS
  <2>1. pages[c][u] \in PageRow
    BY DEF DocTypeInv, TypeInv, TypeOK
  <2> QED BY <1>1, <2>1 DEF mark_indexed_batch, PageRow
<1>3. QueuedDeletes' = QueuedDeletes
  BY <1>1 DEF QueuedDeletes
<1>4. \A c \in Coll, u \in Url : Accounted(c, u) => Accounted(c, u)'
  BY <1>1, <1>2, <1>3 DEF Accounted, HasRow
<1>5. OwnersInv'
  BY <1>1, <1>2 DEF OwnersInv, DocTypeInv, DocInv, HasRow
<1> QED BY <1>1, <1>4, <1>5, DocStep, QueueStep

LEMMA ExitDocs ==
    ASSUME DocTypeInv, Exit, UNCHANGED <<tstate, pages, task, removing>>
    PROVE  DocInv'
<1>1. /\ index' = index /\ staged' = index /\ upsertQ' = <<>> /\ deleteQ' = <<>>
      /\ orphan' = orphan \cup UNION {deleteQ[i] : i \in DOMAIN deleteQ}
  BY DEF Exit
<1>2. \A u \in Url : u \in QueuedDeletes => u \in QueuedDeletes' \/ u \in orphan'
  BY <1>1, InQueuedDeletes, InQueuedDeletesNext
<1>3. \A c \in Coll, u \in Url : Accounted(c, u) => Accounted(c, u)'
  BY <1>1, <1>2 DEF Accounted, HasRow
<1>4. OwnersInv'
  BY <1>1 DEF OwnersInv, DocTypeInv, DocInv, HasRow
<1> QED BY <1>1, <1>3, <1>4, DocStep

LEMMA IndexerStepDocs ==
    ASSUME DocTypeInv, IndexerStep
    PROVE  DocInv'
<1>1. CASE Deadline
  <2>1. /\ UNCHANGED <<tstate, pages, upsertQ, deleteQ, removing, task, orphan>>
        /\ index' = staged /\ staged' = staged
    BY <1>1 DEF Deadline, Commit, dbVars, procVars, histVars
  <2>2. QueuedDeletes' = QueuedDeletes
    BY <2>1 DEF QueuedDeletes
  <2>3. \A c \in Coll, u \in Url : Accounted(c, u) => Accounted(c, u)'
    BY <2>1, <2>2 DEF Accounted, HasRow
  <2>4. OwnersInv'
    BY <2>1 DEF OwnersInv, DocTypeInv, DocInv, HasRow
  <2> QED BY <2>1, <2>3, <2>4, DocStep, QueueStep
<1>2. CASE CommitFails \/ MarkFails
  BY <1>2, ExitDocs DEF CommitFails, MarkFails, dbVars, procVars
<1> QED BY <1>1, <1>2, RecvDocs, RecvDeleteDocs, MarkDocs DEF IndexerStep

\* A removal queues exactly the rows that its cascade takes away.
LEMMA RemoveTargetDocs ==
    ASSUME DocTypeInv, NEW t \in Target, RemoveTarget(t)
    PROVE  DocInv'
<1>1. /\ UNCHANGED <<index, staged, upsertQ, deleteQ, task, orphan>>
      /\ tstate[t] = "live" /\ tstate' = [tstate EXCEPT ![t] = "gone"]
      /\ pages' = Cascade({t}) /\ removing' = [removing EXCEPT ![t] = PagesOf(t)]
  BY DEF RemoveTarget, writerVars, chanVars, histVars
<1>2. removing[t] = {}
  BY <1>1 DEF DocTypeInv, DocInv
<1>3. /\ removing'[t] = PagesOf(t)
      /\ \A s \in Target \ {t} : removing'[s] = removing[s] /\ tstate'[s] = tstate[s]
      /\ tstate'[t] = "gone"
  BY <1>1 DEF DocTypeInv, TypeInv, TypeOK
<1>4. \A u \in Url : u \in QueuedDeletes => u \in QueuedDeletes'
  <2> SUFFICES ASSUME NEW u \in Url, u \in QueuedDeletes PROVE u \in QueuedDeletes'
    OBVIOUS
  <2>1. CASE \E s \in Target : u \in removing[s]
    BY <2>1, <1>2, <1>3, InQueuedDeletesNext
  <2>2. CASE \E i \in DOMAIN deleteQ : u \in deleteQ[i]
    BY <2>2, <1>1, InQueuedDeletesNext
  <2> QED BY <2>1, <2>2, InQueuedDeletes
<1>5. ASSUME NEW c \in Coll, NEW u \in Url, HasRow(c, u)
      PROVE  Accounted(c, u)'
  <2>1. CASE pages[c][u].target = t
    <3>1. c = TargetColl[t]
      BY <1>5, <2>1 DEF DocTypeInv, DocInv
    <3>2. u \in removing'[t]
      BY <1>3, <2>1, <3>1 DEF PagesOf
    <3> QED BY <3>2, InQueuedDeletesNext DEF Accounted
  <2>2. CASE pages[c][u].target # t
    BY <1>1, <1>5, <2>2 DEF Cascade, Accounted, HasRow
  <2> QED BY <2>1, <2>2
<1>6. \A c \in Coll, u \in Url : Accounted(c, u) => Accounted(c, u)'
  BY <1>1, <1>4, <1>5, KeepsAccounted
<1>7. \A c \in Coll, u \in Url : HasRow(c, u)' => TargetColl[pages'[c][u].target] = c
  <2>1. \A c \in Coll, u \in Url : pages'[c][u] = pages[c][u] \/ pages'[c][u] = NoRow
    BY <1>1 DEF Cascade
  <2> QED BY <2>1 DEF DocTypeInv, DocInv, HasRow, NoRow
<1>8. OwnersInv'
  BY <1>3, <1>7 DEF OwnersInv, DocTypeInv, DocInv
<1> QED BY <1>1, <1>6, <1>8, DocStep, QueueStep

LEMMA SendDeleteDocs ==
    ASSUME DocTypeInv, NEW t \in Target, SendDelete(t) \/ SendDeleteFails(t)
    PROVE  DocInv'
<1>1. /\ UNCHANGED <<tstate, pages, index, staged, upsertQ, task>>
      /\ removing' = [removing EXCEPT ![t] = {}]
      /\ \/ deleteQ' = Append(deleteQ, removing[t]) /\ orphan' = orphan
         \/ deleteQ' = deleteQ /\ orphan' = orphan \cup removing[t]
  BY DEF SendDelete, SendDeleteFails, dbVars, writerVars, chanVars, histVars
<1>2. /\ removing'[t] = {}
      /\ \A s \in Target \ {t} : removing'[s] = removing[s]
      /\ deleteQ \in Seq(SUBSET Url) /\ removing[t] \in SUBSET Url
  BY <1>1 DEF DocTypeInv, TypeInv, TypeOK
<1>3. /\ \A i \in DOMAIN deleteQ : i \in DOMAIN deleteQ' /\ deleteQ'[i] = deleteQ[i]
      /\ \/ orphan' = orphan \cup removing[t]
         \/ \E i \in DOMAIN deleteQ' : deleteQ'[i] = removing[t]
  <2>1. CASE deleteQ' = Append(deleteQ, removing[t])
    <3>1. /\ \A i \in DOMAIN deleteQ : i \in DOMAIN deleteQ' /\ deleteQ'[i] = deleteQ[i]
          /\ Len(deleteQ) + 1 \in DOMAIN deleteQ'
          /\ deleteQ'[Len(deleteQ) + 1] = removing[t]
      BY <1>2, <2>1
    <3> QED BY <3>1
  <2>2. CASE deleteQ' = deleteQ /\ orphan' = orphan \cup removing[t]
    BY <2>2
  <2> QED BY <1>1, <2>1, <2>2
<1>4. ASSUME NEW u \in Url, u \in QueuedDeletes
      PROVE  u \in QueuedDeletes' \/ u \in orphan'
  <2>1. CASE u \in removing[t]
    BY <2>1, <1>3, InQueuedDeletesNext
  <2>2. CASE \E s \in Target \ {t} : u \in removing[s]
    BY <2>2, <1>2, InQueuedDeletesNext
  <2>3. CASE \E i \in DOMAIN deleteQ : u \in deleteQ[i]
    BY <2>3, <1>3, InQueuedDeletesNext
  <2> QED BY <2>1, <2>2, <2>3, <1>4, InQueuedDeletes
<1>5. \A c \in Coll, u \in Url : Accounted(c, u) => Accounted(c, u)'
  BY <1>1, <1>4 DEF Accounted, HasRow
<1>6. OwnersInv'
  BY <1>1, <1>2 DEF OwnersInv, DocTypeInv, DocInv, HasRow
<1> QED BY <1>1, <1>5, <1>6, DocStep, QueueStep

LEMMA DeleteCollectionDocs ==
    ASSUME DocTypeInv, NEW d \in Coll, DeleteCollection(d)
    PROVE  DocInv'
<1>1. /\ UNCHANGED <<index, staged, upsertQ, deleteQ, removing, task>>
      /\ tstate' = [t \in Target |-> IF TargetColl[t] = d THEN "gone" ELSE tstate[t]]
      /\ pages' = [pages EXCEPT ![d] = [u \in Url |-> NoRow]]
      /\ orphan' = orphan \cup {u \in Url : HasRow(d, u)}
  BY DEF DeleteCollection, writerVars, chanVars, procVars
<1>2. QueuedDeletes' = QueuedDeletes
  BY <1>1 DEF QueuedDeletes
<1>3. ASSUME NEW c \in Coll, NEW u \in Url
      PROVE  /\ HasRow(c, u) => Accounted(c, u)'
             /\ HasRow(c, u)' => pages'[c][u] = pages[c][u]
  BY <1>1 DEF DocTypeInv, TypeInv, TypeOK, HasRow, NoRow, Accounted
<1>4. \A c \in Coll, u \in Url : Accounted(c, u) => Accounted(c, u)'
  BY <1>1, <1>2, <1>3, KeepsAccounted
<1>5. OwnersInv'
  BY <1>1, <1>3 DEF OwnersInv, DocTypeInv, DocInv, HasRow
<1> QED BY <1>1, <1>4, <1>5, DocStep, QueueStep

LEMMA AdminStepDocs ==
    ASSUME DocTypeInv, AdminStep
    PROVE  DocInv'
<1>1. ASSUME NEW t \in Target, AddTarget(t) PROVE DocInv'
  <2>1. /\ UNCHANGED <<pages, index, staged, upsertQ, deleteQ, removing, task, orphan>>
        /\ tstate[t] = "unborn" /\ tstate' = [tstate EXCEPT ![t] = "live"]
    BY <1>1 DEF AddTarget, writerVars, chanVars, procVars, histVars
  <2>2. QueuedDeletes' = QueuedDeletes
    BY <2>1 DEF QueuedDeletes
  <2>3. \A c \in Coll, u \in Url : Accounted(c, u) => Accounted(c, u)'
    BY <2>1, <2>2 DEF Accounted, HasRow
  <2>4. OwnersInv'
    BY <2>1 DEF OwnersInv, DocTypeInv, TypeInv, TypeOK, DocInv, HasRow
  <2> QED BY <2>1, <2>3, <2>4, DocStep, QueueStep
<1> QED BY <1>1, RemoveTargetDocs, SendDeleteDocs, DeleteCollectionDocs DEF AdminStep

LEMMA EnvStepDocs ==
    ASSUME DocTypeInv, EnvStep
    PROVE  DocInv'
<1>1. CASE Crash
  <2>1. /\ UNCHANGED <<tstate, pages, index>> /\ staged' = index
        /\ upsertQ' = <<>> /\ deleteQ' = <<>> /\ removing' = NoRemovals
        /\ orphan' = orphan \cup QueuedDeletes
    BY <1>1 DEF Crash, dbVars
  <2>2. \A c \in Coll, u \in Url : Accounted(c, u) => Accounted(c, u)'
    BY <2>1 DEF Accounted, HasRow
  <2>3. OwnersInv'
    BY <2>1 DEF OwnersInv, DocTypeInv, DocInv, HasRow, NoRemovals
  <2> QED BY <2>1, <2>2, <2>3, DocStep
<1>2. ASSUME NEW u \in Url, NEW h \in Hash, SiteChange(u, h) PROVE DocInv'
  BY <1>2, QuietStepDocs DEF SiteChange, dbVars, writerVars, chanVars, procVars, histVars
<1> QED BY <1>1, <1>2 DEF EnvStep

LEMMA InitDocs == Init => DocInv
BY DEF Init, DocInv, DocHasRow, NoDoc, NoRow, NoRemovals, HasRow

\* DocInv is an invariant for every topology of targets, collections and
\* aliases, every channel and batch size, and every bound on crashes, failed
\* commits, removals and site changes.
THEOREM DocsAccounted == Spec => []DocInv
<1>1. Init => DocTypeInv
  BY InitTypeInv, InitDocs DEF DocTypeInv
<1>2. DocTypeInv /\ [Next]_vars => DocTypeInv'
  <2> SUFFICES ASSUME DocTypeInv, [Next]_vars PROVE DocTypeInv'
    OBVIOUS
  <2>1. TypeInv
    BY DEF DocTypeInv
  <2>2. CASE Next
    <3>1. TypeInv'
      BY <2>1, <2>2, CrawlStepType, IndexerStepType, AdminStepType, EnvStepType DEF Next
    <3>2. DocInv'
      BY <2>2, CrawlStepDocs, IndexerStepDocs, AdminStepDocs, EnvStepDocs DEF Next
    <3> QED BY <3>1, <3>2 DEF DocTypeInv
  <2>3. CASE UNCHANGED vars
    <3>1. DocInv'
      BY <2>3, QuietStepDocs DEF vars, dbVars, writerVars, chanVars, procVars, histVars
    <3>2. TypeInv'
      BY <2>1, <2>3 DEF vars, dbVars, writerVars, chanVars, procVars, envVars, histVars,
                        TypeInv, TypeOK, TaskHasUrl
    <3> QED BY <3>1, <3>2 DEF DocTypeInv
  <2> QED BY <2>2, <2>3
<1>3. DocTypeInv => DocInv
  BY DEF DocTypeInv
<1> QED BY <1>1, <1>2, <1>3, PTL DEF Spec

\* Search never returns a page the store has forgotten: a document in the
\* index has its row, or its removal is queued, or it is one of the recorded
\* orphans (a redirect's alias, a refused row, a deleted collection, a
\* deletion lost with the indexer or the process).
THEOREM DocumentsHaveRows == Spec => []DocHasRow
<1>1. DocInv => DocHasRow
  BY DEF DocInv
<1> QED BY <1>1, DocsAccounted, PTL

=============================================================================
