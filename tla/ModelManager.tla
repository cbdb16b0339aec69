------------------------------ MODULE ModelManager ------------------------------
(***************************************************************************)
(* The model manager: ModelManager and Model, the threads that copy and    *)
(* delete the files of the models, the clients that upload them, and       *)
(* restarts. The coroutines never suspend: what they wait for is done when *)
(* a thread has been started. Handlers and timers are atomic towards each  *)
(* other; the threads of the storage agent and their callbacks are not.    *)
(*                                                                         *)
(* A callback that fails asks for a retry from its thread, where           *)
(* IOLoop.instance() of the tornado this code requires raises: there is no *)
(* retry, and what follows in the callback is not run.                     *)
(***************************************************************************)
EXTENDS Integers, FiniteSets, Functions

CONSTANTS
  Key,        \* namespace, name and version of a model
  Obj,        \* Model objects
  MaxTrouble  \* bound on restarts and on failures of the storage

ASSUME MMAssumption == IsFiniteSet(Key) /\ IsFiniteSet(Obj) /\ MaxTrouble \in Nat

VARIABLES
  table,     \* __models, and __id_index, which follows it
  db,        \* the state recorded in the database
  file,      \* the models whose file is in the storage
  model,     \* the Model objects
  threads,   \* the threads of the storage agent
  uploads,   \* for each model, is a client sending its file, and has one sent it?
  restoring, \* the records a restart has not yet come to
  adding,    \* the object restored and not yet in the table
  odd,       \* models that got an answer out of time
  spent

mmVars == <<table, db, file, model, threads, uploads, restoring, adding, odd, spent>>

NoModel == "none"
ASSUME NoModelIsNoObj == NoModel \notin Obj /\ NoModel \notin Key

State == {"unready", "ready", "error", "deleting"}
NewModel == [key |-> NoModel, state |-> "unready", copied |-> FALSE, timer |-> FALSE, deletes |-> 0]

MMTypeOK ==
  /\ table \in [Key -> Obj \cup {NoModel}]
  /\ db \in [Key -> [state : State \cup {"absent"}, copied : BOOLEAN]]
  /\ file \subseteq Key
  /\ model \in [Obj -> [key : Key \cup {NoModel}, state : State, copied : BOOLEAN,
                        timer : BOOLEAN, deletes : 0 .. 2]]
  /\ threads \subseteq [obj : Obj, does : {"copy", "delete", "removed"}, nth : 0 .. 2]
  /\ uploads \in [Key -> SUBSET {"sending", "sent"}]
  /\ restoring \subseteq Key /\ adding \in Obj \cup {NoModel}
  /\ odd \subseteq Key /\ spent \in 0 .. MaxTrouble

Absent == [state |-> "absent", copied |-> FALSE]

MMInit ==
  /\ table = [k \in Key |-> NoModel] /\ db = [k \in Key |-> Absent] /\ file = {}
  /\ model = [o \in Obj |-> NewModel] /\ threads = {}
  /\ uploads = [k \in Key |-> {}]
  /\ restoring = {} /\ adding = NoModel /\ odd = {} /\ spent = 0

Trouble == spent < MaxTrouble /\ spent' = spent + 1
Serving == restoring = {} /\ adding = NoModel
Odd(k, is) == odd' = IF is THEN odd \cup {k} ELSE odd

\* Object o gets state s, and __save_in_db. Nobody looks at the state of an object
\* that is in the table no more.
Saves(o, s, timer) ==
  /\ model' = [model EXCEPT ![o].state = IF o \in Range(table) \cup {adding} THEN s ELSE @,
                            ![o].timer = timer]
  /\ db' = [db EXCEPT ![model[o].key] = [state |-> s, copied |-> model[o].copied]]

\* What create() does of object o: copy the file from the cloud, or wait for it.
Starts(o, k, copied) ==
  /\ model' = [model EXCEPT ![o] =
       [key |-> k, state |-> "unready", copied |-> copied, timer |-> ~copied, deletes |-> 0]]
  /\ db' = [db EXCEPT ![k] = [state |-> "unready", copied |-> copied]]
  /\ threads' = IF copied THEN threads \cup {[obj |-> o, does |-> "copy", nth |-> 0]} ELSE threads

-----------------------------------------------------------------------------
(* Requests of clients.                                                    *)

\* Objects nothing refers to any more, and one of them.
Unused ==
  {o \in Obj : /\ \A k \in Key : table[k] # o
               /\ adding # o /\ ~model[o].timer /\ \A t \in threads : t.obj # o}
Fresh(o) == o \in Unused /\ o = CHOOSE p \in Unused : TRUE

\* create_model. The version is asked for, or one that is not in the table. A
\* client that still sends an earlier model of that name will be taken for the
\* one of this model.
CreateModel(k, o, copied) ==
  /\ Serving /\ table[k] = NoModel /\ Fresh(o)
  /\ Starts(o, k, copied)
  /\ table' = [table EXCEPT ![k] = o]
  /\ uploads' = [uploads EXCEPT ![k] = @ \cup (IF copied THEN {} ELSE {"sending"})]
  /\ Odd(k, uploads[k] # {})
  /\ UNCHANGED <<file, restoring, adding, spent>>

\* The client has stored the file; it has not said so.
Upload(k) ==
  /\ "sending" \in uploads[k]
  /\ uploads' = [uploads EXCEPT ![k] = {"sent"}]
  /\ file' = file \cup {k}
  /\ UNCHANGED <<table, db, model, threads, restoring, adding, odd, spent>>

\* Faulty variant: the timer is not started again after progress.
ForgetsTimer(k, s) ==
  Saves(table[k], IF s = "progress" THEN model[table[k]].state ELSE s, FALSE)
\* __upload_heartbeat, in whatever state the model is.
UploadHeartbeat(k, s) ==
  Saves(table[k], IF s = "progress" THEN model[table[k]].state ELSE s, s = "progress")

\* update_model, by a client that sends or has sent. The thread that reports
\* progress is not waited for, and a client that gets no answer to its last word
\* says that it has failed: both may come after the end.
UpdateModel(k, s) ==
  /\ Serving /\ table[k] # NoModel
  /\ uploads[k] # {} /\ (s = "ready" => "sent" \in uploads[k])
  /\ UploadHeartbeat(k, s)
  /\ Odd(k, model[table[k]].state # "unready")
  /\ UNCHANGED <<table, file, threads, uploads, restoring, adding, spent>>

\* A client is gone, or has been told that there is no such model any more.
AbandonUpload(k) ==
  /\ \E u \in uploads[k] : uploads' = [uploads EXCEPT ![k] = @ \ {u}]
  /\ UNCHANGED <<table, db, file, model, threads, restoring, adding, odd, spent>>

HeartbeatTimeout(o) ==
  /\ Serving /\ model[o].timer
  /\ Saves(o, "error", FALSE)
  /\ Odd(model[o].key, model[o].state # "unready" \/ table[model[o].key] # o)
  /\ UNCHANGED <<table, file, threads, uploads, restoring, adding, spent>>

Models(K) == {table[k] : k \in K}

\* Faulty variant: a model that is not ready may be deleted.
AnyState(K) == \A k \in K : table[k] # NoModel /\ model[table[k]].state # "deleting"
\* delete() refuses these.
Deletable(K) ==
  \A k \in K : table[k] # NoModel /\ model[table[k]].state \in {"ready", "error"}

\* delete_model: one version, or those of all versions up to the first that is
\* refused. The thread is started at once.
DeleteModel(K) ==
  /\ Serving /\ K # {} /\ Deletable(K) /\ \A o \in Models(K) : model[o].deletes < 2
  /\ model' = [o \in Obj |-> IF o \in Models(K)
                 THEN [model[o] EXCEPT !.state = "deleting", !.deletes = @ + 1] ELSE model[o]]
  /\ db' = [k \in Key |-> IF k \in K THEN [db[k] EXCEPT !.state = "deleting"] ELSE db[k]]
  /\ threads' = threads \cup
       {[obj |-> o, does |-> "delete", nth |-> model[o].deletes + 1] : o \in Models(K)}
  /\ UNCHANGED <<table, file, uploads, restoring, adding, odd, spent>>

-----------------------------------------------------------------------------
(* The threads of the storage agent.                                       *)

CopyOf(o) == [obj |-> o, does |-> "copy", nth |-> 0]

\* Faulty variant: the state is not recorded.
ReadyUnsaved(o) ==
  /\ CopyOf(o) \in threads /\ threads' = threads \ {CopyOf(o)}
  /\ model' = [model EXCEPT ![o].state = "ready"]
  /\ file' = file \cup {model[o].key} /\ UNCHANGED <<db, spent>>
  /\ UNCHANGED <<table, uploads, restoring, adding, odd>>
\* __do_copy and __copy_callback.
CopyDone(o) ==
  /\ CopyOf(o) \in threads /\ threads' = threads \ {CopyOf(o)}
  /\ \/ file' = file \cup {model[o].key} /\ Saves(o, "ready", model[o].timer) /\ UNCHANGED spent
     \/ UNCHANGED file /\ Saves(o, "error", model[o].timer) /\ UNCHANGED spent
     \/ \* The storage failed; the retry raises before the state is saved.
        /\ Trouble /\ model' = [model EXCEPT ![o].state = "error"] /\ UNCHANGED <<file, db>>
  /\ UNCHANGED <<table, uploads, restoring, adding, odd>>

\* __do_delete of the agent. When it fails, the retry raises.
RemoveFile(t) ==
  /\ t \in threads /\ t.does = "delete"
  /\ \/ /\ threads' = (threads \ {t}) \cup {[t EXCEPT !.does = "removed"]}
        /\ file' = file \ {model[t.obj].key} /\ UNCHANGED spent
     \/ Trouble /\ threads' = threads \ {t} /\ UNCHANGED file
  /\ UNCHANGED <<table, db, model, uploads, restoring, adding, odd>>

\* What is left of an object that is in the table no more: what its timer and its
\* threads still need.
Dropped(o, t) ==
  IF o = adding THEN model[o]
  ELSE IF model[o].timer \/ \E u \in threads \ {t} : u.obj = o
  THEN [model[o] EXCEPT !.state = "unready", !.deletes = 0] ELSE NewModel
\* __delete_callback: the record goes, and the entry of the table, whichever
\* object it is. There may be no entry yet, which raises.
Removed(t) ==
  /\ t \in threads /\ t.does = "removed" /\ threads' = threads \ {t}
  /\ db' = [db EXCEPT ![model[t.obj].key] = Absent]
  /\ table' = [table EXCEPT ![model[t.obj].key] = NoModel]
  /\ Odd(model[t.obj].key, table[model[t.obj].key] # t.obj)
  /\ model' = [o \in Obj |-> IF model[o].key = model[t.obj].key THEN Dropped(o, t) ELSE model[o]]
  /\ UNCHANGED <<file, uploads, restoring, adding, spent>>

-----------------------------------------------------------------------------
(* Restarts.                                                               *)

Restart ==
  /\ Trouble
  /\ table' = [k \in Key |-> NoModel] /\ model' = [o \in Obj |-> NewModel] /\ threads' = {}
  /\ restoring' = {k \in Key : db[k] # Absent} /\ adding' = NoModel
  /\ UNCHANGED <<db, file, uploads, odd>>

\* Faulty variant: deletions are not taken up again.
NotResumed(o, k) ==
  IF db[k].state = "unready" THEN Starts(o, k, db[k].copied)
  ELSE /\ model' = [model EXCEPT ![o] = [NewModel EXCEPT
            !.key = k, !.state = db[k].state, !.copied = db[k].copied]]
       /\ UNCHANGED <<db, threads>>
\* restore: what was not ready is created once more, what was being deleted is
\* deleted.
Restored(o, k) ==
  IF db[k].state = "unready" THEN Starts(o, k, db[k].copied)
  ELSE /\ model' = [model EXCEPT ![o] = [NewModel EXCEPT
            !.key = k, !.state = db[k].state, !.copied = db[k].copied]]
       /\ threads' = IF db[k].state # "deleting" THEN threads
                     ELSE threads \cup {[obj |-> o, does |-> "delete", nth |-> 0]}
       /\ UNCHANGED db

\* __restore_models, record by record.
RestoreModel(k, o) ==
  /\ k \in restoring /\ adding = NoModel /\ Fresh(o)
  /\ Restored(o, k) /\ restoring' = restoring \ {k} /\ adding' = o
  /\ UNCHANGED <<table, file, uploads, odd, spent>>

\* __add_model, by when a thread of this model may have come to its end.
AddModel ==
  /\ adding # NoModel /\ adding' = NoModel
  /\ table' = [table EXCEPT ![model[adding].key] = adding]
  /\ UNCHANGED <<db, file, model, threads, uploads, restoring, odd, spent>>

MMNext ==
  \/ \E k \in Key, o \in Obj, copied \in BOOLEAN : CreateModel(k, o, copied)
  \/ \E k \in Key : Upload(k) \/ AbandonUpload(k)
  \/ \E k \in Key, s \in {"progress", "ready", "error"} : UpdateModel(k, s)
  \/ \E K \in SUBSET Key : DeleteModel(K)
  \/ \E o \in Obj : CopyDone(o) \/ HeartbeatTimeout(o)
  \/ \E t \in threads : RemoveFile(t) \/ Removed(t)
  \/ \E k \in Key, o \in Obj : RestoreModel(k, o)
  \/ AddModel
  \/ Restart

MMSafety == MMInit /\ [][MMNext]_mmVars

\* Threads come to their end, and a restart is completed. A timer expires in the end:
\* no upload reports progress for ever.
MMSpec ==
  /\ MMSafety
  /\ \A o \in Obj : WF_mmVars(CopyDone(o)) /\ WF_mmVars(HeartbeatTimeout(o))
  /\ WF_mmVars(\E t \in threads : RemoveFile(t) \/ Removed(t))
  /\ WF_mmVars(AddModel \/ \E k \in Key, o \in Obj : RestoreModel(k, o))

-----------------------------------------------------------------------------
(* Properties.                                                             *)

\* Unless an answer came out of time, the record of a model says what the model
\* is, whoever wrote it last; a copy that failed is still recorded as unready
\* (model.py:205).
RecordIsModel ==
  \A k \in Key \ odd :
    /\ table[k] # NoModel =>
         \/ db[k].state = model[table[k]].state
         \/ db[k].state = "unready" /\ model[table[k]].state = "error" /\ model[table[k]].copied
    /\ table[k] = NoModel /\ Serving => db[k] = Absent

\* Unless an answer came out of time, a model that is ready can be read, across
\* deletions, creations of the same name and restarts (model.py:121).
ReadyIsStored ==
  \A k \in Key \ odd : db[k].state = "ready" => k \in file

UnderWay(k) ==
  k \in restoring \/ \E t \in threads : model[t.obj].key = k /\ t.does # "copy"

\* Once nothing more fails, a deletion that is under way, or that a restart finds
\* recorded, comes to its end (model.py:179, 196).
DeletingEnds ==
  \A k \in Key :
    db[k].state = "deleting" /\ spent = MaxTrouble /\ UnderWay(k) ~> db[k].state # "deleting"

\* No model is unready for ever (model.py:156, 172).
UnreadyEnds ==
  \A k \in Key : db[k].state = "unready" ~>
    db[k].state # "unready" \/ (table[k] # NoModel /\ model[table[k]].state = "error")

==============================================================================
