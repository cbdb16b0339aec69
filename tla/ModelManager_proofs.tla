-------------------------- MODULE ModelManager_proofs --------------------------
(***************************************************************************)
(* Proofs about the model manager: the record of a model says what the     *)
(* model is, and a model that is ready can be read, whatever the threads   *)
(* of the storage, the timers, the clients and restarts do in between.     *)
(***************************************************************************)
EXTENDS ModelManager, TLAPS

ModelRecord ==
  [key : Key \cup {NoModel}, state : State, copied : BOOLEAN, timer : BOOLEAN, deletes : 0 .. 2]
DBRecord == [state : State \cup {"absent"}, copied : BOOLEAN]

\* An entry of the table is of its key, a restart comes to each record once and
\* restores it into an object of its own, and what a timer or a thread works on is
\* the object of some model.
EntriesOK ==
  /\ \A k \in Key : table[k] # NoModel => model[table[k]].key = k
  /\ adding # NoModel => model[adding].key \in Key /\ table[model[adding].key] = NoModel
  /\ \A k \in restoring : /\ table[k] = NoModel /\ db[k].state # "absent"
                          /\ \A o \in Obj : model[o].key # k
  /\ \A t \in threads : model[t.obj].key \in Key
  /\ \A o \in Obj : model[o].timer => model[o].key \in Key
  /\ \A k \in Key : db[k].state = "absent" => db[k] = Absent

\* An object is watched by its timer or worked on by one thread, as its state has it.
ObjectOK(o) ==
  /\ model[o].timer => model[o].state = "unready" /\ ~model[o].copied
  /\ \A t \in threads : t.obj = o =>
       IF t.does = "copy" THEN model[o].state = "unready" /\ model[o].copied
       ELSE model[o].state = "deleting"
  /\ \A t, u \in threads : t.obj = o /\ u.obj = o => t = u

RecordOK(k, o) ==
  /\ db[k].copied = model[o].copied
  /\ \/ db[k].state = model[o].state
     \/ db[k].state = "unready" /\ model[o].state = "error" /\ model[o].copied

\* A model that got no answer out of time has one object, which its record follows, or
\* is about to be restored, or has no record; and its file is there from when its
\* client has sent it.
KeyOK(k) ==
  /\ \A o \in Obj : model[o].key = k =>
       (o = table[k] \/ o = adding) /\ ObjectOK(o) /\ RecordOK(k, o)
  /\ (\A o \in Obj : model[o].key # k) /\ k \notin restoring => db[k].state = "absent"
  /\ db[k].copied => uploads[k] = {}
  /\ db[k].state = "ready" => k \in file
  /\ db[k].state = "unready" /\ "sent" \in uploads[k] => k \in file

MMInv == MMTypeOK /\ EntriesOK /\ \A k \in Key \ odd : KeyOK(k)

-----------------------------------------------------------------------------
(* What every step has in common.                                          *)

LEMMA MMTypes ==
  /\ MMTypeOK <=>
       /\ table \in [Key -> Obj \cup {NoModel}] /\ db \in [Key -> DBRecord] /\ file \subseteq Key
       /\ model \in [Obj -> ModelRecord]
       /\ threads \subseteq [obj : Obj, does : {"copy", "delete", "removed"}, nth : 0 .. 2]
       /\ uploads \in [Key -> SUBSET {"sending", "sent"}]
       /\ restoring \subseteq Key /\ adding \in Obj \cup {NoModel}
       /\ odd \subseteq Key /\ spent \in 0 .. MaxTrouble
  /\ MMTypeOK' <=>
       /\ table' \in [Key -> Obj \cup {NoModel}] /\ db' \in [Key -> DBRecord] /\ file' \subseteq Key
       /\ model' \in [Obj -> ModelRecord]
       /\ threads' \subseteq [obj : Obj, does : {"copy", "delete", "removed"}, nth : 0 .. 2]
       /\ uploads' \in [Key -> SUBSET {"sending", "sent"}]
       /\ restoring' \subseteq Key /\ adding' \in Obj \cup {NoModel}
       /\ odd' \subseteq Key /\ spent' \in 0 .. MaxTrouble
BY DEF MMTypeOK, DBRecord, ModelRecord

LEMMA Constants ==
  /\ NoModel \notin Obj /\ NoModel \notin Key /\ MaxTrouble \in Nat
  /\ NewModel \in ModelRecord /\ NewModel.key = NoModel /\ ~NewModel.timer
  /\ NewModel.state = "unready" /\ NewModel.deletes = 0 /\ ~NewModel.copied
  /\ Absent \in DBRecord /\ Absent.state = "absent" /\ ~Absent.copied
BY MMAssumption, NoModelIsNoObj DEF NewModel, ModelRecord, State, Absent, DBRecord

LEMMA TroubleCounts == ASSUME MMInv, Trouble \/ UNCHANGED spent PROVE spent' \in 0 .. MaxTrouble
BY Constants, MMTypes DEF MMInv, Trouble

LEMMA OddGrows ==
  ASSUME NEW k, NEW is, Odd(k, is)
  PROVE  /\ odd \subseteq odd' /\ odd' \subseteq odd \cup {k}
         /\ k \notin odd' => ~is
BY DEF Odd

\* A model of which no answer came out of time has one object.
LEMMA OneObject ==
  ASSUME MMInv, NEW k \in Key \ odd, NEW o \in Obj, NEW p \in Obj,
         model[o].key = k, model[p].key = k
  PROVE  o = p
BY Constants DEF MMInv, KeyOK, EntriesOK

\* A step that does nothing to a model leaves it as it was.
LEMMA ElsewhereOK ==
  ASSUME MMInv, NEW k \in Key \ odd,
         table'[k] = table[k], db'[k] = db[k], uploads'[k] \subseteq uploads[k],
         k \in file => k \in file', k \in restoring' <=> k \in restoring,
         \A o \in Obj : model[o].key = k =>
           model'[o] = model[o] /\ (o = adding => adding' = adding),
         \A o \in Obj : model'[o].key = k => model'[o] = model[o],
         threads' \in SUBSET [obj : Obj, does : {"copy", "delete", "removed"}, nth : 0 .. 2],
         \A t \in threads' : model'[t.obj].key = k => t \in threads
  PROVE  KeyOK(k)'
<1>1. KeyOK(k)
  BY DEF MMInv
<1>2. ASSUME NEW o \in Obj, model'[o].key = k
      PROVE  (o = table[k] \/ o = adding)' /\ ObjectOK(o)' /\ RecordOK(k, o)'
  <2>1. model'[o] = model[o] /\ model[o].key = k
    BY <1>2
  <2>2. (o = table[k] \/ o = adding) /\ ObjectOK(o) /\ RecordOK(k, o)
    BY <1>1, <2>1 DEF KeyOK
  <2>3. o = table'[k] \/ o = adding'
    BY <2>1, <2>2
  <2>4. \A t \in threads' : t.obj = o => t \in threads
    BY <1>2
  <2>5. ObjectOK(o)'
    BY <2>1, <2>2, <2>4 DEF ObjectOK
  <2>6. RecordOK(k, o)'
    BY <2>1, <2>2 DEF RecordOK
  <2> QED BY <2>3, <2>5, <2>6
<1>3. (\A o \in Obj : model'[o].key # k) => \A o \in Obj : model[o].key # k
  OBVIOUS
<1> QED BY <1>1, <1>2, <1>3 DEF KeyOK

LEMMA MMInitInv == MMInit => MMInv
<1> SUFFICES ASSUME MMInit PROVE MMInv
  OBVIOUS
<1>1. MMTypeOK
  BY Constants, MMTypes DEF MMInit
<1>2. EntriesOK
  BY Constants DEF MMInit, EntriesOK
<1>3. ASSUME NEW k \in Key PROVE KeyOK(k)
  BY Constants DEF MMInit, KeyOK
<1> QED BY <1>1, <1>2, <1>3 DEF MMInv

-----------------------------------------------------------------------------
(* Steps that record a state of one object.                                *)

\* What Saves leaves of the object, and of all other models.
LEMMA SavesOK ==
  ASSUME MMInv, NEW o \in Obj, model[o].key \in Key, NEW s \in State, NEW timer \in BOOLEAN,
         Saves(o, s, timer), UNCHANGED <<table, uploads, restoring, adding>>,
         threads' \subseteq threads, file' \subseteq Key, file \subseteq file',
         Trouble \/ UNCHANGED spent, NEW is, Odd(model[o].key, is)
  PROVE  /\ MMTypeOK' /\ EntriesOK'
         /\ \A k \in Key \ odd' : k # model[o].key => KeyOK(k)'
<1> DEFINE mine == IF o \in Range(table) \cup {adding} THEN s ELSE model[o].state
<1>1. model \in [Obj -> ModelRecord] /\ db \in [Key -> DBRecord]
  BY MMTypes DEF MMInv
<1>2. mine \in State
  BY <1>1 DEF ModelRecord
<1>3. /\ model' = [model EXCEPT ![o].state = mine, ![o].timer = timer]
      /\ db' = [db EXCEPT ![model[o].key] = [state |-> s, copied |-> model[o].copied]]
  BY DEF Saves
<1> HIDE DEF mine
<1>4. /\ model'[o] = [model[o] EXCEPT !.state = mine, !.timer = timer]
      /\ \A p \in Obj : p # o => model'[p] = model[p]
      /\ \A p \in Obj : model'[p].key = model[p].key
      /\ model' \in [Obj -> ModelRecord]
  <2>1. PICK m \in ModelRecord : m = model[o]
    BY <1>1
  <2> DEFINE r == [m EXCEPT !.state = mine, !.timer = timer]
  <2>2. r \in ModelRecord /\ r.key = m.key
    BY <1>2 DEF ModelRecord
  <2>3. model' = [model EXCEPT ![o] = r]
    BY <1>1, <1>3, <2>1
  <2> HIDE DEF r
  <2>4. /\ model'[o] = r /\ model' \in [Obj -> ModelRecord]
        /\ \A p \in Obj : p # o => model'[p] = model[p]
    BY <1>1, <2>2, <2>3
  <2> QED BY <2>1, <2>2, <2>4 DEF r
<1>5. /\ db' \in [Key -> DBRecord] /\ db'[model[o].key] = [state |-> s, copied |-> model[o].copied]
      /\ \A k \in Key : k # model[o].key => db'[k] = db[k]
  BY <1>1, <1>3 DEF DBRecord, ModelRecord
<1>6. odd \subseteq odd' /\ odd' \subseteq odd \cup {model[o].key}
  BY OddGrows
<1>7. MMTypeOK'
  BY <1>4, <1>5, <1>6, MMTypes, TroubleCounts DEF MMInv
<1>8. EntriesOK'
  <2>1. EntriesOK
    BY DEF MMInv
  <2>2. s # "absent"
    BY DEF State
  <2>3. \A k \in Key : table'[k] # NoModel => model'[table'[k]].key = k
    BY <1>4, <2>1, MMTypes DEF EntriesOK, MMInv
  <2>4. adding' # NoModel => model'[adding'].key \in Key /\ table'[model'[adding'].key] = NoModel
    BY <1>4, <2>1, MMTypes DEF EntriesOK, MMInv
  <2>5. \A k \in restoring' : /\ table'[k] = NoModel /\ db'[k].state # "absent"
                              /\ \A p \in Obj : model'[p].key # k
    BY <1>4, <1>5, <2>1, <2>2, MMTypes DEF EntriesOK, MMInv
  <2>6. \A t \in threads' : model'[t.obj].key \in Key
    BY <1>4, <2>1, MMTypes DEF EntriesOK, MMInv
  <2>7. \A p \in Obj : model'[p].timer => model'[p].key \in Key
    BY <1>4, <2>1 DEF EntriesOK
  <2>8. \A k \in Key : db'[k].state = "absent" => db'[k] = Absent
    BY <1>5, <2>1, <2>2 DEF EntriesOK
  <2> QED BY <2>3, <2>4, <2>5, <2>6, <2>7, <2>8 DEF EntriesOK
<1>9. ASSUME NEW k \in Key \ odd', k # model[o].key PROVE KeyOK(k)'
  <2>1. k \in Key \ odd /\ table'[k] = table[k] /\ db'[k] = db[k]
    BY <1>5, <1>6, <1>9
  <2>2. threads' \in SUBSET [obj : Obj, does : {"copy", "delete", "removed"}, nth : 0 .. 2]
    BY <1>7, MMTypes
  <2>3. \A p \in Obj : model[p].key = k \/ model'[p].key = k => model'[p] = model[p]
    BY <1>4, <1>9
  <2> QED BY <2>1, <2>2, <2>3, ElsewhereOK
<1> QED BY <1>7, <1>8, <1>9

\* The object of a model that is still unready takes the state, and the record with it.
LEMMA SavesOwn ==
  ASSUME MMInv, NEW o \in Obj, NEW k \in Key \ odd, model[o].key = k, NEW s \in State, NEW timer \in BOOLEAN,
         Saves(o, s, timer), UNCHANGED <<table, uploads, restoring, adding>>,
         threads' \subseteq threads, file \subseteq file',
         timer => s = "unready" /\ ~model[o].copied,
         \A t \in threads' : t.obj = o => s = "unready" /\ t.does = "copy" /\ model[o].copied,
         s = "ready" => k \in file',
         s = "unready" /\ "sent" \in uploads[k] => k \in file'
  PROVE  KeyOK(k)'
<1>1. model \in [Obj -> ModelRecord] /\ db \in [Key -> DBRecord]
  BY MMTypes DEF MMInv
<1>2. KeyOK(k)
  BY DEF MMInv
<1>3. o = table[k] \/ o = adding
  BY <1>2 DEF KeyOK
<1>4. o \in Range(table) \cup {adding}
  BY <1>3, MMTypes DEF MMInv, Range
<1>5. /\ model' = [model EXCEPT ![o].state = s, ![o].timer = timer]
      /\ db' = [db EXCEPT ![k] = [state |-> s, copied |-> model[o].copied]]
  BY <1>4 DEF Saves
<1>6. /\ model'[o].key = k /\ model'[o].state = s /\ model'[o].timer = timer
      /\ model'[o].copied = model[o].copied
      /\ \A p \in Obj : model'[p].key = model[p].key
  BY <1>1, <1>5 DEF ModelRecord
<1>7. db'[k].state = s /\ db'[k].copied = model[o].copied
  BY <1>1, <1>5 DEF DBRecord, ModelRecord
<1>8. \A p \in Obj : model'[p].key = k => p = o
  BY <1>6, OneObject
<1>9. ObjectOK(o)'
  <2>1. \A t, u \in threads' : t.obj = o /\ u.obj = o => t = u
    BY <1>2 DEF KeyOK, ObjectOK
  <2> QED BY <1>6, <2>1 DEF ObjectOK
<1>10. RecordOK(k, o)'
  BY <1>6, <1>7 DEF RecordOK
<1>11. model[o].copied => uploads[k] = {}
  BY <1>2 DEF KeyOK, RecordOK
<1> QED BY <1>3, <1>6, <1>7, <1>8, <1>9, <1>10, <1>11 DEF KeyOK, State

LEMMA UpdateModelStep ==
  ASSUME MMInv, NEW k \in Key, NEW s \in {"progress", "ready", "error"}, UpdateModel(k, s)
  PROVE  MMInv'
<1> DEFINE o == table[k]
           t == IF s = "progress" THEN model[o].state ELSE s
           arms == s = "progress"
<1>1. /\ o \in Obj /\ Serving /\ uploads[k] # {} /\ (s = "ready" => "sent" \in uploads[k])
      /\ Saves(o, t, arms) /\ Odd(k, model[o].state # "unready")
      /\ UNCHANGED <<table, file, threads, uploads, restoring, adding, spent>>
  BY MMTypes DEF MMInv, UpdateModel, UploadHeartbeat
<1>2. model[o].key = k
  BY <1>1, Constants DEF MMInv, EntriesOK
<1>3. model \in [Obj -> ModelRecord] /\ file \subseteq Key
  BY MMTypes DEF MMInv
<1>4. t \in State /\ arms \in BOOLEAN
  BY <1>1, <1>3 DEF State, ModelRecord
<1> HIDE DEF arms, o
<1>5. /\ MMTypeOK' /\ EntriesOK'
      /\ \A j \in Key \ odd' : j # k => KeyOK(j)'
  BY <1>1, <1>2, <1>3, <1>4, SavesOK
<1>6. ASSUME k \notin odd' PROVE KeyOK(k)'
  <2>1. k \in Key \ odd /\ model[o].state = "unready"
    BY <1>1, <1>6, OddGrows
  <2>2. KeyOK(k)
    BY <2>1 DEF MMInv
  <2>3. ObjectOK(o) /\ RecordOK(k, o)
    BY <1>1, <1>2, <2>2 DEF KeyOK
  <2>4. ~model[o].copied
    BY <1>2, <1>1, <2>2, <2>3 DEF KeyOK, RecordOK
  <2>5. db[k].state = "unready"
    BY <2>1, <2>3 DEF RecordOK
  <2>6. \A u \in threads : u.obj # o
    BY <2>1, <2>3, <2>4 DEF ObjectOK
  <2>7. arms => t = "unready"
    BY <2>1 DEF arms
  <2>8. t \in {"ready", "unready"} /\ "sent" \in uploads[k] => k \in file
    BY <2>2, <2>5 DEF KeyOK
  <2>9. t = "ready" => "sent" \in uploads[k]
    BY <1>1, <2>1
  <2> QED BY <1>1, <1>2, <1>4, <2>1, <2>4, <2>6, <2>7, <2>8, <2>9, SavesOwn
<1> QED BY <1>5, <1>6 DEF MMInv

LEMMA HeartbeatTimeoutStep ==
  ASSUME MMInv, NEW o \in Obj, HeartbeatTimeout(o) PROVE MMInv'
<1>2. PICK k \in Key : k = model[o].key
  BY DEF HeartbeatTimeout, MMInv, EntriesOK
<1>1. /\ model[o].timer /\ Saves(o, "error", FALSE)
      /\ Odd(k, model[o].state # "unready" \/ table[k] # o)
      /\ UNCHANGED <<table, file, threads, uploads, restoring, adding, spent>>
  BY <1>2 DEF HeartbeatTimeout
<1>3. file \subseteq Key /\ "error" \in State /\ FALSE \in BOOLEAN
  BY MMTypes DEF MMInv, State
<1>4. /\ MMTypeOK' /\ EntriesOK'
      /\ \A j \in Key \ odd' : j # k => KeyOK(j)'
  BY <1>1, <1>2, <1>3, SavesOK
<1>5. ASSUME k \notin odd' PROVE KeyOK(k)'
  <2>1. k \in Key \ odd /\ model[o].state = "unready"
    BY <1>1, <1>2, <1>5, OddGrows
  <2>2. ObjectOK(o)
    BY <1>2, <2>1 DEF MMInv, KeyOK
  <2>3. \A u \in threads : u.obj # o
    BY <1>1, <2>1, <2>2 DEF ObjectOK
  <2> QED BY <1>2, <1>1, <1>3, <2>1, <2>3, SavesOwn
<1> QED BY <1>4, <1>5, <1>2 DEF MMInv

LEMMA CopyDoneStep == ASSUME MMInv, NEW o \in Obj, CopyDone(o) PROVE MMInv'
<1>1. /\ CopyOf(o) \in threads /\ threads' = threads \ {CopyOf(o)}
      /\ UNCHANGED <<table, uploads, restoring, adding, odd>>
  BY DEF CopyDone
<1>2. CopyOf(o).obj = o /\ CopyOf(o).does = "copy"
  BY DEF CopyOf
<1>3. PICK k \in Key : k = model[o].key
  BY <1>1, <1>2 DEF MMInv, EntriesOK
<1>4. file \subseteq Key /\ threads' \subseteq threads /\ {"ready", "error"} \subseteq State
  BY <1>1, MMTypes DEF MMInv, State
<1>5. model \in [Obj -> ModelRecord]
  BY MMTypes DEF MMInv
<1>6. Odd(model[o].key, FALSE)
  BY <1>1 DEF Odd
\* What is known of the object of a model without an answer out of time.
<1>7. ASSUME k \notin odd
      PROVE  /\ model[o].state = "unready" /\ model[o].copied /\ ~model[o].timer
             /\ \A t \in threads' : t.obj # o
             /\ (o = table[k] \/ o = adding) /\ RecordOK(k, o) /\ uploads[k] = {}
  <2>1. KeyOK(k)
    BY <1>3, <1>7 DEF MMInv
  <2>2. ObjectOK(o) /\ RecordOK(k, o) /\ (o = table[k] \/ o = adding)
    BY <1>3, <2>1 DEF KeyOK
  <2>3. model[o].state = "unready" /\ model[o].copied
    BY <1>1, <1>2, <2>2 DEF ObjectOK
  <2> QED BY <1>1, <1>2, <2>1, <2>2, <2>3 DEF ObjectOK, KeyOK, RecordOK
<1>8. CASE \E s \in {"ready", "error"} :
             /\ Saves(o, s, model[o].timer) /\ UNCHANGED spent
             /\ file' = IF s = "ready" THEN file \cup {k} ELSE file
  <2>1. PICK s \in {"ready", "error"} :
          /\ Saves(o, s, model[o].timer) /\ UNCHANGED spent
          /\ file' = IF s = "ready" THEN file \cup {k} ELSE file
    BY <1>8
  <2>2. s \in State /\ model[o].timer \in BOOLEAN /\ file' \subseteq Key /\ file \subseteq file'
    BY <1>3, <1>4, <1>5, <2>1 DEF ModelRecord
  <2>3. /\ MMTypeOK' /\ EntriesOK'
        /\ \A j \in Key \ odd' : j # k => KeyOK(j)'
    BY <1>1, <1>3, <1>4, <1>6, <2>1, <2>2, SavesOK
  <2>4. ASSUME k \notin odd' PROVE KeyOK(k)'
    <3>1. k \in Key \ odd
      BY <1>1, <1>3, <2>4
    <3> QED BY <1>3, <1>1, <1>4, <1>7, <2>1, <2>2, <3>1, SavesOwn
  <2> QED BY <1>3, <2>3, <2>4 DEF MMInv
<1>9. CASE Trouble /\ model' = [model EXCEPT ![o].state = "error"] /\ UNCHANGED <<file, db>>
  <2>1. /\ model'[o] = [model[o] EXCEPT !.state = "error"] /\ model' \in [Obj -> ModelRecord]
        /\ \A p \in Obj : p # o => model'[p] = model[p]
        /\ \A p \in Obj : model'[p].key = model[p].key /\ model'[p].timer = model[p].timer
    BY <1>4, <1>5, <1>9 DEF ModelRecord
  <2>2. MMTypeOK'
    BY <1>1, <1>9, <2>1, MMTypes, TroubleCounts DEF MMInv
  <2>3. EntriesOK'
    BY <1>1, <1>9, <2>1, MMTypes DEF MMInv, EntriesOK
  <2>4. ASSUME NEW j \in Key \ odd', j # k PROVE KeyOK(j)'
    <3>1. threads' \in SUBSET [obj : Obj, does : {"copy", "delete", "removed"}, nth : 0 .. 2]
      BY <2>2, MMTypes
    <3>2. \A p \in Obj : model[p].key = j \/ model'[p].key = j => model'[p] = model[p]
      BY <1>3, <2>1, <2>4
    <3> QED BY <1>1, <1>9, <2>4, <3>1, <3>2, ElsewhereOK
  <2>5. ASSUME k \notin odd' PROVE KeyOK(k)'
    <3>1. k \in Key \ odd
      BY <1>1, <1>3, <2>5
    <3>2. \A p \in Obj : model'[p].key = k => p = o
      BY <1>3, <2>1, <3>1, OneObject
    <3>3. /\ model'[o].state = "error" /\ model'[o].copied /\ ~model'[o].timer
          /\ model'[o].key = k
      BY <1>3, <1>5, <1>7, <2>1, <3>1 DEF ModelRecord
    <3>4. ObjectOK(o)'
      BY <1>7, <3>1, <3>3 DEF ObjectOK
    <3>5. RecordOK(k, o)'
      BY <1>7, <1>9, <3>1, <3>3 DEF RecordOK
    <3>6. KeyOK(k)
      BY <3>1 DEF MMInv
    <3> QED BY <1>1, <1>7, <1>9, <3>1, <3>2, <3>3, <3>4, <3>5, <3>6 DEF KeyOK
  <2> QED BY <1>3, <2>2, <2>3, <2>4, <2>5 DEF MMInv
<1> QED BY <1>3, <1>8, <1>9 DEF CopyDone

-----------------------------------------------------------------------------
(* Steps that make an object.                                              *)

LEMMA FreshIs ==
  ASSUME MMInv, NEW o \in Obj, Fresh(o)
  PROVE  /\ \A k \in Key : table[k] # o
         /\ adding # o /\ \A t \in threads : t.obj # o
         /\ \A k \in Key \ odd : model[o].key # k
<1>1. /\ \A k \in Key : table[k] # o
      /\ adding # o /\ \A t \in threads : t.obj # o
  BY DEF Fresh, Unused
<1>2. \A k \in Key \ odd : model[o].key # k
  BY <1>1 DEF MMInv, KeyOK
<1> QED BY <1>1, <1>2

\* The object becomes that of the model, in the table or as the one restored.
Placed(k, o) ==
  \/ /\ restoring = {} /\ table' = [table EXCEPT ![k] = o]
     /\ UNCHANGED <<restoring, adding>>
  \/ /\ UNCHANGED table /\ restoring' = restoring \ {k} /\ adding' = o

\* Its record is r, its thread, if it has one, the element of T, and its client is at U.
Made(k, o, r, T, U) ==
  /\ Fresh(o) /\ table[k] = NoModel /\ adding = NoModel /\ Placed(k, o)
  /\ r.key = k /\ (r.timer => r.state = "unready" /\ ~r.copied)
  /\ model' = [model EXCEPT ![o] = r]
  /\ db' = [db EXCEPT ![k] = [state |-> r.state, copied |-> r.copied]]
  /\ threads' = threads \cup T /\ (\A t, u \in T : t = u)
  /\ \A t \in T : IF t.does = "copy" THEN r.state = "unready" /\ r.copied
                  ELSE r.state = "deleting"
  /\ uploads' = [uploads EXCEPT ![k] = U]
  /\ UNCHANGED <<file, spent>> /\ odd \subseteq odd' /\ odd' \subseteq odd \cup {k}
  /\ k \notin odd' => /\ r.copied => U = {}
                      /\ r.state = "ready" => k \in file
                      /\ r.state = "unready" /\ "sent" \in U => k \in file

LEMMA NewObject ==
  ASSUME MMInv, NEW k \in Key, NEW o \in Obj, NEW r \in ModelRecord,
         NEW T \in SUBSET [obj : {o}, does : {"copy", "delete"}, nth : {0}],
         NEW U \in SUBSET {"sending", "sent"}, Made(k, o, r, T, U)
  PROVE  MMInv'
<1>1. /\ model \in [Obj -> ModelRecord] /\ db \in [Key -> DBRecord]
      /\ table \in [Key -> Obj \cup {NoModel}] /\ uploads \in [Key -> SUBSET {"sending", "sent"}]
      /\ threads \subseteq [obj : Obj, does : {"copy", "delete", "removed"}, nth : 0 .. 2]
      /\ EntriesOK
  BY MMTypes DEF MMInv
<1>2. /\ \A j \in Key : table[j] # o
      /\ \A t \in threads : t.obj # o
      /\ \A j \in Key \ odd : model[o].key # j
  BY FreshIs DEF Made
<1>3. /\ model'[o] = r /\ model' \in [Obj -> ModelRecord] /\ r.key = k
      /\ \A p \in Obj : p # o => model'[p] = model[p]
  BY <1>1 DEF Made
<1>4. /\ db'[k].state = r.state /\ db'[k].copied = r.copied /\ db' \in [Key -> DBRecord]
      /\ \A j \in Key : j # k => db'[j] = db[j]
  BY <1>1 DEF DBRecord, ModelRecord, Made
<1>5. /\ uploads'[k] = U /\ uploads' \in [Key -> SUBSET {"sending", "sent"}]
      /\ \A j \in Key : j # k => uploads'[j] = uploads[j]
  BY <1>1 DEF Made
<1>6. /\ threads' \subseteq [obj : Obj, does : {"copy", "delete", "removed"}, nth : 0 .. 2]
      /\ threads' = threads \cup T /\ (\A t \in T : t.obj = o)
  BY <1>1 DEF Made
<1>7. /\ o = table'[k] \/ o = adding'
      /\ table' \in [Key -> Obj \cup {NoModel}] /\ adding' \in Obj \cup {NoModel}
      /\ \A j \in Key : j # k => table'[j] = table[j]
      /\ restoring' = restoring \ {k} /\ restoring \subseteq Key
      /\ table'[k] # NoModel => table'[k] = o
      /\ adding' # NoModel => adding' = o /\ table'[k] = NoModel
  BY <1>1, MMTypes DEF MMInv, Placed, Made
<1>8. /\ adding = NoModel /\ UNCHANGED <<file, spent>>
      /\ odd \subseteq odd' /\ odd' \subseteq odd \cup {k}
  BY DEF Made
<1>9. MMTypeOK'
  BY <1>3, <1>4, <1>5, <1>6, <1>7, <1>8, MMTypes DEF MMInv
<1>10. EntriesOK'
  <2>1. ASSUME NEW j \in Key, table'[j] # NoModel PROVE model'[table'[j]].key = j
    <3>1. CASE j = k
      BY <1>3, <1>7, <2>1, <3>1
    <3>2. CASE j # k
      BY <1>1, <1>2, <1>3, <1>7, <2>1, <3>2 DEF EntriesOK
    <3> QED BY <3>1, <3>2
  <2>2. adding' # NoModel => model'[adding'].key \in Key /\ table'[model'[adding'].key] = NoModel
    BY <1>3, <1>7
  <2>3. \A j \in restoring' : /\ table'[j] = NoModel /\ db'[j].state # "absent"
                              /\ \A p \in Obj : model'[p].key # j
    BY <1>1, <1>3, <1>4, <1>7 DEF EntriesOK
  <2>4. \A t \in threads' : model'[t.obj].key \in Key
    BY <1>1, <1>2, <1>3, <1>6 DEF EntriesOK
  <2>5. \A p \in Obj : model'[p].timer => model'[p].key \in Key
    BY <1>1, <1>3 DEF EntriesOK
  <2>6. r.state # "absent"
    BY DEF ModelRecord, State
  <2>7. \A j \in Key : db'[j].state = "absent" => db'[j] = Absent
    BY <1>1, <1>4, <2>6 DEF EntriesOK
  <2> QED BY <2>1, <2>2, <2>3, <2>4, <2>5, <2>7 DEF EntriesOK
<1>11. ASSUME NEW j \in Key \ odd', j # k PROVE KeyOK(j)'
  <2>1. j \in Key \ odd /\ \A p \in Obj : model[p].key = j => p # adding
    BY <1>8, <1>11, Constants
  <2>2. \A p \in Obj : model[p].key = j \/ model'[p].key = j => model'[p] = model[p]
    BY <1>2, <1>3, <1>11, <2>1
  <2>3. \A t \in threads' : model'[t.obj].key = j => t \in threads
    BY <1>3, <1>6, <1>11
  <2> QED BY <1>4, <1>5, <1>6, <1>7, <1>8, <1>11, <2>1, <2>2, <2>3, ElsewhereOK
<1>12. ASSUME k \notin odd' PROVE KeyOK(k)'
  <2>1. k \in Key \ odd
    BY <1>8, <1>12
  <2>2. \A p \in Obj : model[p].key # k
    BY <1>8, <2>1, Constants DEF MMInv, KeyOK, Made
  <2>3. \A p \in Obj : model'[p].key = k => p = o
    BY <1>3, <2>2
  <2>4. /\ \A t \in threads' : t.obj = o => t \in T
        /\ \A t, u \in T : t = u
        /\ \A t \in T : IF t.does = "copy" THEN r.state = "unready" /\ r.copied
                        ELSE r.state = "deleting"
        /\ r.timer => r.state = "unready" /\ ~r.copied
    BY <1>2, <1>6 DEF Made
  <2>5. ObjectOK(o)'
    BY <1>3, <2>4 DEF ObjectOK
  <2>6. RecordOK(k, o)'
    BY <1>3, <1>4 DEF RecordOK
  <2>7. /\ r.copied => U = {}
        /\ r.state = "ready" => k \in file
        /\ r.state = "unready" /\ "sent" \in U => k \in file
    <3>1. k \notin odd' => /\ r.copied => U = {}
                           /\ r.state = "ready" => k \in file
                           /\ r.state = "unready" /\ "sent" \in U => k \in file
      BY Zenon DEF Made
    <3> QED BY <1>12, <3>1
  <2> QED BY <1>3, <1>4, <1>5, <1>7, <1>8, <2>3, <2>5, <2>6, <2>7 DEF KeyOK
<1> QED BY <1>9, <1>10, <1>11, <1>12 DEF MMInv

\* What Starts does, in the terms of NewObject.
LEMMA StartsNew ==
  ASSUME NEW k \in Key, NEW o \in Obj, NEW copied \in BOOLEAN, Starts(o, k, copied)
  PROVE  \E r \in ModelRecord, T \in SUBSET [obj : {o}, does : {"copy", "delete"}, nth : {0}] :
           /\ r.key = k /\ r.state = "unready" /\ r.copied = copied /\ r.timer = ~copied
           /\ model' = [model EXCEPT ![o] = r]
           /\ db' = [db EXCEPT ![k] = [state |-> r.state, copied |-> r.copied]]
           /\ threads' = threads \cup T /\ \A t, u \in T : t = u
           /\ \A t \in T : t.does = "copy" /\ copied
<1> DEFINE r == [key |-> k, state |-> "unready", copied |-> copied, timer |-> ~copied, deletes |-> 0]
           T == IF copied THEN {[obj |-> o, does |-> "copy", nth |-> 0]} ELSE {}
<1>1. r \in ModelRecord
  BY DEF ModelRecord, State
<1>2. T \in SUBSET [obj : {o}, does : {"copy", "delete"}, nth : {0}]
  OBVIOUS
<1>3. /\ r.key = k /\ r.state = "unready" /\ r.copied = copied /\ r.timer = ~copied
      /\ model' = [model EXCEPT ![o] = r]
      /\ db' = [db EXCEPT ![k] = [state |-> r.state, copied |-> r.copied]]
  BY DEF Starts
<1>4. threads' = threads \cup T /\ (\A t, u \in T : t = u) /\ \A t \in T : t.does = "copy" /\ copied
  BY DEF Starts
<1> HIDE DEF r, T
<1> QED BY <1>1, <1>2, <1>3, <1>4

LEMMA CreateModelStep ==
  ASSUME MMInv, NEW k \in Key, NEW o \in Obj, NEW copied \in BOOLEAN, CreateModel(k, o, copied)
  PROVE  MMInv'
<1>1. /\ table[k] = NoModel /\ restoring = {} /\ adding = NoModel /\ Fresh(o)
      /\ table' = [table EXCEPT ![k] = o] /\ Odd(k, uploads[k] # {})
      /\ Starts(o, k, copied) /\ UNCHANGED <<file, restoring, adding, spent>>
  BY DEF CreateModel, Serving
<1>2. Placed(k, o)
  BY <1>1 DEF Placed
<1>3. PICK r \in ModelRecord, T \in SUBSET [obj : {o}, does : {"copy", "delete"}, nth : {0}] :
        /\ r.key = k /\ r.state = "unready" /\ r.copied = copied /\ r.timer = ~copied
        /\ model' = [model EXCEPT ![o] = r]
        /\ db' = [db EXCEPT ![k] = [state |-> r.state, copied |-> r.copied]]
        /\ threads' = threads \cup T /\ \A t, u \in T : t = u
        /\ \A t \in T : t.does = "copy" /\ copied
  BY <1>1, StartsNew
<1> DEFINE U == uploads[k] \cup (IF copied THEN {} ELSE {"sending"})
<1>4. U \in SUBSET {"sending", "sent"} /\ uploads' = [uploads EXCEPT ![k] = U]
  BY MMTypes DEF MMInv, CreateModel
<1>5. odd \subseteq odd' /\ odd' \subseteq odd \cup {k} /\ (k \notin odd' => uploads[k] = {})
  BY <1>1, OddGrows
<1>6. k \notin odd' => (r.copied => U = {}) /\ "sent" \notin U
  BY <1>3, <1>5
<1> HIDE DEF U
<1>7. Made(k, o, r, T, U)
  BY <1>1, <1>2, <1>3, <1>4, <1>5, <1>6 DEF Made
<1> QED BY <1>4, <1>7, NewObject

LEMMA RestoredRecord ==
  ASSUME NEW m \in ModelRecord, NEW k \in Key, NEW s \in State, NEW c \in BOOLEAN,
         NEW r, r = [m EXCEPT !.key = k, !.state = s, !.copied = c]
  PROVE  r \in ModelRecord /\ r.key = k /\ r.state = s /\ r.copied = c /\ r.timer = m.timer
BY DEF ModelRecord

LEMMA RestoreModelStep ==
  ASSUME MMInv, NEW k \in Key, NEW o \in Obj, RestoreModel(k, o) PROVE MMInv'
<1>1. /\ k \in restoring /\ adding = NoModel /\ Fresh(o) /\ Restored(o, k)
      /\ restoring' = restoring \ {k} /\ adding' = o
      /\ UNCHANGED <<table, file, uploads, odd, spent>>
  BY DEF RestoreModel
<1>2. table[k] = NoModel /\ db[k].state # "absent" /\ \A p \in Obj : model[p].key # k
  BY <1>1 DEF MMInv, EntriesOK
<1>3. db \in [Key -> DBRecord] /\ uploads \in [Key -> SUBSET {"sending", "sent"}]
  BY MMTypes DEF MMInv
<1>4. db[k].state \in State /\ db[k].copied \in BOOLEAN
      /\ db[k] = [state |-> db[k].state, copied |-> db[k].copied]
  BY <1>2, <1>3 DEF DBRecord
<1> DEFINE U == uploads[k]
<1>5. U \in SUBSET {"sending", "sent"} /\ uploads' = [uploads EXCEPT ![k] = U]
  BY <1>1, <1>3
<1>6. k \notin odd' => /\ db[k].copied => U = {}
                       /\ db[k].state = "ready" => k \in file
                       /\ db[k].state = "unready" /\ "sent" \in U => k \in file
  BY <1>1 DEF MMInv, KeyOK
<1> HIDE DEF U
<1>7. /\ Fresh(o) /\ adding = NoModel
      /\ Placed(k, o)
      /\ UNCHANGED <<file, spent>> /\ odd \subseteq odd' /\ odd' \subseteq odd \cup {k}
  BY <1>1 DEF Placed
<1>8. CASE db[k].state = "unready"
  <2>0. Starts(o, k, db[k].copied)
    BY <1>1, <1>8 DEF Restored
  <2>1. PICK r \in ModelRecord, T \in SUBSET [obj : {o}, does : {"copy", "delete"}, nth : {0}] :
          /\ r.key = k /\ r.state = "unready" /\ r.copied = db[k].copied
          /\ r.timer = ~db[k].copied
          /\ model' = [model EXCEPT ![o] = r]
          /\ db' = [db EXCEPT ![k] = [state |-> r.state, copied |-> r.copied]]
          /\ threads' = threads \cup T /\ \A t, u \in T : t = u
          /\ \A t \in T : t.does = "copy" /\ db[k].copied
    BY <1>4, <2>0, StartsNew
  <2>2. /\ r.timer => r.state = "unready" /\ ~r.copied
        /\ \A t \in T : IF t.does = "copy" THEN r.state = "unready" /\ r.copied
                        ELSE r.state = "deleting"
        /\ k \notin odd' => /\ r.copied => U = {}
                            /\ r.state = "ready" => k \in file
                            /\ r.state = "unready" /\ "sent" \in U => k \in file
    BY <1>6, <1>8, <2>1
  <2>3. Made(k, o, r, T, U)
    BY <1>2, <1>5, <1>7, <2>1, <2>2 DEF Made
  <2> QED BY <1>5, <2>3, NewObject
<1>9. CASE db[k].state # "unready"
  <2> DEFINE r == [NewModel EXCEPT !.key = k, !.state = db[k].state, !.copied = db[k].copied]
             T == IF db[k].state # "deleting" THEN {}
                  ELSE {[obj |-> o, does |-> "delete", nth |-> 0]}
  <2>1. r \in ModelRecord /\ r.key = k /\ r.state = db[k].state /\ r.copied = db[k].copied
        /\ ~r.timer
    <3>1. PICK s \in State, c \in BOOLEAN : s = db[k].state /\ c = db[k].copied
      BY <1>4
    <3>2. r = [NewModel EXCEPT !.key = k, !.state = s, !.copied = c]
      BY <3>1
    <3>3. NewModel \in ModelRecord /\ ~NewModel.timer
      BY Constants
    <3> HIDE DEF r
    <3>4. r \in ModelRecord /\ r.key = k /\ r.state = s /\ r.copied = c /\ r.timer = NewModel.timer
      BY <3>2, <3>3 DEF ModelRecord
    <3> QED BY <3>1, <3>3, <3>4
  <2>2. T \in SUBSET [obj : {o}, does : {"copy", "delete"}, nth : {0}]
    OBVIOUS
  <2>3. /\ model' = [model EXCEPT ![o] = r] /\ threads' = threads \cup T
        /\ UNCHANGED db
    BY <1>1, <1>9 DEF Restored
  <2>4. db' = [db EXCEPT ![k] = [state |-> r.state, copied |-> r.copied]]
    BY <1>3, <1>4, <2>1, <2>3
  <2>5. /\ \A t, u \in T : t = u
        /\ \A t \in T : t.does # "copy" /\ db[k].state = "deleting"
    OBVIOUS
  <2> HIDE DEF r, T
  <2>6. /\ r.timer => r.state = "unready" /\ ~r.copied
        /\ \A t \in T : IF t.does = "copy" THEN r.state = "unready" /\ r.copied
                        ELSE r.state = "deleting"
        /\ k \notin odd' => /\ r.copied => U = {}
                            /\ r.state = "ready" => k \in file
                            /\ r.state = "unready" /\ "sent" \in U => k \in file
    BY <1>6, <1>9, <2>1, <2>5
  <2>7. Made(k, o, r, T, U)
    BY <1>2, <1>5, <1>7, <2>1, <2>3, <2>4, <2>5, <2>6 DEF Made
  <2> QED BY <1>5, <2>1, <2>2, <2>7, NewObject
<1> QED BY <1>8, <1>9

-----------------------------------------------------------------------------
(* Clients that upload, deletions, and restarts.                           *)

LEMMA UploadStep == ASSUME MMInv, NEW k \in Key, Upload(k) PROVE MMInv'
<1>1. /\ "sending" \in uploads[k] /\ uploads' = [uploads EXCEPT ![k] = {"sent"}]
      /\ file' = file \cup {k}
      /\ UNCHANGED <<table, db, model, threads, restoring, adding, odd, spent>>
  BY DEF Upload
<1>2. /\ uploads' \in [Key -> SUBSET {"sending", "sent"}]
      /\ \A j \in Key : j # k => uploads'[j] = uploads[j]
  BY <1>1, MMTypes DEF MMInv
<1>3. MMTypeOK'
  BY <1>1, <1>2, MMTypes DEF MMInv
<1>4. EntriesOK'
  BY <1>1 DEF MMInv, EntriesOK
<1>5. ASSUME NEW j \in Key \ odd' PROVE KeyOK(j)'
  <2>1. ~db[k].copied \/ j # k
    BY <1>1, <1>5 DEF MMInv, KeyOK
  <2>2. KeyOK(j)
    BY <1>1, <1>5 DEF MMInv
  <2>3. \A o \in Obj : ObjectOK(o)' <=> ObjectOK(o)
    BY <1>1 DEF ObjectOK
  <2>4. \A o \in Obj : RecordOK(j, o)' <=> RecordOK(j, o)
    BY <1>1 DEF RecordOK
  <2> QED BY <1>1, <1>2, <2>1, <2>2, <2>3, <2>4 DEF KeyOK
<1> QED BY <1>3, <1>4, <1>5 DEF MMInv

LEMMA AbandonUploadStep == ASSUME MMInv, NEW k \in Key, AbandonUpload(k) PROVE MMInv'
<1>1. PICK u \in uploads[k] : uploads' = [uploads EXCEPT ![k] = @ \ {u}]
  BY DEF AbandonUpload
<1>2. UNCHANGED <<table, db, file, model, threads, restoring, adding, odd, spent>>
  BY DEF AbandonUpload
<1>3. /\ uploads' \in [Key -> SUBSET {"sending", "sent"}]
      /\ \A j \in Key : uploads'[j] \subseteq uploads[j]
  BY <1>1, MMTypes DEF MMInv
<1>4. MMTypeOK'
  BY <1>2, <1>3, MMTypes DEF MMInv
<1>5. EntriesOK'
  BY <1>2 DEF MMInv, EntriesOK
<1>6. ASSUME NEW j \in Key \ odd' PROVE KeyOK(j)'
  <2>1. threads' \in SUBSET [obj : Obj, does : {"copy", "delete", "removed"}, nth : 0 .. 2]
    BY <1>4, MMTypes
  <2> QED BY <1>2, <1>3, <1>6, <2>1, ElsewhereOK
<1> QED BY <1>4, <1>5, <1>6 DEF MMInv

LEMMA OneDeleteMore ==
  ASSUME NEW m \in ModelRecord, m.deletes < 2,
         NEW r, r = [m EXCEPT !.state = "deleting", !.deletes = @ + 1]
  PROVE  /\ m.deletes + 1 \in 0 .. 2 /\ r \in ModelRecord /\ r.key = m.key
         /\ r.timer = m.timer /\ r.copied = m.copied /\ r.state = "deleting"
<1>1. m.deletes + 1 \in 0 .. 2
  BY DEF ModelRecord
<1>2. PICK d \in 0 .. 2 : d = m.deletes + 1
  BY <1>1
<1>3. r = [m EXCEPT !.state = "deleting", !.deletes = d]
  BY <1>2
<1> QED BY <1>2, <1>3 DEF ModelRecord, State

LEMMA DeleteModelStep == ASSUME MMInv, NEW K \in SUBSET Key, DeleteModel(K) PROVE MMInv'
<1>1. /\ restoring = {} /\ adding = NoModel /\ Deletable(K)
      /\ \A o \in Models(K) : model[o].deletes < 2
      /\ model' = [o \in Obj |-> IF o \in Models(K)
           THEN [model[o] EXCEPT !.state = "deleting", !.deletes = @ + 1] ELSE model[o]]
      /\ db' = [k \in Key |-> IF k \in K THEN [db[k] EXCEPT !.state = "deleting"] ELSE db[k]]
      /\ threads' = threads \cup
           {[obj |-> o, does |-> "delete", nth |-> model[o].deletes + 1] : o \in Models(K)}
      /\ UNCHANGED <<table, file, uploads, restoring, adding, odd, spent>>
  BY DEF DeleteModel, Serving
<1>2. /\ model \in [Obj -> ModelRecord] /\ db \in [Key -> DBRecord]
      /\ table \in [Key -> Obj \cup {NoModel}]
      /\ threads \subseteq [obj : Obj, does : {"copy", "delete", "removed"}, nth : 0 .. 2]
      /\ EntriesOK
  BY MMTypes DEF MMInv
<1>3. \A k \in K : table[k] \in Obj /\ model[table[k]].key = k
                   /\ model[table[k]].state \in {"ready", "error"}
  BY <1>1, <1>2, Constants DEF Deletable, EntriesOK
<1>4. /\ Models(K) \subseteq Obj
      /\ \A o \in Obj : o \in Models(K) <=> \E k \in K : o = table[k]
  BY <1>3 DEF Models
<1>5. ASSUME NEW o \in Obj
      PROVE  /\ model'[o] \in ModelRecord /\ model'[o].key = model[o].key
             /\ model'[o].timer = model[o].timer /\ model'[o].copied = model[o].copied
             /\ o \in Models(K) => model'[o].state = "deleting"
             /\ o \notin Models(K) => model'[o] = model[o]
  <2>1. CASE o \in Models(K)
    <3>1. model'[o] = [model[o] EXCEPT !.state = "deleting", !.deletes = @ + 1]
      BY <1>1, <2>1
    <3>2. model[o] \in ModelRecord /\ model[o].deletes < 2
      BY <1>1, <1>2, <2>1
    <3> QED BY <2>1, <3>1, <3>2, OneDeleteMore
  <2>2. CASE o \notin Models(K)
    BY <1>1, <1>2, <2>2
  <2> QED BY <2>1, <2>2
<1>6. ASSUME NEW k \in Key
      PROVE  /\ db'[k] \in DBRecord /\ db'[k].copied = db[k].copied
             /\ db'[k].state = IF k \in K THEN "deleting" ELSE db[k].state
             /\ k \notin K => db'[k] = db[k]
  BY <1>1, <1>2 DEF DBRecord, State
<1>7. model' \in [Obj -> ModelRecord] /\ db' \in [Key -> DBRecord]
  BY <1>1, <1>5, <1>6
<1>8. /\ threads' \subseteq [obj : Obj, does : {"copy", "delete", "removed"}, nth : 0 .. 2]
      /\ \A t \in threads' : t \in threads \/ (t.obj \in Models(K) /\ t.does = "delete")
      /\ \A t, u \in threads' : t.obj = u.obj /\ t \notin threads /\ u \notin threads => t = u
  <2> DEFINE New(o) == [obj |-> o, does |-> "delete", nth |-> model[o].deletes + 1]
  <2>1. ASSUME NEW o \in Models(K)
        PROVE  /\ New(o) \in [obj : Obj, does : {"copy", "delete", "removed"}, nth : 0 .. 2]
               /\ New(o).obj = o /\ New(o).does = "delete"
    <3>1. model[o] \in ModelRecord /\ model[o].deletes < 2 /\ o \in Obj
      BY <1>1, <1>2, <1>4
    <3>2. model[o].deletes + 1 \in 0 .. 2
      BY <3>1, OneDeleteMore
    <3> QED BY <3>1, <3>2
  <2>2. threads' = threads \cup {New(o) : o \in Models(K)}
    BY <1>1
  <2> HIDE DEF New
  <2>3. threads' \subseteq [obj : Obj, does : {"copy", "delete", "removed"}, nth : 0 .. 2]
    BY <1>2, <2>1, <2>2
  <2>4. \A t \in threads' : t \in threads \/ \E o \in Models(K) : t = New(o)
    BY <2>2
  <2>5. \A t \in threads' : t \in threads \/ (t.obj \in Models(K) /\ t.does = "delete")
    BY <2>1, <2>4
  <2>6. \A t, u \in threads' : t.obj = u.obj /\ t \notin threads /\ u \notin threads => t = u
    <3> SUFFICES ASSUME NEW t \in threads', NEW u \in threads', t.obj = u.obj,
                        t \notin threads, u \notin threads
                 PROVE  t = u
      OBVIOUS
    <3>1. PICK o \in Models(K) : t = New(o)
      BY <2>4
    <3>2. PICK p \in Models(K) : u = New(p)
      BY <2>4
    <3>3. t.obj = o /\ u.obj = p
      BY <2>1, <3>1, <3>2
    <3> QED BY <3>1, <3>2, <3>3
  <2> QED BY <2>3, <2>5, <2>6
<1>9. MMTypeOK'
  BY <1>1, <1>7, <1>8, MMTypes DEF MMInv
<1>10. EntriesOK'
  <2>1. \A k \in Key : table'[k] # NoModel => model'[table'[k]].key = k
    <3>1. UNCHANGED table
      BY <1>1
    <3> QED BY <1>2, <1>5, <3>1 DEF EntriesOK
  <2>2. \A t \in threads' : model'[t.obj].key \in Key
    BY <1>2, <1>3, <1>4, <1>5, <1>8 DEF EntriesOK
  <2>3. \A o \in Obj : model'[o].timer => model'[o].key \in Key
    BY <1>2, <1>5 DEF EntriesOK
  <2>4. \A k \in Key : db'[k].state = "absent" => db'[k] = Absent
    BY <1>2, <1>6 DEF EntriesOK
  <2> QED BY <1>1, <2>1, <2>2, <2>3, <2>4 DEF EntriesOK
<1>11. ASSUME NEW k \in Key \ odd', k \notin K PROVE KeyOK(k)'
  <2>1. \A o \in Obj : model[o].key = k => o \notin Models(K)
    BY <1>3, <1>4, <1>11
  <2>2. \A t \in threads' : model'[t.obj].key = k => t \in threads
    BY <1>2, <1>5, <1>8, <2>1
  <2> QED BY <1>1, <1>5, <1>6, <1>8, <1>11, <2>1, <2>2, ElsewhereOK
<1>12. ASSUME NEW k \in K, k \notin odd' PROVE KeyOK(k)'
  <2>1. k \in Key \ odd /\ KeyOK(k)
    BY <1>1, <1>12 DEF MMInv
  <2> DEFINE o == table[k]
  <2>2. o \in Obj /\ model[o].key = k /\ model[o].state \in {"ready", "error"} /\ o \in Models(K)
    BY <1>3, <1>4
  <2>3. ObjectOK(o) /\ RecordOK(k, o)
    BY <2>1, <2>2 DEF KeyOK
  <2> HIDE DEF o
  <2>4. ~model[o].timer /\ \A t \in threads : t.obj # o
    BY <2>2, <2>3 DEF ObjectOK
  <2>5. \A p \in Obj : model'[p].key = k => p = o
    BY <1>5, <2>1, <2>2, OneObject
  <2>6. /\ \A t \in threads' : t.obj = o => t \notin threads /\ t.does = "delete"
        /\ \A t, u \in threads' : t.obj = o /\ u.obj = o => t = u
    BY <1>8, <2>4
  <2>7. ObjectOK(table[k])'
    <3>1. table'[k] = o /\ ~model'[o].timer /\ model'[o].state = "deleting"
      BY <1>1, <1>5, <2>2, <2>4 DEF o
    <3> QED BY <2>6, <3>1 DEF ObjectOK
  <2>8. RecordOK(k, table[k])'
    <3>1. table'[k] = o /\ model'[o].copied = model[o].copied /\ model'[o].state = "deleting"
      BY <1>1, <1>5, <2>2 DEF o
    <3> QED BY <1>6, <2>1, <2>3, <3>1 DEF RecordOK
  <2>9. db'[k].state = "deleting" /\ db'[k].copied = db[k].copied /\ uploads'[k] = uploads[k]
    BY <1>1, <1>6, <2>1
  <2>10. table'[k] = o
    BY <1>1 DEF o
  <2> QED BY <1>5, <2>1, <2>2, <2>5, <2>7, <2>8, <2>9, <2>10 DEF KeyOK
<1> QED BY <1>9, <1>10, <1>11, <1>12 DEF MMInv

LEMMA RemoveFileStep == ASSUME MMInv, NEW t \in threads, RemoveFile(t) PROVE MMInv'
<1> DEFINE r == [t EXCEPT !.does = "removed"]
           ThreadSet == [obj : Obj, does : {"copy", "delete", "removed"}, nth : 0 .. 2]
<1>1. /\ t.does = "delete" /\ t \in ThreadSet /\ threads \subseteq ThreadSet
      /\ UNCHANGED <<table, db, model, uploads, restoring, adding, odd>>
      /\ EntriesOK /\ file \subseteq Key
  BY MMTypes DEF MMInv, RemoveFile
<1>2. r \in ThreadSet /\ r.obj = t.obj /\ r.does = "removed"
  BY <1>1
<1>3. /\ threads' \subseteq (threads \ {t}) \cup {r}
      /\ file' \in {file, file \ {model[t.obj].key}}
      /\ Trouble \/ UNCHANGED spent
  BY DEF RemoveFile
<1> HIDE DEF r
<1>4. MMTypeOK'
  BY <1>1, <1>2, <1>3, MMTypes, TroubleCounts DEF MMInv
<1>5. EntriesOK'
  <2>1. \A u \in threads' : model[u.obj].key \in Key
    BY <1>1, <1>2, <1>3 DEF EntriesOK
  <2> QED BY <1>1, <2>1 DEF EntriesOK
<1>6. ASSUME NEW k \in Key \ odd', k # model[t.obj].key PROVE KeyOK(k)'
  <2>1. \A u \in threads' : model'[u.obj].key = k => u \in threads
    BY <1>1, <1>2, <1>3, <1>6
  <2>2. threads' \in SUBSET ThreadSet
    BY <1>4, MMTypes
  <2> QED BY <1>1, <1>3, <1>6, <2>1, <2>2, ElsewhereOK
\* The file goes of a model whose record says that it is being deleted.
<1>7. ASSUME NEW k \in Key \ odd', k = model[t.obj].key PROVE KeyOK(k)'
  <2> DEFINE o == t.obj
  <2>1. KeyOK(k) /\ o \in Obj
    BY <1>1, <1>7 DEF MMInv
  <2>2. ObjectOK(o) /\ RecordOK(k, o)
    BY <1>7, <2>1 DEF KeyOK
  <2>3. model[o].state = "deleting" /\ db[k].state = "deleting"
    BY <1>1, <2>2 DEF ObjectOK, RecordOK
  <2>4. \A p \in Obj : model[p].key = k => p = o
    BY <1>1, <1>7, <2>1, OneObject
  <2>5. \A u \in threads' : u.obj = o => u = r
    BY <1>2, <1>3, <2>2 DEF ObjectOK
  <2>6. ~model[o].timer
    BY <2>2, <2>3 DEF ObjectOK
  <2> HIDE DEF o
  <2>7. ObjectOK(o)'
    <3>1. \A u \in threads' : u.obj = o => u.does # "copy"
      BY <1>2, <2>5
    <3>2. model'[o] = model[o]
      BY <1>1
    <3> QED BY <2>3, <2>5, <2>6, <3>1, <3>2 DEF ObjectOK
  <2>8. RecordOK(k, o)'
    BY <1>1, <2>2 DEF RecordOK
  <2>9. \A p \in Obj : model'[p].key = k =>
          (p = table'[k] \/ p = adding') /\ ObjectOK(p)' /\ RecordOK(k, p)'
    BY <1>1, <2>1, <2>4, <2>7, <2>8 DEF KeyOK
  <2>10. /\ db'[k].state = "deleting" /\ (db'[k].copied => uploads'[k] = {})
         /\ model'[o].key = k /\ o \in Obj
    BY <1>1, <1>7, <2>1, <2>3 DEF KeyOK, o
  <2> QED BY <2>9, <2>10 DEF KeyOK
<1> QED BY <1>4, <1>5, <1>6, <1>7 DEF MMInv

LEMMA RemovedStep == ASSUME MMInv, NEW t \in threads, Removed(t) PROVE MMInv'
<1>1. PICK k \in Key : k = model[t.obj].key
  BY DEF MMInv, EntriesOK
<1>2. /\ t.does = "removed" /\ threads' = threads \ {t}
      /\ db' = [db EXCEPT ![k] = Absent] /\ table' = [table EXCEPT ![k] = NoModel]
      /\ Odd(k, table[k] # t.obj)
      /\ model' = [o \in Obj |-> IF model[o].key = k THEN Dropped(o, t) ELSE model[o]]
      /\ UNCHANGED <<file, uploads, restoring, adding, spent>>
  BY <1>1 DEF Removed
<1>3. /\ model \in [Obj -> ModelRecord] /\ db \in [Key -> DBRecord]
      /\ table \in [Key -> Obj \cup {NoModel}] /\ t.obj \in Obj
      /\ EntriesOK
  BY MMTypes DEF MMInv
<1>4. ASSUME NEW o \in Obj
      PROVE  /\ Dropped(o, t) \in ModelRecord
             /\ Dropped(o, t).key = model[o].key \/ Dropped(o, t) = NewModel
             /\ Dropped(o, t).timer => model[o].timer
             /\ \A u \in threads' : u.obj = o => Dropped(o, t).key = model[o].key
             /\ o = adding => Dropped(o, t) = model[o]
  <2>1. model[o] \in ModelRecord
    BY <1>3
  <2>2. PICK m \in ModelRecord : m = model[o]
    BY <2>1
  <2> DEFINE r == [m EXCEPT !.state = "unready", !.deletes = 0]
  <2>3. r \in ModelRecord /\ r.key = m.key /\ r.timer = m.timer
    <3>1. "unready" \in State /\ 0 \in 0 .. 2
      BY DEF State
    <3> QED BY <3>1 DEF ModelRecord
  <2>4. Dropped(o, t) \in {m, NewModel, r}
    BY <2>2 DEF Dropped
  <2>5. \A u \in threads' : u.obj = o => Dropped(o, t) # NewModel \/ m.key = NewModel.key
    BY <1>2, <2>2, <2>3, Constants DEF Dropped
  <2>6. \A u \in threads' : u.obj = o => Dropped(o, t).key = m.key
    BY <2>3, <2>4, <2>5
  <2>7. o = adding => Dropped(o, t) = m
    BY <2>2 DEF Dropped
  <2> QED BY <2>2, <2>3, <2>4, <2>6, <2>7, Constants
<1>5. ASSUME NEW o \in Obj
      PROVE  /\ model'[o] \in ModelRecord
             /\ model'[o].key = model[o].key \/ (model[o].key = k /\ model'[o] = NewModel)
             /\ model[o].key # k => model'[o] = model[o]
             /\ model'[o].timer => model[o].timer /\ model'[o].key = model[o].key
             /\ \A u \in threads' : u.obj = o => model'[o].key = model[o].key
             /\ o = adding => model'[o] = model[o]
  BY <1>2, <1>3, <1>4, Constants
<1>6. /\ db' \in [Key -> DBRecord] /\ db'[k] = Absent
      /\ \A j \in Key : j # k => db'[j] = db[j]
      /\ table' \in [Key -> Obj \cup {NoModel}] /\ table'[k] = NoModel
      /\ \A j \in Key : j # k => table'[j] = table[j]
  BY <1>2, <1>3, Constants
<1>7. odd \subseteq odd' /\ odd' \subseteq odd \cup {k} /\ (k \notin odd' => table[k] = t.obj)
  BY <1>2, OddGrows
<1>8. MMTypeOK'
  <2>1. model' \in [Obj -> ModelRecord]
    BY <1>2, <1>5
  <2> QED BY <1>2, <1>6, <1>7, <2>1, MMTypes DEF MMInv
<1>9. EntriesOK'
  <2>1. \A j \in Key : table'[j] # NoModel => model'[table'[j]].key = j
    BY <1>3, <1>5, <1>6 DEF EntriesOK
  <2>2. adding' # NoModel => model'[adding'].key \in Key /\ table'[model'[adding'].key] = NoModel
    BY <1>2, <1>3, <1>5, <1>6, MMTypes DEF EntriesOK, MMInv
  <2>3. \A j \in restoring : j # k /\ j \in Key
    BY <1>1, <1>3, MMTypes DEF EntriesOK, MMInv
  <2>4. \A j \in restoring' : /\ table'[j] = NoModel /\ db'[j].state # "absent"
                              /\ \A p \in Obj : model'[p].key # j
    BY <1>2, <1>3, <1>5, <1>6, <2>3, Constants DEF EntriesOK
  <2>5. \A u \in threads' : model'[u.obj].key \in Key
    <3> SUFFICES ASSUME NEW u \in threads' PROVE model'[u.obj].key \in Key
      OBVIOUS
    <3>1. u \in threads /\ u.obj \in Obj
      BY <1>2, MMTypes DEF MMInv
    <3> QED BY <1>3, <1>5, <3>1 DEF EntriesOK
  <2>6. \A p \in Obj : model'[p].timer => model'[p].key \in Key
    BY <1>3, <1>5 DEF EntriesOK
  <2>7. \A j \in Key : db'[j].state = "absent" => db'[j] = Absent
    BY <1>3, <1>6 DEF EntriesOK
  <2> QED BY <2>1, <2>2, <2>4, <2>5, <2>6, <2>7 DEF EntriesOK
<1>10. ASSUME NEW j \in Key \ odd', j # k PROVE KeyOK(j)'
  <2>1. \A o \in Obj : model[o].key = j => model'[o] = model[o] /\ (o = adding => adding' = adding)
    BY <1>2, <1>5, <1>10
  <2>2. \A o \in Obj : model'[o].key = j => model'[o] = model[o]
    BY <1>5, <1>10, Constants
  <2>3. threads' \in SUBSET [obj : Obj, does : {"copy", "delete", "removed"}, nth : 0 .. 2]
    BY <1>8, MMTypes
  <2> QED BY <1>2, <1>6, <1>7, <1>10, <2>1, <2>2, <2>3, ElsewhereOK
\* Nothing works any more on the one object the model had.
<1>11. ASSUME k \notin odd' PROVE KeyOK(k)'
  <2> DEFINE o == t.obj
  <2>1. k \in Key \ odd /\ KeyOK(k) /\ o \in Obj /\ table[k] = o
    BY <1>3, <1>7, <1>11 DEF MMInv
  <2>2. ObjectOK(o)
    BY <1>1, <2>1 DEF KeyOK
  <2>3. \A p \in Obj : model[p].key = k => p = o
    BY <1>1, <2>1, OneObject
  <2>4. adding # o
    BY <1>1, <1>3, <2>1, Constants DEF EntriesOK
  <2>5. ~model[o].timer /\ \A u \in threads \ {t} : u.obj # o
    BY <1>2, <2>2 DEF ObjectOK
  <2>6. Dropped(o, t) = NewModel
    BY <2>4, <2>5 DEF Dropped
  <2>7. \A p \in Obj : model'[p].key # k
    BY <1>1, <1>2, <1>5, <2>3, <2>6, Constants
  <2> QED BY <1>6, <2>7, Constants DEF KeyOK
<1> QED BY <1>8, <1>9, <1>10, <1>11 DEF MMInv

LEMMA RestartStep == ASSUME MMInv, Restart PROVE MMInv'
<1>1. /\ table' = [k \in Key |-> NoModel] /\ model' = [o \in Obj |-> NewModel] /\ threads' = {}
      /\ restoring' = {k \in Key : db[k] # Absent} /\ adding' = NoModel
      /\ Trouble /\ UNCHANGED <<db, file, uploads, odd>>
  BY DEF Restart
<1>2. MMTypeOK'
  BY <1>1, Constants, MMTypes, TroubleCounts DEF MMInv
<1>3. EntriesOK'
  BY <1>1, Constants DEF MMInv, EntriesOK
<1>4. ASSUME NEW k \in Key \ odd' PROVE KeyOK(k)'
  <2>1. KeyOK(k)
    BY <1>1, <1>4 DEF MMInv
  <2>2. k \notin restoring' => db'[k].state = "absent"
    BY <1>1, Constants
  <2>3. \A o \in Obj : model'[o].key # k
    BY <1>1, Constants
  <2> QED BY <1>1, <2>1, <2>2, <2>3 DEF KeyOK
<1> QED BY <1>2, <1>3, <1>4 DEF MMInv

LEMMA AddModelStep == ASSUME MMInv, AddModel PROVE MMInv'
<1>1. PICK k \in Key : k = model[adding].key
  BY DEF AddModel, MMInv, EntriesOK
<1>2. /\ adding \in Obj /\ adding' = NoModel /\ table' = [table EXCEPT ![k] = adding]
      /\ UNCHANGED <<db, file, model, threads, uploads, restoring, odd, spent>>
  BY <1>1, MMTypes DEF MMInv, AddModel
<1>3. /\ table' \in [Key -> Obj \cup {NoModel}] /\ table'[k] = adding
      /\ \A j \in Key : j # k => table'[j] = table[j]
  BY <1>2, MMTypes DEF MMInv
<1>4. MMTypeOK'
  BY <1>2, <1>3, MMTypes DEF MMInv
<1>5. EntriesOK'
  BY <1>1, <1>2, <1>3, MMTypes DEF MMInv, EntriesOK
<1>6. ASSUME NEW j \in Key \ odd', j # k PROVE KeyOK(j)'
  <2>1. threads' \in SUBSET [obj : Obj, does : {"copy", "delete", "removed"}, nth : 0 .. 2]
    BY <1>4, MMTypes
  <2> QED BY <1>1, <1>2, <1>3, <1>6, <2>1, ElsewhereOK
<1>7. ASSUME k \notin odd' PROVE KeyOK(k)'
  <2>1. KeyOK(k) /\ k \in Key \ odd
    BY <1>2, <1>7 DEF MMInv
  <2>2. \A o \in Obj : model'[o].key = k => o = table'[k]
    BY <1>1, <1>2, <1>3, <2>1, OneObject
  <2>3. \A o \in Obj : ObjectOK(o)' <=> ObjectOK(o)
    BY <1>2 DEF ObjectOK
  <2>4. \A o \in Obj : RecordOK(k, o)' <=> RecordOK(k, o)
    BY <1>2 DEF RecordOK
  <2> QED BY <1>2, <2>1, <2>2, <2>3, <2>4 DEF KeyOK
<1> QED BY <1>4, <1>5, <1>6, <1>7 DEF MMInv

-----------------------------------------------------------------------------
(* The theorems.                                                           *)

LEMMA MMStep == MMInv /\ [MMNext]_mmVars => MMInv'
<1> SUFFICES ASSUME MMInv, [MMNext]_mmVars PROVE MMInv'
  OBVIOUS
<1>1. CASE UNCHANGED mmVars
  <2>1. UNCHANGED <<table, db, file, model, threads, uploads, restoring, adding, odd, spent>>
    BY <1>1 DEF mmVars
  <2>2. MMTypeOK' /\ EntriesOK'
    BY <2>1 DEF MMInv, MMTypeOK, EntriesOK
  <2>3. ASSUME NEW k \in Key \ odd' PROVE KeyOK(k)'
    <3>1. threads' \in SUBSET [obj : Obj, does : {"copy", "delete", "removed"}, nth : 0 .. 2]
      BY <2>2, MMTypes
    <3> QED BY <2>1, <2>3, <3>1, ElsewhereOK
  <2> QED BY <2>2, <2>3 DEF MMInv
<1>2. CASE \E k \in Key, o \in Obj, copied \in BOOLEAN : CreateModel(k, o, copied)
  BY <1>2, CreateModelStep
<1>3. CASE \E k \in Key : Upload(k) \/ AbandonUpload(k)
  BY <1>3, UploadStep, AbandonUploadStep
<1>4. CASE \E k \in Key, s \in {"progress", "ready", "error"} : UpdateModel(k, s)
  BY <1>4, UpdateModelStep
<1>5. CASE \E K \in SUBSET Key : DeleteModel(K)
  BY <1>5, DeleteModelStep
<1>6. CASE \E o \in Obj : CopyDone(o) \/ HeartbeatTimeout(o)
  BY <1>6, CopyDoneStep, HeartbeatTimeoutStep
<1>7. CASE \E t \in threads : RemoveFile(t) \/ Removed(t)
  BY <1>7, RemoveFileStep, RemovedStep
<1>8. CASE \E k \in Key, o \in Obj : RestoreModel(k, o)
  BY <1>8, RestoreModelStep
<1>9. CASE AddModel
  BY <1>9, AddModelStep
<1>10. CASE Restart
  BY <1>10, RestartStep
<1> QED BY <1>1, <1>2, <1>3, <1>4, <1>5, <1>6, <1>7, <1>8, <1>9, <1>10 DEF MMNext

LEMMA MMAlways == MMSafety => []MMInv
BY MMInitInv, MMStep, PTL DEF MMSafety

\* Every record, object and thread is of its type, and no more than two threads at a
\* time delete one object.
THEOREM MMTypesHold == MMSpec => []MMTypeOK
<1>1. MMInv => MMTypeOK
  BY DEF MMInv
<1> QED BY <1>1, MMAlways, PTL DEF MMSpec

\* The record of a model says what the model is, whichever of the handlers, timers,
\* callbacks and restarts wrote it last.
THEOREM RecordsAreModels == MMSpec => []RecordIsModel
<1>1. MMInv => RecordIsModel
  <2> SUFFICES ASSUME MMInv, NEW k \in Key \ odd
               PROVE  /\ table[k] # NoModel =>
                           \/ db[k].state = model[table[k]].state
                           \/ /\ db[k].state = "unready" /\ model[table[k]].state = "error"
                              /\ model[table[k]].copied
                      /\ table[k] = NoModel /\ Serving => db[k] = Absent
    BY DEF RecordIsModel
  <2>1. KeyOK(k) /\ EntriesOK /\ table \in [Key -> Obj \cup {NoModel}]
    BY MMTypes DEF MMInv
  <2>2. ASSUME table[k] # NoModel PROVE RecordOK(k, table[k])
    BY <2>1, <2>2 DEF KeyOK, EntriesOK
  <2>3. ASSUME table[k] = NoModel, Serving PROVE db[k] = Absent
    <3>1. \A o \in Obj : model[o].key # k
      BY <2>1, <2>3, Constants DEF KeyOK, Serving
    <3> QED BY <2>1, <2>3, <3>1 DEF KeyOK, EntriesOK, Serving
  <2> QED BY <2>2, <2>3 DEF RecordOK
<1> QED BY <1>1, MMAlways, PTL DEF MMSpec

\* Whoever finds a model ready can read its file, across deletions, creations of the
\* same name and restarts.
THEOREM ReadyIsReadable == MMSpec => []ReadyIsStored
<1>1. MMInv => ReadyIsStored
  BY DEF MMInv, KeyOK, ReadyIsStored
<1> QED BY <1>1, MMAlways, PTL DEF MMSpec

==============================================================================
