--------------------------- MODULE FileStoreProofs ---------------------------
(***************************************************************************)
(* The file store implements the store of the trait as long as no two      *)
(* writers of a namespace overlap, for every number of callers, domains,   *)
(* inodes, errors and ends of the process.                                 *)
(***************************************************************************)
EXTENDS FileStore, TLAPS

Catalog == Store!Catalog
Operation == Store!Operation
View == [c \in Callers |-> Visible(calls[c])]
Saves == {"create", "fill", "rename"}

-------------------------------------------------------------------------------
(* What the operations do to a catalog                                     *)

\* An operation that writes edits the catalog as the trait says; one that does
\* not leaves it alone; either way the answer is the trait's.
LEMMA Edits ==
  ASSUME NEW op \in Operation, NEW cat \in Catalog
  PROVE  /\ Reply(op, cat) = Store!Answer(op, cat)
         /\ Early(op, cat) => Store!After(op, cat) = cat
         /\ ~Early(op, cat) => /\ Edited(op, cat) = Store!After(op, cat)
                               /\ Edited(op, cat) \in Catalog
<1>1. CASE op.kind = "put"
  BY <1>1 DEF Operation, Store!Operation, Catalog, Store!Catalog, Reply, Early, Edited, Writes,
              Store!Answer, Store!After
<1>2. CASE op.kind = "delete"
  BY <1>2 DEF Operation, Store!Operation, Catalog, Store!Catalog, Reply, Early, Edited, Writes,
              Store!Answer, Store!After
<1>3. CASE op.kind = "rename"
  <2>1. op.domain \in Domains /\ op.to \in Domains
    BY <1>3 DEF Operation, Store!Operation
  <2>2. Reply(op, cat) = Store!Answer(op, cat)
    BY <1>3 DEF Reply, Early, Writes, Store!Answer
  <2>3. Early(op, cat) <=> ~Store!Renames(op, cat)
    BY <1>3, OntologyAssumption DEF Early, Writes, Store!Renames
  <2>4. Early(op, cat) => Store!After(op, cat) = cat
    BY <1>3, <2>3 DEF Store!After
  <2>5. ASSUME ~Early(op, cat)
        PROVE  Edited(op, cat) = Store!After(op, cat) /\ Edited(op, cat) \in Catalog
    BY <1>3, <2>1, <2>3, <2>5 DEF Edited, Store!After, Catalog, Store!Catalog, Store!Renames
  <2> QED
    BY <2>2, <2>4, <2>5
<1>4. CASE op.kind \in {"get", "load"}
  BY <1>4 DEF Operation, Store!Operation, Reply, Early, Edited, Writes, Store!Answer, Store!After
<1> QED
  BY <1>1, <1>2, <1>3, <1>4 DEF Operation, Store!Operation

-------------------------------------------------------------------------------
(* The inductive invariant                                                 *)

\* A call is a record of its stage.
Shape(call) ==
  \/ call = Idle
  \/ /\ call.op \in Operation
     /\ \/ call = At("read", call.op)
        \/ call = Done(call.op, call.answer)
        \/ /\ call.stage \in Saves /\ Writes(call.op) /\ call.catalog \in Catalog
           /\ call = Saving(call.stage, call.op, call.catalog, call.fd, call.answer)

TypeInv ==
  /\ data \in [Inodes -> Catalog \cup {Empty, Torn}]
  /\ path \in Inodes \cup {NoInode} /\ tmp \in Inodes \cup {NoInode}
  /\ DOMAIN calls = Callers /\ calls = [c \in Callers |-> calls[c]]
  /\ \A c \in Callers : Shape(calls[c])
  /\ overlapped \in BOOLEAN

\* The file is a whole catalog and not the file that is being written.
WholeFile == path # NoInode => data[path] \in Catalog /\ path # tmp

OneWriter == \A c, d \in Writers : c = d

\* A writer holds the edit of what is in the file now, and the temporary file
\* is its own.
Holds(c) ==
  calls[c].stage \in Saves =>
    /\ ~Early(calls[c].op, Parsed)
    /\ calls[c].catalog = Edited(calls[c].op, Parsed)
    /\ calls[c].answer = Reply(calls[c].op, Parsed)
    /\ calls[c].stage # "create" => tmp \in Inodes /\ calls[c].fd = tmp
    /\ calls[c].stage = "fill" => data[tmp] = Empty
    /\ calls[c].stage = "rename" => data[tmp] = calls[c].catalog

FileInv == TypeInv /\ (~overlapped => WholeFile /\ OneWriter /\ \A c \in Callers : Holds(c))

LEMMA ParsedIsCatalog ==
  ASSUME TypeInv, WholeFile PROVE Parsed \in Catalog
  BY DEF TypeInv, WholeFile, Parsed, Catalog, Store!Catalog

\* One call changes, the others do not.
LEMMA OneCall ==
  ASSUME TypeInv, NEW c \in Callers, NEW call, Goes(c, call)
  PROVE  /\ calls'[c] = call /\ DOMAIN calls' = Callers
         /\ calls' = [x \in Callers |-> calls'[x]]
         /\ \A d \in Callers : d # c => calls'[d] = calls[d]
         /\ View' = [View EXCEPT ![c] = Visible(call)]
  BY DEF TypeInv, Goes, View

\* What a caller sees of each stage.
LEMMA Stages ==
  ASSUME NEW op, NEW answer, NEW catalog, NEW fd, NEW s \in Saves
  PROVE  /\ Visible(Idle) = Store!Waiting
         /\ Visible(At("read", op)) = Store!Asked(op)
         /\ Visible(Saving(s, op, catalog, fd, answer)) = Store!Asked(op)
         /\ Visible(Done(op, answer)) = Store!Told(op, answer)
  BY DEF Visible, Idle, At, Saving, Done, Saves, Store!Waiting, Store!Asked, Store!Told

\* What is read is a catalog, whoever overlaps: bytes that are none are an error.
LEMMA ReadIsCatalog ==
  ASSUME TypeInv, ~(path # NoInode /\ data[path] = Torn)
  PROVE  Parsed \in Catalog
  BY DEF TypeInv, Parsed, Catalog, Store!Catalog

\* Who saves is a writer, and with one writer nobody else saves.
LEMMA OthersDoNotSave ==
  ASSUME TypeInv, OneWriter, NEW c \in Writers, NEW d \in Callers, d # c
  PROVE  calls[d].stage \notin Saves
<1>1. Shape(calls[d])
  BY DEF TypeInv
<1>2. ASSUME calls[d].stage \in Saves PROVE Writes(calls[d].op)
  BY <1>1, <1>2 DEF Shape, Saves, Idle, At, Done
<1>3. ASSUME calls[d].stage \in Saves PROVE d \in Writers
  BY <1>2, <1>3 DEF Writers, Saves
<1> QED
  BY <1>3 DEF OneWriter

LEMMA SaverWrites ==
  ASSUME TypeInv, NEW c \in Callers, calls[c].stage \in Saves
  PROVE  /\ c \in Writers /\ calls[c].op \in Operation /\ calls[c].catalog \in Catalog
         /\ calls[c] = Saving(calls[c].stage, calls[c].op, calls[c].catalog,
                             calls[c].fd, calls[c].answer)
<1>1. Shape(calls[c])
  BY DEF TypeInv
<1>2. /\ Writes(calls[c].op) /\ calls[c].op \in Operation /\ calls[c].catalog \in Catalog
      /\ calls[c] = Saving(calls[c].stage, calls[c].op, calls[c].catalog,
                          calls[c].fd, calls[c].answer)
  BY <1>1 DEF Shape, Saves, Idle, At, Done
<1> QED
  BY <1>2 DEF Writers, Saves

-------------------------------------------------------------------------------
(* The invariant is preserved                                              *)

\* A call that ends, while the files stay as they are.
LEMMA EndKeeps ==
  ASSUME FileInv, NEW c \in Callers, NEW call, Goes(c, call), UNCHANGED Files,
         overlapped' = overlapped, Shape(call), call.stage \in {"idle", "done"}
  PROVE  FileInv'
<1>1. /\ calls'[c] = call /\ \A d \in Callers : d # c => calls'[d] = calls[d]
      /\ DOMAIN calls' = Callers /\ calls' = [x \in Callers |-> calls'[x]]
  BY OneCall DEF FileInv
<1>2. TypeInv'
  BY <1>1 DEF FileInv, TypeInv, Files, Shape
<1>3. Parsed' = Parsed
  BY DEF Parsed, Files
<1>4. ASSUME ~overlapped PROVE WholeFile' /\ OneWriter' /\ \A d \in Callers : Holds(d)'
  <2>1. WholeFile /\ OneWriter /\ \A d \in Callers : Holds(d)
    BY <1>4 DEF FileInv
  <2>2. Writers' \subseteq Writers
    BY <1>1 DEF Writers
  <2>3. ASSUME NEW d \in Callers PROVE Holds(d)'
    <3>1. CASE d = c
      BY <1>1, <3>1 DEF Holds, Saves
    <3>2. CASE d # c
      BY <1>1, <1>3, <2>1, <3>2 DEF Holds, Files
    <3> QED
      BY <3>1, <3>2
  <2> QED
    BY <2>1, <2>2, <2>3 DEF WholeFile, OneWriter, Files
<1> QED
  BY <1>2, <1>4 DEF FileInv

LEMMA InvokeKeeps ==
  ASSUME FileInv, NEW c \in Callers, NEW op \in Operation, Invoke(c, op)
  PROVE  FileInv'
<1>1. /\ calls'[c] = At("read", op) /\ \A d \in Callers : d # c => calls'[d] = calls[d]
      /\ DOMAIN calls' = Callers /\ calls' = [x \in Callers |-> calls'[x]]
  BY OneCall DEF FileInv, Invoke
<1>2. UNCHANGED Files
  BY DEF Invoke
<1>3. TypeInv'
  <2>1. Shape(At("read", op))
    BY DEF Shape, At
  <2>2. \A d \in Callers : Shape(calls'[d])
    BY <1>1, <2>1 DEF FileInv, TypeInv
  <2> QED
    BY <1>1, <1>2, <2>2 DEF FileInv, TypeInv, Files, Invoke
<1>4. Parsed' = Parsed
  BY <1>2 DEF Parsed, Files
<1>5. ASSUME ~overlapped' PROVE WholeFile' /\ OneWriter' /\ \A d \in Callers : Holds(d)'
  <2>1. ~overlapped /\ (Writes(op) => Writers = {})
    BY <1>5 DEF Invoke, FileInv, TypeInv
  <2>2. WholeFile /\ OneWriter /\ \A d \in Callers : Holds(d)
    BY <2>1 DEF FileInv
  <2>3. Writers' \subseteq IF Writes(op) THEN {c} ELSE Writers
    BY <1>1, <2>1 DEF Writers, At
  <2>4. ASSUME NEW d \in Callers PROVE Holds(d)'
    <3>1. CASE d = c
      BY <1>1, <3>1 DEF Holds, Saves, At
    <3>2. CASE d # c
      BY <1>1, <1>2, <1>4, <2>2, <3>2 DEF Holds, Files
    <3> QED
      BY <3>1, <3>2
  <2> QED
    BY <1>2, <2>2, <2>3, <2>4 DEF WholeFile, OneWriter, Files
<1> QED
  BY <1>3, <1>5 DEF FileInv

LEMMA ReadKeeps ==
  ASSUME FileInv, NEW c \in Callers, Read(c)
  PROVE  FileInv'
<1> DEFINE op == calls[c].op
<1>1. op \in Operation /\ Parsed \in Catalog /\ Shape(calls[c]) /\ calls[c].stage = "read"
  BY ReadIsCatalog DEF Read, FileInv, TypeInv, Shape, Idle
<1>2. UNCHANGED Files /\ overlapped' = overlapped
  BY DEF Read
<1>3. CASE Early(op, Parsed)
  <2>1. Goes(c, Done(op, Reply(op, Parsed)))
    BY <1>3 DEF Read
  <2>2. Shape(Done(op, Reply(op, Parsed)))
    BY <1>1 DEF Shape, Done
  <2> QED
    BY <1>2, <2>1, <2>2, EndKeeps DEF Done
<1>4. CASE ~Early(op, Parsed)
  <2> DEFINE saving == Saving("create", op, Edited(op, Parsed), NoInode, Reply(op, Parsed))
  <2>1. Goes(c, saving)
    BY <1>4 DEF Read
  <2>2. /\ calls'[c] = saving /\ \A d \in Callers : d # c => calls'[d] = calls[d]
        /\ DOMAIN calls' = Callers /\ calls' = [x \in Callers |-> calls'[x]]
    BY <2>1, OneCall DEF FileInv
  <2>3. Shape(saving) /\ Writes(op)
    BY <1>1, <1>4, Edits DEF Shape, Saving, Saves, Early
  <2>4. TypeInv'
    BY <1>2, <2>2, <2>3 DEF FileInv, TypeInv, Files
  <2>5. Parsed' = Parsed
    BY <1>2 DEF Parsed, Files
  <2>6. ASSUME ~overlapped PROVE WholeFile' /\ OneWriter' /\ \A d \in Callers : Holds(d)'
    <3>1. WholeFile /\ OneWriter /\ \A d \in Callers : Holds(d)
      BY <2>6 DEF FileInv
    <3>2. c \in Writers
      BY <1>1, <2>3 DEF Writers
    <3>3. Writers' \subseteq Writers
      BY <2>2, <3>2 DEF Writers
    <3>4. ASSUME NEW d \in Callers PROVE Holds(d)'
      <4>1. CASE d = c
        BY <1>4, <2>2, <2>5, <4>1 DEF Holds, Saving
      <4>2. CASE d # c
        BY <1>2, <2>2, <2>5, <3>1, <4>2 DEF Holds, Files
      <4> QED
        BY <4>1, <4>2
    <3> QED
      BY <1>2, <3>1, <3>3, <3>4 DEF WholeFile, OneWriter, Files
  <2> QED
    BY <1>2, <2>4, <2>6 DEF FileInv
<1> QED
  BY <1>3, <1>4

\* While the only writer is at its temporary file, the file is not touched.
LEMMA TmpKeeps ==
  ASSUME TypeInv, TypeInv', WholeFile, OneWriter, \A d \in Callers : Holds(d),
         NEW c \in Writers, \A d \in Callers : d # c => calls'[d] = calls[d],
         path' = path, path' # NoInode => path' # tmp',
         path # NoInode => data'[path] = data[path],
         c \in Writers' \/ calls'[c].stage \in {"idle", "done"}
  PROVE  /\ WholeFile' /\ OneWriter' /\ Parsed' = Parsed
         /\ \A d \in Callers : d # c => Holds(d)'
<1>1. Parsed' = Parsed
  BY DEF Parsed
<1>2. Writers' \subseteq Writers
  BY DEF Writers
<1>3. \A d \in Callers : d # c => Holds(d)'
  BY OthersDoNotSave DEF Holds
<1> QED
  BY <1>1, <1>2, <1>3 DEF WholeFile, OneWriter

LEMMA CreateKeeps ==
  ASSUME FileInv, NEW c \in Callers, Create(c)
  PROVE  FileInv'
<1>0. TypeInv /\ calls[c].stage = "create"
  BY DEF FileInv, Create
<1>1. c \in Writers /\ calls[c].op \in Operation /\ calls[c].catalog \in Catalog
      /\ calls[c] = Saving("create", calls[c].op, calls[c].catalog, calls[c].fd, calls[c].answer)
  BY <1>0, SaverWrites DEF Saves
<1>2. PICK i \in IF tmp # NoInode THEN {tmp} ELSE Inodes \ ({path} \cup Opened) :
        /\ tmp' = i /\ data' = [data EXCEPT ![i] = Empty]
        /\ Goes(c, Moved(calls[c], "fill", i))
  BY DEF Create
<1>3. i \in Inodes /\ path' = path /\ overlapped' = overlapped
  BY <1>0, <1>2 DEF Create, TypeInv
<1> DEFINE filling == Saving("fill", calls[c].op, calls[c].catalog, i, calls[c].answer)
<1>4. Goes(c, filling)
  BY <1>2 DEF Moved
<1>5. /\ calls'[c] = filling /\ \A d \in Callers : d # c => calls'[d] = calls[d]
      /\ DOMAIN calls' = Callers /\ calls' = [x \in Callers |-> calls'[x]]
  BY <1>0, <1>4, OneCall
<1>6. Writes(calls[c].op)
  BY <1>1 DEF Writers
<1>7. TypeInv'
  <2>1. Shape(filling)
    BY <1>1, <1>6 DEF Shape, Saving, Saves
  <2> QED
    BY <1>0, <1>2, <1>3, <1>5, <2>1 DEF TypeInv
<1>8. ASSUME ~overlapped PROVE WholeFile' /\ OneWriter' /\ \A d \in Callers : Holds(d)'
  <2>1. WholeFile /\ OneWriter /\ \A d \in Callers : Holds(d)
    BY <1>8 DEF FileInv
  <2>2. path # NoInode => path # i
    BY <1>2, <2>1 DEF WholeFile
  <2>3. path # NoInode => data'[path] = data[path]
    BY <1>0, <1>2, <2>2 DEF TypeInv
  <2>4. c \in Writers'
    BY <1>5, <1>6 DEF Writers, Saving
  <2>5. /\ WholeFile' /\ OneWriter' /\ Parsed' = Parsed
        /\ \A d \in Callers : d # c => Holds(d)'
    BY <1>0, <1>1, <1>2, <1>3, <1>5, <1>7, <2>1, <2>2, <2>3, <2>4, TmpKeeps
  <2>6. data'[i] = Empty
    BY <1>0, <1>2, <1>3 DEF TypeInv
  <2>7. Holds(c)'
    BY <1>0, <1>2, <1>3, <1>5, <2>1, <2>5, <2>6 DEF Holds, Saving, Saves
  <2> QED
    BY <2>5, <2>7
<1> QED
  BY <1>3, <1>7, <1>8 DEF FileInv

LEMMA FillKeeps ==
  ASSUME FileInv, NEW c \in Callers, Fill(c)
  PROVE  FileInv'
<1>0. TypeInv /\ calls[c].stage = "fill"
  BY DEF FileInv, Fill
<1>1. c \in Writers /\ calls[c].op \in Operation /\ calls[c].catalog \in Catalog
      /\ Writes(calls[c].op)
  BY <1>0, SaverWrites DEF Saves, Writers
<1>2. path' = path /\ tmp' = tmp /\ overlapped' = overlapped
  BY DEF Fill
<1> DEFINE full == Moved(calls[c], "rename", calls[c].fd)
<1>3. /\ calls'[c] = full /\ \A d \in Callers : d # c => calls'[d] = calls[d]
      /\ DOMAIN calls' = Callers /\ calls' = [x \in Callers |-> calls'[x]]
  BY <1>0, OneCall DEF Fill
<1>4. PICK body \in {calls[c].catalog} \cup (IF data[calls[c].fd] = Empty THEN {} ELSE {Torn}) :
        data' = [data EXCEPT ![calls[c].fd] = body]
  BY DEF Fill
<1>5. TypeInv'
  <2>1. Shape(full)
    BY <1>1 DEF Shape, Moved, Saving, Saves
  <2>2. data' \in [Inodes -> Catalog \cup {Empty, Torn}]
    BY <1>0, <1>1, <1>4 DEF TypeInv
  <2> QED
    BY <1>0, <1>2, <1>3, <2>1, <2>2 DEF TypeInv
<1>6. ASSUME ~overlapped PROVE WholeFile' /\ OneWriter' /\ \A d \in Callers : Holds(d)'
  <2>1. WholeFile /\ OneWriter /\ \A d \in Callers : Holds(d)
    BY <1>6 DEF FileInv
  <2>2. calls[c].fd = tmp /\ tmp \in Inodes /\ data[tmp] = Empty
    BY <1>0, <2>1 DEF Holds, Saves
  <2>3. data' = [data EXCEPT ![tmp] = calls[c].catalog]
    BY <1>4, <2>2
  <2>4. (path # NoInode => data'[path] = data[path]) /\ data'[tmp] = calls[c].catalog
    BY <1>0, <2>1, <2>2, <2>3 DEF TypeInv, WholeFile
  <2>5. c \in Writers'
    BY <1>1, <1>3 DEF Writers, Moved, Saving
  <2>6. path' # NoInode => path' # tmp'
    BY <1>2, <2>1 DEF WholeFile
  <2>7. /\ WholeFile' /\ OneWriter' /\ Parsed' = Parsed
        /\ \A d \in Callers : d # c => Holds(d)'
    BY <1>0, <1>1, <1>2, <1>3, <1>5, <2>1, <2>4, <2>5, <2>6, TmpKeeps
  <2>8. Holds(c)'
    BY <1>0, <1>2, <1>3, <2>1, <2>2, <2>4, <2>7 DEF Holds, Moved, Saving, Saves
  <2> QED
    BY <2>7, <2>8
<1> QED
  BY <1>2, <1>5, <1>6 DEF FileInv

LEMMA RenameKeeps ==
  ASSUME FileInv, NEW c \in Callers, Rename(c)
  PROVE  /\ FileInv'
         /\ ~overlapped => Parsed' = Edited(calls[c].op, Parsed)
<1>0. TypeInv /\ calls[c].stage = "rename" /\ tmp # NoInode
  BY DEF FileInv, Rename
<1>1. c \in Writers /\ calls[c].op \in Operation /\ calls[c].catalog \in Catalog
  BY <1>0, SaverWrites DEF Saves
<1>2. /\ path' = tmp /\ tmp' = NoInode /\ data' = data /\ overlapped' = overlapped
      /\ tmp \in Inodes
  BY <1>0 DEF Rename, TypeInv
<1> DEFINE done == Done(calls[c].op, calls[c].answer)
<1>3. /\ calls'[c] = done /\ \A d \in Callers : d # c => calls'[d] = calls[d]
      /\ DOMAIN calls' = Callers /\ calls' = [x \in Callers |-> calls'[x]]
  BY <1>0, OneCall DEF Rename
<1>4. TypeInv'
  <2>1. Shape(done)
    BY <1>1 DEF Shape, Done
  <2> QED
    BY <1>0, <1>2, <1>3, <2>1 DEF TypeInv
<1>5. ASSUME ~overlapped
      PROVE  /\ WholeFile' /\ OneWriter' /\ \A d \in Callers : Holds(d)'
             /\ Parsed' = Edited(calls[c].op, Parsed)
  <2>1. WholeFile /\ OneWriter /\ \A d \in Callers : Holds(d)
    BY <1>5 DEF FileInv
  <2>2. data[tmp] = calls[c].catalog /\ calls[c].catalog = Edited(calls[c].op, Parsed)
    BY <1>0, <2>1 DEF Holds, Saves
  <2>3. WholeFile'
    BY <1>1, <1>2, <2>2, InodeAssumption DEF WholeFile
  <2>4. Parsed' = IF calls[c].catalog = Empty THEN [d \in Domains |-> NoOntology]
                  ELSE calls[c].catalog
    BY <1>2, <2>2, InodeAssumption DEF Parsed
  <2>5. Parsed' = calls[c].catalog
    BY <1>1, <2>4, EmptyAssumption DEF Catalog, Store!Catalog
  <2>6. OneWriter'
    BY <1>3, <2>1 DEF OneWriter, Writers, Done
  <2>7. \A d \in Callers : Holds(d)'
    BY <1>1, <1>3, <2>1, OthersDoNotSave, <1>0 DEF Holds, Done, Saves
  <2> QED
    BY <2>2, <2>3, <2>5, <2>6, <2>7
<1> QED
  BY <1>2, <1>4, <1>5 DEF FileInv

LEMMA FailKeeps ==
  ASSUME FileInv, NEW c \in Callers, Fail(c)
  PROVE  FileInv' /\ (~overlapped => Parsed' = Parsed)
<1>0. TypeInv /\ calls[c].stage \notin {"idle", "done"} /\ Shape(calls[c])
  BY DEF FileInv, Fail, TypeInv
<1>1. /\ path' = path /\ tmp' = tmp /\ overlapped' = overlapped
      /\ Goes(c, Done(calls[c].op, Failed))
  BY DEF Fail
<1>2. Shape(Done(calls[c].op, Failed))
  BY <1>0 DEF Shape, Done, Idle
<1>3. CASE calls[c].stage # "fill"
  BY <1>1, <1>2, <1>3, EndKeeps DEF Fail, Files, Done, Parsed
<1>4. CASE calls[c].stage = "fill"
  <2>1. c \in Writers
    BY <1>0, <1>4, SaverWrites DEF Saves
  <2>2. PICK part \in {data[calls[c].fd], Torn} : data' = [data EXCEPT ![calls[c].fd] = part]
    BY <1>4 DEF Fail
  <2>3. /\ calls'[c] = Done(calls[c].op, Failed)
        /\ \A d \in Callers : d # c => calls'[d] = calls[d]
        /\ DOMAIN calls' = Callers /\ calls' = [x \in Callers |-> calls'[x]]
    BY <1>0, <1>1, OneCall
  <2>4. data' \in [Inodes -> Catalog \cup {Empty, Torn}]
    BY <1>0, <2>2 DEF TypeInv
  <2>5. TypeInv'
    BY <1>0, <1>1, <1>2, <2>3, <2>4 DEF TypeInv
  <2>6. ASSUME ~overlapped
        PROVE  /\ WholeFile' /\ OneWriter' /\ Parsed' = Parsed
               /\ \A d \in Callers : Holds(d)'
    <3>1. WholeFile /\ OneWriter /\ \A d \in Callers : Holds(d)
      BY <2>6 DEF FileInv
    <3>2. calls[c].fd = tmp
      BY <1>4, <3>1 DEF Holds, Saves
    <3>3. (path # NoInode => data'[path] = data[path]) /\ (path' # NoInode => path' # tmp')
      BY <1>0, <1>1, <2>2, <3>1, <3>2 DEF TypeInv, WholeFile
    <3>4. calls'[c].stage = "done"
      BY <2>3 DEF Done
    <3>5. /\ WholeFile' /\ OneWriter' /\ Parsed' = Parsed
          /\ \A d \in Callers : d # c => Holds(d)'
      BY <1>0, <1>1, <2>1, <2>3, <2>5, <3>1, <3>3, <3>4, TmpKeeps
    <3>6. Holds(c)'
      BY <3>4 DEF Holds, Saves
    <3> QED
      BY <3>5, <3>6
  <2> QED
    BY <1>1, <2>5, <2>6 DEF FileInv
<1> QED
  BY <1>3, <1>4

LEMMA CrashKeeps ==
  ASSUME FileInv, Crash PROVE FileInv' /\ Parsed' = Parsed
<1>1. /\ calls' = [c \in Callers |-> Idle] /\ UNCHANGED <<Files, overlapped>>
  BY DEF Crash
<1>2. TypeInv'
  BY <1>1 DEF FileInv, TypeInv, Files, Shape
<1>3. Writers' = {} /\ \A c \in Callers : Holds(c)'
  BY <1>1 DEF Writers, Holds, Saves, Idle
<1> QED
  BY <1>1, <1>2, <1>3 DEF FileInv, WholeFile, OneWriter, Files, Parsed

LEMMA EndsKeep ==
  ASSUME FileInv, NEW c \in Callers, ReadTorn(c) \/ RenameMissing(c) \/ Return(c)
  PROVE  FileInv'
<1>1. Shape(calls[c]) /\ Shape(Idle)
  BY DEF FileInv, TypeInv, Shape
<1>2. CASE Return(c)
  BY <1>1, <1>2, EndKeeps DEF Return, Idle
<1>3. CASE ReadTorn(c) \/ RenameMissing(c)
  <2>1. /\ UNCHANGED Files /\ overlapped' = overlapped
        /\ Goes(c, Done(calls[c].op, Failed)) /\ calls[c].stage \in {"read", "rename"}
    BY <1>3 DEF ReadTorn, RenameMissing
  <2>2. Shape(Done(calls[c].op, Failed))
    BY <1>1, <2>1 DEF Shape, Done, Idle
  <2> QED
    BY <2>1, <2>2, EndKeeps DEF Done
<1> QED
  BY <1>2, <1>3

LEMMA FileInit == Init => FileInv
<1> SUFFICES ASSUME Init PROVE FileInv
  OBVIOUS
<1>1. /\ data \in [Inodes -> {Empty}] /\ path = NoInode /\ tmp = NoInode
      /\ calls = [c \in Callers |-> Idle] /\ overlapped = FALSE
  BY DEF Init
<1>2. \A c \in Callers : calls[c] = Idle
  BY <1>1
<1>3. TypeInv
  <2>1. data \in [Inodes -> Catalog \cup {Empty, Torn}]
    BY <1>1
  <2>2. \A c \in Callers : Shape(calls[c])
    BY <1>2 DEF Shape
  <2> QED
    BY <1>1, <2>1, <2>2 DEF TypeInv
<1>4. Writers = {} /\ \A c \in Callers : Holds(c)
  BY <1>2 DEF Writers, Holds, Saves, Idle
<1> QED
  BY <1>1, <1>3, <1>4 DEF FileInv, WholeFile, OneWriter

LEMMA FileStep == FileInv /\ [Next]_vars => FileInv'
<1> SUFFICES ASSUME FileInv, [Next]_vars PROVE FileInv'
  OBVIOUS
<1>1. ASSUME NEW c \in Callers, NEW op \in Operation, Invoke(c, op) PROVE FileInv'
  BY <1>1, InvokeKeeps
<1>2. ASSUME NEW c \in Callers, Read(c) PROVE FileInv'
  BY <1>2, ReadKeeps
<1>3. ASSUME NEW c \in Callers, Create(c) PROVE FileInv'
  BY <1>3, CreateKeeps
<1>4. ASSUME NEW c \in Callers, Fill(c) PROVE FileInv'
  BY <1>4, FillKeeps
<1>5. ASSUME NEW c \in Callers, Rename(c) PROVE FileInv'
  BY <1>5, RenameKeeps
<1>6. ASSUME NEW c \in Callers, Fail(c) PROVE FileInv'
  BY <1>6, FailKeeps
<1>7. ASSUME NEW c \in Callers, ReadTorn(c) \/ RenameMissing(c) \/ Return(c) PROVE FileInv'
  BY <1>7, EndsKeep
<1>8. CASE Crash
  BY <1>8, CrashKeeps
<1>9. CASE UNCHANGED vars
  BY <1>9 DEF vars, FileInv, TypeInv, WholeFile, OneWriter, Writers, Holds, Parsed
<1> QED
  BY <1>1, <1>2, <1>3, <1>4, <1>5, <1>6, <1>7, <1>8, <1>9 DEF Next, Operation

-------------------------------------------------------------------------------
(* Every step of the file store is a step of the store, or none            *)

LEMMA ViewIsCalls == View = [c \in Callers |-> Visible(calls[c])]
  BY DEF View

LEMMA Refines ==
  ASSUME FileInv, FileInv', Next, ~overlapped'
  PROVE  [Store!Next]_(Store!storeVars)
<1>0. ~overlapped /\ TypeInv /\ WholeFile /\ OneWriter /\ Parsed \in Catalog
      /\ \A c \in Callers : Holds(c)
  <2>1. ~overlapped
    BY DEF Next, Invoke, Read, ReadTorn, Create, Fill, Rename, RenameMissing, Fail, Return,
           Crash, FileInv, TypeInv
  <2> QED
    BY <2>1, ParsedIsCatalog DEF FileInv
<1>1. ASSUME NEW c \in Callers, NEW op \in Operation, Invoke(c, op)
      PROVE  Store!Invoke(c, op)
  <2>1. calls[c] = Idle
    BY <1>0, <1>1 DEF Invoke, TypeInv, Shape, At, Done, Saves
  <2>2. View' = [View EXCEPT ![c] = Store!Asked(op)] /\ View[c] = Store!Waiting
    BY <1>0, <1>1, <2>1, OneCall, Stages DEF Invoke, View, Saves
  <2>3. Parsed' = Parsed
    BY <1>1 DEF Invoke, Files, Parsed
  <2> QED
    BY <2>2, <2>3 DEF Store!Invoke, View
<1>2. ASSUME NEW c \in Callers, Read(c)
      PROVE  Store!Effect(c, calls[c].op) \/ UNCHANGED <<Parsed, View>>
  <2> DEFINE op == calls[c].op
  <2>1. calls[c] = At("read", op) /\ op \in Operation
    BY <1>0, <1>2 DEF Read, TypeInv, Shape, Idle, Done, Saves
  <2>2. Parsed' = Parsed
    BY <1>2 DEF Read, Files, Parsed
  <2>3. View[c] = Store!Asked(op)
    BY <2>1, Stages DEF View, Saves
  <2>4. CASE Early(op, Parsed)
    <3>1. View' = [View EXCEPT ![c] = Store!Told(op, Store!Answer(op, Parsed))]
      BY <1>0, <1>2, <2>1, <2>4, OneCall, Stages, Edits DEF Read, Saves
    <3>2. Parsed' = Store!After(op, Parsed)
      BY <1>0, <2>1, <2>2, <2>4, Edits
    <3> QED
      BY <2>3, <3>1, <3>2 DEF Store!Effect, View
  <2>5. CASE ~Early(op, Parsed)
    <3>1. View' = [View EXCEPT ![c] = Store!Asked(op)]
      BY <1>0, <1>2, <2>5, OneCall, Stages DEF Read, Saves
    <3> QED
      BY <2>2, <2>3, <3>1 DEF View
  <2> QED
    BY <2>4, <2>5
<1>3. ASSUME NEW c \in Callers, Create(c) \/ Fill(c) PROVE UNCHANGED <<Parsed, View>>
  <2>1. calls[c].stage \in Saves /\ c \in Writers
        /\ View[c] = Store!Asked(calls[c].op)
    <3>1. calls[c].stage \in Saves
      BY <1>3 DEF Create, Fill, Saves
    <3> QED
      BY <1>0, <3>1, SaverWrites, Stages DEF View
  <2>2. PICK s, fd : s \in Saves /\ Goes(c, Moved(calls[c], s, fd))
    BY <1>3 DEF Create, Fill, Saves
  <2>3. View' = [View EXCEPT ![c] = Store!Asked(calls[c].op)]
    BY <1>0, <2>2, OneCall, Stages DEF Moved
  <2>4. View' = View
    BY <2>1, <2>3 DEF View
  <2>5. path' = path /\ (path # NoInode => data'[path] = data[path])
    <3>1. CASE Create(c)
      BY <1>0, <3>1 DEF Create, TypeInv, WholeFile
    <3>2. CASE Fill(c)
      <4>1. calls[c].fd = tmp
        BY <1>0, <3>2 DEF Fill, Holds, Saves
      <4> QED
        BY <1>0, <3>2, <4>1 DEF Fill, TypeInv, WholeFile
    <3> QED
      BY <1>3, <3>1, <3>2
  <2> QED
    BY <2>4, <2>5 DEF Parsed
<1>4. ASSUME NEW c \in Callers, Rename(c) PROVE Store!Effect(c, calls[c].op)
  <2> DEFINE op == calls[c].op
  <2>1. calls[c].stage = "rename" /\ op \in Operation /\ View[c] = Store!Asked(op)
    BY <1>0, <1>4, SaverWrites, Stages DEF Rename, View, Saves
  <2>2. /\ ~Early(op, Parsed) /\ calls[c].answer = Reply(op, Parsed)
        /\ Parsed' = Edited(op, Parsed)
    BY <1>0, <1>4, <2>1, RenameKeeps DEF Holds, Saves
  <2>3. View' = [View EXCEPT ![c] = Store!Told(op, Store!Answer(op, Parsed))]
    BY <1>0, <1>4, <2>1, <2>2, OneCall, Stages, Edits DEF Rename, Saves
  <2>4. Parsed' = Store!After(op, Parsed)
    BY <1>0, <2>1, <2>2, Edits
  <2> QED
    BY <2>1, <2>3, <2>4 DEF Store!Effect, View
<1>5. ASSUME NEW c \in Callers, Fail(c) \/ ReadTorn(c) \/ RenameMissing(c)
      PROVE  Store!Fail(c, calls[c].op)
  <2>1. calls[c].stage \notin {"idle", "done"} /\ Goes(c, Done(calls[c].op, Failed))
    BY <1>5 DEF Fail, ReadTorn, RenameMissing
  <2>2. View[c] = Store!Asked(calls[c].op)
    <3>1. \/ calls[c] = At("read", calls[c].op)
          \/ /\ calls[c].stage \in Saves
             /\ calls[c] = Saving(calls[c].stage, calls[c].op, calls[c].catalog,
                                 calls[c].fd, calls[c].answer)
      BY <1>0, <2>1 DEF TypeInv, Shape, Idle, Done
    <3> QED
      BY <3>1, Stages DEF View, Saves
  <2>3. View' = [View EXCEPT ![c] = Store!Told(calls[c].op, Failed)]
    BY <1>0, <2>1, OneCall, Stages DEF Saves
  <2>4. Parsed' = Parsed
    BY <1>0, <1>5, FailKeeps DEF ReadTorn, RenameMissing, Files, Parsed
  <2> QED
    BY <2>2, <2>3, <2>4 DEF Store!Fail, View
<1>6. ASSUME NEW c \in Callers, Return(c) PROVE Store!Return(c)
  <2>1. calls[c] = Done(calls[c].op, calls[c].answer)
    BY <1>0, <1>6 DEF Return, TypeInv, Shape, Idle, At, Saves
  <2>2. View[c].stage = "done"
    BY <2>1, Stages DEF View, Saves, Store!Told
  <2>3. View' = [View EXCEPT ![c] = Store!Waiting]
    BY <1>0, <1>6, OneCall, Stages DEF Return, Saves
  <2>4. Parsed' = Parsed
    BY <1>6 DEF Return, Files, Parsed
  <2> QED
    BY <2>2, <2>3, <2>4 DEF Store!Return, View
<1>7. ASSUME Crash PROVE Store!Crash
  <2>1. View' = [c \in Callers |-> Store!Waiting]
    BY <1>7, Stages DEF Crash, View, Saves
  <2> QED
    BY <1>7, <2>1, CrashKeeps DEF Store!Crash, View
<1>8. ASSUME NEW c \in Callers PROVE calls[c].stage # "idle" => calls[c].op \in Operation
  BY <1>0 DEF TypeInv, Shape, Idle
<1>9. Store!Next \/ UNCHANGED <<Parsed, View>>
  <2>1. ASSUME NEW c \in Callers,
               Read(c) \/ Rename(c) \/ Fail(c) \/ ReadTorn(c) \/ RenameMissing(c)
        PROVE  calls[c].op \in Operation
    BY <1>8, <2>1 DEF Read, Rename, Fail, ReadTorn, RenameMissing
  <2> QED
    BY <1>1, <1>2, <1>3, <1>4, <1>5, <1>6, <1>7, <2>1 DEF Next, Store!Next, Operation
<1> QED
  BY <1>9 DEF Store!storeVars, View

\* As long as no two writers of a namespace overlap, every call on the file
\* takes effect at once or not at all, errors and ends of the process included
\* (read_catalog, write_catalog and the operations of JsonFileOntologyStore).
THEOREM FileImplementsStore == Spec => ImplementsDomainStore
<1>1. Init => Store!Init
  BY DEF Init, Store!Init, Parsed, Visible, Idle, Store!NoDomains, Store!Waiting
<1>2. FileInv /\ FileInv' /\ [Next]_vars =>
        [overlapped' \/ [Store!Next]_(Store!storeVars)]_vars
  BY Refines
<1> QED
  BY <1>1, <1>2, FileInit, FileStep, PTL DEF Spec, ImplementsDomainStore

\* Without overlapping writers the file is a whole catalog, whatever was cut short.
THEOREM FileWhole == Spec => [](~overlapped => FileIsWhole)
<1>1. FileInv => (~overlapped => FileIsWhole)
  BY DEF FileInv, WholeFile, FileIsWhole, Catalog
<1> QED
  BY <1>1, FileInit, FileStep, PTL DEF Spec
=============================================================================
