------------------------- MODULE FileStorage_proofs -------------------------
(***************************************************************************)
(* Proofs about FileStorage, for any files, paths, slashes and requests.   *)
(*                                                                         *)
(* That no row leads to another upload's content rests on the names of the *)
(* objects: a row keeps the name minted with its id (Named), what is       *)
(* stored under a name is the content of that name's row (ByName), and     *)
(* no two requests in flight have drawn the same name (Fresh).  Rows are   *)
(* never removed, so a request's row is still there (Known).               *)
(*                                                                         *)
(* For the same reason the two stores can be compared file by file: a file *)
(* is its row and the directories that hold an object under its name       *)
(* (Places), and only the requests that write the file change either.  As  *)
(* long as there is one such request at a time (Alone), what it has read   *)
(* still fits, and at each of its steps the places are known (Sound): the  *)
(* object is ahead of the row or the row behind its object, by one step.   *)
(***************************************************************************)
EXTENDS FileStorage, TLAPS

Minter(q) == q.pc \in {"put", "record", "duplicate", "enter"}
Minting(r) == Minter(req[r])

\* Requests that work on a row.
OnRow(r) == req[r].pc \in {"copy", "remove", "repoint", "erase", "mark"}
Known == \A r \in Reqs : OnRow(r) => rows[req[r].file] # NoRow

\* The keys a request holds bear the name of its file, or of the file it copies.
Naming(q) ==
    /\ Minter(q) => q.key.name = q.file
    /\ q.pc = "duplicate" => q.src.name = q.of
    /\ q.pc \in {"copy", "remove", "repoint"} =>
         q.src.name = q.file /\ q.dst.name = q.file
    /\ q.pc \in {"erase", "mark"} => q.src.name = q.file

Named ==
    /\ \A f \in Files : rows[f] # NoRow => rows[f].key.name = f
    /\ \A r \in Reqs : Naming(req[r])

ByName == \A k \in Key : bucket[k] \in {content[k.name], None}

Fresh ==
    /\ \A r \in Reqs : req[r].pc \in {"put", "duplicate"} => content[req[r].file] = None
    /\ \A r, q \in Reqs : Minting(r) /\ Minting(q) /\ r # q => req[r].file # req[q].file

IInv == TypeOK /\ Known /\ Named /\ ByName /\ Fresh

USE StorageAssumption DEF None

-----------------------------------------------------------------------------

\* Without its slash a key is a key, of the same name; one that has none stays.
LEMMA BareKey ==
    ASSUME NEW k \in Key
    PROVE  /\ BareDir(k.dir) \in Dirs /\ Bare(k) \in Key
           /\ Bare(k).dir = BareDir(k.dir) /\ Bare(k).name = k.name
           /\ k.dir.slashes = 0 => BareDir(k.dir) = k.dir
<1>1. k.dir \in Dirs /\ k = [dir |-> k.dir, name |-> k.name] /\ k.name \in Files
  BY DEF Key
<1>2. PICK n \in 0..MaxSlashes :
        /\ n = IF k.dir.slashes = 0 THEN 0 ELSE k.dir.slashes - 1
        /\ BareDir(k.dir) = [path |-> k.dir.path, slashes |-> n]
  BY <1>1 DEF BareDir, Dirs
<1>3. BareDir(k.dir) \in Dirs
  BY <1>1, <1>2 DEF Dirs
<1>4. k.dir = [path |-> k.dir.path, slashes |-> k.dir.slashes]
  BY <1>1 DEF Dirs
<1>5. Bare(k) = [dir |-> BareDir(k.dir), name |-> k.name]
  BY <1>1 DEF Bare
<1> QED BY <1>1, <1>2, <1>3, <1>4, <1>5 DEF Key

\* A request slot whose program counter is known holds the locals of that step.
LEMMA RequestShape ==
    ASSUME NEW q \in Request
    PROVE  /\ q.pc \in {"put", "record"} => q.file \in Files /\ q.key \in Key
           /\ q.pc \in {"copy", "remove", "repoint"} =>
                q.file \in Files /\ q.src \in Key /\ q.dst \in Key
           /\ q.pc \in {"duplicate", "enter"} =>
                q.of \in Files /\ q.file \in Files /\ q.src \in Key /\ q.key \in Key
           /\ q.pc \in {"erase", "mark"} => q.file \in Files /\ q.src \in Key
           /\ q.pc = "mkdir" => q.path \in Paths
BY DEF Request, Idle

\* Moving a slot on to the next step of its handler keeps its locals.
LEMMA NextStep ==
    ASSUME NEW q \in Request, NEW p,
           \/ q.pc = "put" /\ p = "record"
           \/ q.pc = "copy" /\ p = "remove"
           \/ q.pc = "remove" /\ p = "repoint"
           \/ q.pc = "duplicate" /\ p = "enter"
           \/ q.pc = "erase" /\ p = "mark"
    PROVE  \E next \in Request :
             /\ next = [q EXCEPT !.pc = p] /\ next.pc = p /\ next.file = q.file
             /\ p \in {"record", "enter"} => next.key = q.key
             /\ p \in {"remove", "repoint"} => next.src = q.src /\ next.dst = q.dst
             /\ p = "mark" => next.src = q.src
<1> DEFINE next == [q EXCEPT !.pc = p]
<1>1. next \in Request /\ next.pc = p /\ next.file = q.file
  BY DEF Request, Idle
<1>2. /\ p \in {"record", "enter"} => next.key = q.key
      /\ p \in {"remove", "repoint"} => next.src = q.src /\ next.dst = q.dst
  BY DEF Request, Idle
<1>3. p = "mark" => next.src = q.src
  BY DEF Request, Idle
<1> QED BY <1>1, <1>2, <1>3

LEMMA TypeInit == Init => TypeOK
<1> SUFFICES ASSUME Init PROVE TypeOK
  OBVIOUS
<1>1. /\ rows \in [Files -> Row \union {NoRow}]
      /\ bucket \in [Key -> Files \union {None}]
      /\ content \in [Files -> Files \union {None}]
      /\ req \in [Reqs -> Request]
  BY DEF Init, Request
<1>2. /\ dirs \subseteq Paths /\ doomed \subseteq Files /\ contested \subseteq Files
      /\ halted \subseteq Files /\ slashed \subseteq Files
      /\ fails \in 0..MaxFails /\ calls \in 0..MaxCalls
  BY DEF Init
<1> QED BY <1>1, <1>2 DEF TypeOK

\* A slot that takes up a request, or goes on with it, keeps the types.
LEMMA BeginTypes ==
    ASSUME TypeOK, NEW r \in Reqs, NEW f \in Files, NEW next \in Request,
           Begin(r, f, next)
    PROVE  /\ req' \in [Reqs -> Request] /\ calls' \in 0..MaxCalls
           /\ contested' \subseteq Files
           /\ req'[r] = next /\ \A q \in Reqs \ {r} : req'[q] = req[q]
           /\ req[r].pc = "idle"
BY DEF Begin, TypeOK, Idle

LEMMA ToTypes ==
    ASSUME TypeOK, NEW r \in Reqs, NEW next \in Request, To(r, next)
    PROVE  /\ req' \in [Reqs -> Request] /\ calls' \in 0..MaxCalls
           /\ contested' \subseteq Files
           /\ req'[r] = next /\ \A q \in Reqs \ {r} : req'[q] = req[q]
BY DEF To, TypeOK

\* The requests as they are read: a file of the caller's choice, its row's key.
LEMMA NewUpload ==
    ASSUME NEW f \in Files, NEW d \in Dirs
    PROVE  \E next \in Request :
             /\ next = [pc |-> "put", file |-> f, key |-> [dir |-> d, name |-> f]]
             /\ next.pc = "put" /\ next.file = f
             /\ next.key.dir = d /\ next.key.name = f
<1>1. [dir |-> d, name |-> f] \in Key
  BY DEF Key
<1> DEFINE next == [pc |-> "put", file |-> f, key |-> [dir |-> d, name |-> f]]
<1>2. next \in Request
  BY <1>1 DEF Request
<1> QED BY <1>2

LEMMA NewMove ==
    ASSUME NEW f \in Files, NEW k \in Key, NEW d \in Dirs
    PROVE  \E next \in Request :
             /\ next = [pc |-> "copy", file |-> f, src |-> k, dst |-> [k EXCEPT !.dir = d]]
             /\ next.pc = "copy" /\ next.file = f /\ next.src = k
             /\ next.dst.dir = d /\ next.dst.name = k.name
<1>1. PICK m \in Key : m = [k EXCEPT !.dir = d] /\ m.dir = d /\ m.name = k.name
  <2>1. [k EXCEPT !.dir = d] = [dir |-> d, name |-> k.name]
    BY DEF Key
  <2>2. [dir |-> d, name |-> k.name] \in Key
    BY DEF Key
  <2> QED BY <2>1, <2>2
<1> DEFINE next == [pc |-> "copy", file |-> f, src |-> k, dst |-> m]
<1>2. next \in Request
  BY DEF Request
<1>3. next = [pc |-> "copy", file |-> f, src |-> k, dst |-> [k EXCEPT !.dir = d]]
  BY <1>1
<1> QED BY <1>1, <1>2, <1>3

LEMMA NewCopy ==
    ASSUME NEW f \in Files, NEW g \in Files, NEW k \in Key, NEW d \in Dirs
    PROVE  \E next \in Request :
             /\ next = [pc |-> "duplicate", of |-> f, file |-> g, src |-> k,
                        key |-> [dir |-> d, name |-> g]]
             /\ next.pc = "duplicate" /\ next.of = f /\ next.file = g /\ next.src = k
             /\ next.key.dir = d /\ next.key.name = g
<1>1. PICK m \in Key : m = [dir |-> d, name |-> g] /\ m.dir = d /\ m.name = g
  <2>1. [dir |-> d, name |-> g] \in Key
    BY DEF Key
  <2> QED BY <2>1
<1> DEFINE next == [pc |-> "duplicate", of |-> f, file |-> g, src |-> k, key |-> m]
<1>2. next \in Request
  BY DEF Request
<1> QED BY <1>1, <1>2

LEMMA NewDelete ==
    ASSUME NEW f \in Files, NEW k \in Key
    PROVE  \E next \in Request :
             /\ next = [pc |-> "erase", file |-> f, src |-> k]
             /\ next.pc = "erase" /\ next.file = f /\ next.src = k
<1> DEFINE next == [pc |-> "erase", file |-> f, src |-> k]
<1>1. next \in Request
  BY DEF Request
<1> QED BY <1>1

LEMMA TypeStep == TypeOK /\ Known /\ [Next]_vars => TypeOK' /\ Known'
<1> SUFFICES ASSUME TypeOK, Known, [Next]_vars PROVE TypeOK' /\ Known'
  OBVIOUS
<1> USE DEF Known, OnRow, marks
<1>0. /\ Idle \in Request /\ Idle.pc = "idle" /\ \A x \in Row : x # NoRow
      /\ \A p \in Paths : Plain(p) \in Dirs /\ Plain(p).slashes = 0
      /\ rows \in [Files -> Row \union {NoRow}]
      /\ bucket \in [Key -> Files \union {None}]
      /\ dirs \subseteq Paths /\ req \in [Reqs -> Request]
      /\ calls \in 0..MaxCalls /\ content \in [Files -> Files \union {None}]
      /\ doomed \subseteq Files /\ contested \subseteq Files
      /\ halted \subseteq Files /\ slashed \subseteq Files /\ fails \in 0..MaxFails
  BY DEF Request, Idle, Row, NoRow, Plain, Dirs, TypeOK
\* What every step keeps, apart from the requests.
<1> DEFINE Stores(rs, b, c) ==
       /\ rs \in [Files -> Row \union {NoRow}]
       /\ b \in [Key -> Files \union {None}]
       /\ c \in [Files -> Files \union {None}]
<1>a. Stores(rows, bucket, content)
  BY <1>0
<1>1. ASSUME NEW r \in Reqs, NEW f \in Files, NEW p \in Paths, UploadBegin(r, f, p)
      PROVE  TypeOK' /\ Known'
  <2>1. PICK next \in Request :
          /\ next = [pc |-> "put", file |-> f, key |-> [dir |-> Plain(p), name |-> f]]
          /\ next.pc = "put"
    BY <1>0, NewUpload
  <2>2. Begin(r, f, next) /\ dirs' \subseteq Paths
    BY <1>0, <1>1, <2>1 DEF UploadBegin
  <2>3. UNCHANGED <<rows, bucket, content, doomed, halted, slashed, fails>>
    BY <1>1 DEF UploadBegin
  <2> QED BY <1>0, <2>1, <2>2, <2>3, BeginTypes DEF TypeOK
<1>2. ASSUME NEW r \in Reqs, UploadPut(r) PROVE TypeOK' /\ Known'
  <2>0. /\ req[r].pc = "put" /\ req[r] \in Request
        /\ req[r].file \in Files /\ req[r].key \in Key
    BY <1>0, <1>2, RequestShape DEF UploadPut
  <2>1. PICK next \in Request :
          next = [req[r] EXCEPT !.pc = "record"] /\ next.pc = "record"
    BY <2>0, NextStep
  <2>2. To(r, next) /\ UNCHANGED <<rows, dirs, doomed, halted, slashed, fails>>
    BY <1>2, <2>1 DEF UploadPut
  <2>3. Stores(rows', bucket', content')
    <3>1. /\ bucket' = [bucket EXCEPT ![req[r].key] = req[r].file]
          /\ content' = [content EXCEPT ![req[r].file] = req[r].file]
          /\ rows' = rows
      BY <1>2 DEF UploadPut
    <3>2. bucket' \in [Key -> Files \union {None}]
      BY <1>0, <2>0, <3>1
    <3>3. content' \in [Files -> Files \union {None}]
      BY <1>0, <2>0, <3>1
    <3> QED BY <1>0, <3>1, <3>2, <3>3
  <2>4. Known'
    <3>1. req'[r] = next /\ \A q \in Reqs \ {r} : req'[q] = req[q]
      BY <2>2, ToTypes
    <3>2. \A q \in Reqs : req'[q].pc \in {"copy", "remove", "repoint", "erase", "mark"} =>
            OnRow(q) /\ req'[q].file = req[q].file
      BY <2>0, <2>1, <3>1
    <3> QED BY <2>2, <3>2
  <2>5. TypeOK'
    BY <1>0, <2>2, <2>3, ToTypes DEF TypeOK
  <2> QED BY <2>4, <2>5
<1>3. ASSUME NEW r \in Reqs, UploadRecord(r) \/ CopyEnter(r) PROVE TypeOK' /\ Known'
  <2>1. /\ req[r].pc \in {"record", "enter"} /\ To(r, Idle)
        /\ rows' = IF Taken(req[r].key, req[r].file) THEN rows
                   ELSE [rows EXCEPT ![req[r].file] = [key |-> req[r].key, status |-> "ACTIVE"]]
        /\ UNCHANGED <<bucket, dirs, content, doomed, halted, slashed, fails>>
    BY <1>3 DEF UploadRecord, CopyEnter
  <2>2. /\ req[r].file \in Files
        /\ [key |-> req[r].key, status |-> "ACTIVE"] \in Row
    BY <1>0, <2>1, RequestShape DEF Row
  <2>3. Stores(rows', bucket', content')
    BY <1>0, <2>1, <2>2
  <2>4. \A f \in Files : rows[f] # NoRow => rows'[f] # NoRow
    BY <1>0, <2>1, <2>2
  <2>5. \A q \in Reqs \ {r} : OnRow(q) => req[q].file \in Files
    BY <1>0, RequestShape
  <2> QED BY <1>0, <2>1, <2>3, <2>4, <2>5, ToTypes DEF TypeOK
<1>4. ASSUME NEW r \in Reqs, NEW f \in Files, NEW d \in Dirs, MoveRead(r, f, d)
      PROVE  TypeOK' /\ Known'
  <2>1. PICK next \in Request :
          /\ next = [pc |-> "copy", file |-> f, src |-> rows[f].key,
                     dst |-> [rows[f].key EXCEPT !.dir = d]]
          /\ next.pc = "copy" /\ next.file = f
    <3>1. rows[f].key \in Key
      BY <1>0, <1>4 DEF MoveRead, Row
    <3> QED BY <3>1, NewMove
  <2>2. /\ Begin(r, f, next) /\ rows[f] # NoRow /\ slashed' \subseteq Files
        /\ UNCHANGED <<rows, bucket, dirs, content, doomed, halted, fails>>
    BY <1>0, <1>4, <2>1 DEF MoveRead, Slash
  <2> QED BY <1>0, <2>1, <2>2, BeginTypes DEF TypeOK
<1>5. ASSUME NEW r \in Reqs, MoveCopy(r) PROVE TypeOK' /\ Known'
  <2>1. /\ req[r].pc = "copy" /\ req[r] \in Request /\ req[r].file \in Files
        /\ Bare(req[r].src) \in Key /\ Bare(req[r].dst) \in Key
        /\ UNCHANGED <<rows, dirs, content, doomed, halted, slashed, fails>>
    BY <1>0, <1>5, RequestShape, BareKey DEF MoveCopy
  <2>2. PICK next \in Request :
          /\ next = [req[r] EXCEPT !.pc = "remove"] /\ next.pc = "remove"
          /\ next.file = req[r].file
    BY <2>1, NextStep
  <2>3. Stores(rows', bucket', content')
    BY <1>0, <1>5, <2>1 DEF MoveCopy
  <2>4. To(r, Idle) \/ To(r, next)
    BY <1>5, <2>2 DEF MoveCopy
  <2>5. CASE To(r, Idle)
    BY <1>0, <2>1, <2>3, <2>5, ToTypes DEF TypeOK
  <2>6. CASE To(r, next)
    <3>1. req'[r] = next /\ \A q \in Reqs \ {r} : req'[q] = req[q]
      BY <2>6, ToTypes
    <3>2. Known'
      BY <2>1, <2>2, <3>1
    <3>3. TypeOK'
      BY <1>0, <2>1, <2>3, <2>6, ToTypes DEF TypeOK
    <3> QED BY <3>2, <3>3
  <2> QED BY <2>4, <2>5, <2>6
<1>6. ASSUME NEW r \in Reqs, MoveRemove(r) PROVE TypeOK' /\ Known'
  <2>0. /\ req[r].pc = "remove" /\ req[r] \in Request
        /\ req[r].file \in Files /\ req[r].src \in Key
    BY <1>0, <1>6, RequestShape DEF MoveRemove
  <2>1. PICK next \in Request :
          /\ next = [req[r] EXCEPT !.pc = "repoint"] /\ next.pc = "repoint"
          /\ next.file = req[r].file
    BY <2>0, NextStep
  <2>2. /\ To(r, next) /\ req[r].pc = "remove"
        /\ UNCHANGED <<rows, dirs, content, doomed, halted, slashed, fails>>
    BY <1>6, <2>1 DEF MoveRemove
  <2>3. Stores(rows', bucket', content')
    <3>1. bucket' = [bucket EXCEPT ![req[r].src] = None] /\ rows' = rows /\ content' = content
      BY <1>6 DEF MoveRemove
    <3>2. bucket' \in [Key -> Files \union {None}]
      BY <1>0, <2>0, <3>1
    <3>3. content' \in [Files -> Files \union {None}]
      BY <1>0, <2>0, <3>1
    <3> QED BY <1>0, <3>1, <3>2, <3>3
  <2>4. Known'
    <3>1. req'[r] = next /\ \A q \in Reqs \ {r} : req'[q] = req[q]
      BY <2>2, ToTypes
    <3>2. \A q \in Reqs : req'[q].pc \in {"copy", "remove", "repoint", "erase", "mark"} =>
            OnRow(q) /\ req'[q].file = req[q].file
      BY <2>0, <2>1, <3>1
    <3> QED BY <2>2, <3>2
  <2>5. TypeOK'
    BY <1>0, <2>2, <2>3, ToTypes DEF TypeOK
  <2> QED BY <2>4, <2>5
<1>7. ASSUME NEW r \in Reqs, MoveRepoint(r) PROVE TypeOK' /\ Known'
  <2>1. /\ req[r].file \in Files /\ req[r].dst \in Key /\ To(r, Idle)
        /\ rows[req[r].file] \in Row
        /\ UNCHANGED <<bucket, dirs, content, doomed, halted, slashed, fails>>
    BY <1>0, <1>7, RequestShape DEF MoveRepoint
  <2>2. [rows[req[r].file] EXCEPT !.key = req[r].dst] \in Row
    BY <2>1 DEF Row
  <2>3. Stores(rows', bucket', content')
    BY <1>0, <1>7, <2>1, <2>2 DEF MoveRepoint
  <2>4. \A f \in Files : rows[f] # NoRow => rows'[f] # NoRow
    BY <1>0, <1>7, <2>1, <2>2 DEF MoveRepoint
  <2>5. \A q \in Reqs \ {r} : OnRow(q) => req[q].file \in Files
    BY <1>0, RequestShape
  <2> QED BY <1>0, <2>1, <2>3, <2>4, <2>5, ToTypes DEF TypeOK
<1>8. ASSUME NEW r \in Reqs, NEW f \in Files, NEW g \in Files, NEW d \in Dirs,
             CopyRead(r, f, g, d)
      PROVE  TypeOK' /\ Known'
  <2>1. PICK next \in Request :
          /\ next = [pc |-> "duplicate", of |-> f, file |-> g, src |-> rows[f].key,
                     key |-> [dir |-> d, name |-> g]]
          /\ next.pc = "duplicate"
    <3>1. rows[f].key \in Key
      BY <1>0, <1>8 DEF CopyRead, Row
    <3> QED BY <3>1, NewCopy
  <2>2. /\ Begin(r, g, next) /\ slashed' \subseteq Files
        /\ UNCHANGED <<rows, bucket, dirs, content, doomed, halted, fails>>
    BY <1>0, <1>8, <2>1 DEF CopyRead, Slash
  <2> QED BY <1>0, <2>1, <2>2, BeginTypes DEF TypeOK
<1>9. ASSUME NEW r \in Reqs, CopyObject(r) PROVE TypeOK' /\ Known'
  <2>1. /\ req[r].pc = "duplicate" /\ req[r] \in Request
        /\ req[r].file \in Files /\ req[r].of \in Files
        /\ Bare(req[r].src) \in Key /\ Bare(req[r].key) \in Key
        /\ UNCHANGED <<rows, dirs, doomed, halted, slashed, fails>>
    BY <1>0, <1>9, RequestShape, BareKey DEF CopyObject
  <2>2. PICK next \in Request : next = [req[r] EXCEPT !.pc = "enter"] /\ next.pc = "enter"
    BY <2>1, NextStep
  <2>3. Stores(rows', bucket', content')
    BY <1>0, <1>9, <2>1 DEF CopyObject
  <2>4. To(r, Idle) \/ To(r, next)
    BY <1>9, <2>2 DEF CopyObject
  <2>5. CASE To(r, Idle)
    BY <1>0, <2>1, <2>3, <2>5, ToTypes DEF TypeOK
  <2>6. CASE To(r, next)
    <3>1. req'[r] = next /\ \A q \in Reqs \ {r} : req'[q] = req[q]
      BY <2>6, ToTypes
    <3>2. Known'
      BY <2>1, <2>2, <3>1
    <3>3. TypeOK'
      BY <1>0, <2>1, <2>3, <2>6, ToTypes DEF TypeOK
    <3> QED BY <3>2, <3>3
  <2> QED BY <2>4, <2>5, <2>6
<1>10. ASSUME NEW r \in Reqs, NEW f \in Files, DeleteRead(r, f)
       PROVE  TypeOK' /\ Known'
  <2>1. PICK next \in Request :
          /\ next = [pc |-> "erase", file |-> f, src |-> rows[f].key]
          /\ next.pc = "erase" /\ next.file = f
    <3>1. rows[f].key \in Key
      BY <1>0, <1>10 DEF DeleteRead, Row
    <3> QED BY <3>1, NewDelete
  <2>2. /\ Begin(r, f, next) /\ rows[f] # NoRow /\ doomed' \subseteq Files
        /\ UNCHANGED <<rows, bucket, dirs, content, halted, slashed, fails>>
    BY <1>0, <1>10, <2>1 DEF DeleteRead
  <2> QED BY <1>0, <2>1, <2>2, BeginTypes DEF TypeOK
<1>11. ASSUME NEW r \in Reqs, DeleteObject(r) PROVE TypeOK' /\ Known'
  <2>0. /\ req[r].pc = "erase" /\ req[r] \in Request
        /\ req[r].file \in Files /\ req[r].src \in Key
    BY <1>0, <1>11, RequestShape DEF DeleteObject
  <2>1. PICK next \in Request :
          /\ next = [req[r] EXCEPT !.pc = "mark"] /\ next.pc = "mark"
          /\ next.file = req[r].file
    BY <2>0, NextStep
  <2>2. /\ To(r, next) /\ req[r].pc = "erase"
        /\ UNCHANGED <<rows, dirs, content, doomed, halted, slashed, fails>>
    BY <1>11, <2>1 DEF DeleteObject
  <2>3. Stores(rows', bucket', content')
    <3>1. bucket' = [bucket EXCEPT ![req[r].src] = None] /\ rows' = rows /\ content' = content
      BY <1>11 DEF DeleteObject
    <3>2. bucket' \in [Key -> Files \union {None}]
      BY <1>0, <2>0, <3>1
    <3>3. content' \in [Files -> Files \union {None}]
      BY <1>0, <2>0, <3>1
    <3> QED BY <1>0, <3>1, <3>2, <3>3
  <2>4. Known'
    <3>1. req'[r] = next /\ \A q \in Reqs \ {r} : req'[q] = req[q]
      BY <2>2, ToTypes
    <3>2. \A q \in Reqs : req'[q].pc \in {"copy", "remove", "repoint", "erase", "mark"} =>
            OnRow(q) /\ req'[q].file = req[q].file
      BY <2>0, <2>1, <3>1
    <3> QED BY <2>2, <3>2
  <2>5. TypeOK'
    BY <1>0, <2>2, <2>3, ToTypes DEF TypeOK
  <2> QED BY <2>4, <2>5
<1>12. ASSUME NEW r \in Reqs, DeleteMark(r) PROVE TypeOK' /\ Known'
  <2>1. /\ req[r].file \in Files /\ To(r, Idle) /\ rows[req[r].file] \in Row
        /\ UNCHANGED <<bucket, dirs, content, doomed, halted, slashed, fails>>
    BY <1>0, <1>12, RequestShape DEF DeleteMark
  <2>2. [rows[req[r].file] EXCEPT !.status = "DELETED"] \in Row
    BY <2>1 DEF Row
  <2>3. Stores(rows', bucket', content')
    BY <1>0, <1>12, <2>1, <2>2 DEF DeleteMark
  <2>4. \A f \in Files : rows[f] # NoRow => rows'[f] # NoRow
    BY <1>0, <1>12, <2>1, <2>2 DEF DeleteMark
  <2>5. \A q \in Reqs \ {r} : OnRow(q) => req[q].file \in Files
    BY <1>0, RequestShape
  <2> QED BY <1>0, <2>1, <2>3, <2>4, <2>5, ToTypes DEF TypeOK
<1>13. ASSUME NEW r \in Reqs, NEW p \in Paths, DirCheck(r, p) PROVE TypeOK' /\ Known'
  <2>1. PICK next \in Request : next = [pc |-> "mkdir", path |-> p] /\ next.pc = "mkdir"
    <3>1. [pc |-> "mkdir", path |-> p] \in Request
      BY DEF Request
    <3> QED BY <3>1
  <2>2. req' = [req EXCEPT ![r] = next] /\ calls' \in 0..MaxCalls
    BY <1>0, <1>13, <2>1 DEF DirCheck
  <2>3. UNCHANGED <<rows, bucket, dirs, content, contested, doomed, halted, slashed, fails>>
    BY <1>13 DEF DirCheck
  <2> QED BY <1>0, <2>1, <2>2, <2>3 DEF TypeOK
<1>14. ASSUME NEW r \in Reqs, DirCreate(r) PROVE TypeOK' /\ Known'
  <2>1. To(r, Idle) /\ dirs' \subseteq Paths
    BY <1>0, <1>14, RequestShape DEF DirCreate
  <2>2. UNCHANGED <<rows, bucket, content, doomed, halted, slashed, fails>>
    BY <1>14 DEF DirCreate
  <2> QED BY <1>0, <2>1, <2>2, ToTypes DEF TypeOK
<1>15. ASSUME NEW p \in Paths, DirDelete(p) PROVE TypeOK' /\ Known'
  BY <1>15 DEF DirDelete, TypeOK
<1>16. ASSUME NEW r \in Reqs, Fail(r) PROVE TypeOK' /\ Known'
  <2>1. /\ To(r, Idle) /\ halted' \subseteq Files /\ fails' \in 0..MaxFails
        /\ UNCHANGED <<rows, bucket, dirs, content, doomed, slashed>>
    BY <1>0, <1>16 DEF Fail
  <2> QED BY <1>0, <2>1, ToTypes DEF TypeOK
<1>17. CASE UNCHANGED vars
  BY <1>17 DEF vars, TypeOK
<1> QED
  BY <1>1, <1>2, <1>3, <1>4, <1>5, <1>6, <1>7, <1>8, <1>9, <1>10, <1>11,
     <1>12, <1>13, <1>14, <1>15, <1>16, <1>17 DEF Next, Routes

\* Rows, objects, requests and history keep their types, whatever overlaps or
\* fails in the upload, move, copy, delete and directory handlers.
THEOREM TypeCorrect == Spec => []TypeOK
<1>1. Init => TypeOK /\ Known
  BY TypeInit DEF Init, Known, OnRow, Idle
<1>2. TypeOK /\ Known /\ [Next]_vars => (TypeOK /\ Known)'
  BY TypeStep
<1> QED BY <1>1, <1>2, PTL DEF Spec

-----------------------------------------------------------------------------

LEMMA InitInv == Init => IInv
BY TypeInit DEF Init, IInv, Known, OnRow, Minting, Named, Naming, Minter, ByName, Fresh, Idle

\* A slot that goes on, or is given up, draws no name: the names stay apart.
LEMMA Goes ==
    ASSUME IInv, NEW r \in Reqs, NEW next \in Request, req' = [req EXCEPT ![r] = next],
           rows' = rows, Naming(next), next.pc \notin {"put", "duplicate"},
           Minter(next) => Minter(req[r]) /\ next.file = req[r].file,
           \/ content' = content
           \/ /\ Minter(req[r])
              /\ \A f \in Files \ {req[r].file} : content'[f] = content[f]
    PROVE  Named' /\ Fresh'
<1>1. /\ req'[r] = next /\ \A q \in Reqs \ {r} : req'[q] = req[q]
      /\ \A q \in Reqs : Naming(req[q]) /\ req[q] \in Request
  BY DEF IInv, TypeOK, Named
<1>2. \A q \in Reqs : Naming(req'[q])
  BY <1>1
<1>3. Named'
  BY <1>2 DEF IInv, Named
<1>4. ASSUME NEW p \in Reqs, NEW q \in Reqs, Minter(req'[p]), Minter(req'[q]), p # q
      PROVE  req'[p].file # req'[q].file
  <2>1. \A s \in Reqs : Minter(req'[s]) =>
          Minter(req[s]) /\ req'[s].file = req[s].file
    BY <1>1
  <2> QED BY <1>4, <2>1 DEF IInv, Fresh, Minting
<1>5. ASSUME NEW q \in Reqs, req'[q].pc \in {"put", "duplicate"}
      PROVE  content'[req'[q].file] = None
  <2>1. q # r /\ req'[q] = req[q] /\ Minter(req[q]) /\ req[q].file \in Files
    BY <1>1, <1>5, RequestShape DEF Minter
  <2>2. Minter(req[r]) => req[q].file # req[r].file
    BY <2>1 DEF IInv, Fresh, Minting
  <2>3. content'[req[q].file] = content[req[q].file]
    BY <2>1, <2>2
  <2> QED BY <1>5, <2>1, <2>3 DEF IInv, Fresh
<1> QED BY <1>3, <1>4, <1>5 DEF Fresh, Minting

\* No other row can have the key a request is about to give its own.
LEMMA NotTaken ==
    ASSUME IInv, NEW k \in Key, NEW f, k.name = f
    PROVE  ~Taken(k, f)
BY DEF IInv, Named, Taken

LEMMA StepInv == IInv /\ [Next]_vars => IInv'
<1> SUFFICES ASSUME IInv, [Next]_vars PROVE (Named /\ ByName /\ Fresh)'
  BY TypeStep DEF IInv
<1> USE DEF marks
<1>0. /\ TypeOK /\ Known /\ Named /\ ByName /\ Fresh /\ Idle.pc = "idle"
      /\ \A r \in Reqs : req[r] \in Request
      /\ Idle \in Request /\ Naming(Idle) /\ ~Minter(Idle)
      /\ \A p \in Paths : Plain(p) \in Dirs
  BY DEF IInv, TypeOK, Idle, Request, Plain, Dirs, Naming, Minter
<1>1. ASSUME NEW r \in Reqs, NEW f \in Files, NEW p \in Paths, UploadBegin(r, f, p)
      PROVE  (Named /\ ByName /\ Fresh)'
  <2>1. PICK next \in Request :
          /\ next = [pc |-> "put", file |-> f, key |-> [dir |-> Plain(p), name |-> f]]
          /\ next.pc = "put" /\ next.file = f /\ next.key.name = f
    BY <1>0, NewUpload
  <2>2. Begin(r, f, next) /\ Unused(f) /\ UNCHANGED <<rows, bucket, content>>
    BY <1>1, <2>1 DEF UploadBegin
  <2>3. /\ req'[r] = next /\ \A q \in Reqs \ {r} : req'[q] = req[q]
        /\ content[f] = None
        /\ \A q \in Reqs : Minting(q) => req[q].file # f
    BY <1>0, <2>2, BeginTypes DEF Unused, Minting, Minter
  <2>4. Named' /\ ByName'
    BY <1>0, <2>1, <2>2, <2>3 DEF Named, ByName, Minting, Naming, Minter
  <2>5. Fresh'
    BY <1>0, <2>1, <2>2, <2>3 DEF Fresh, Minting, Minter
  <2> QED BY <2>4, <2>5
<1>2. ASSUME NEW r \in Reqs, UploadPut(r) PROVE (Named /\ ByName /\ Fresh)'
  <2>1. /\ req[r].file \in Files /\ req[r].key \in Key /\ req[r].key.name = req[r].file
        /\ req[r].pc = "put" /\ content[req[r].file] = None
    BY <1>0, <1>2, RequestShape DEF UploadPut, Named, Minting, Fresh, Naming, Minter
  <2>2. PICK next \in Request :
          /\ next = [req[r] EXCEPT !.pc = "record"] /\ next.pc = "record"
          /\ next.file = req[r].file /\ next.key = req[r].key
    BY <1>0, <2>1, NextStep
  <2>3. /\ To(r, next) /\ UNCHANGED rows
        /\ bucket' = [bucket EXCEPT ![req[r].key] = req[r].file]
        /\ content' = [content EXCEPT ![req[r].file] = req[r].file]
    BY <1>2, <2>2 DEF UploadPut
  <2>4. ByName'
    BY <1>0, <2>1, <2>3 DEF ByName, TypeOK, Key
  <2>5. Named' /\ Fresh'
    <3>1. Naming(next) /\ Minter(req[r])
      BY <2>1, <2>2 DEF Naming, Minter
    <3>2. \A f \in Files \ {req[r].file} : content'[f] = content[f]
      BY <1>0, <2>1, <2>3 DEF TypeOK
    <3> QED BY <2>2, <2>3, <3>1, <3>2, Goes DEF To
  <2> QED BY <2>4, <2>5
<1>3. ASSUME NEW r \in Reqs, UploadRecord(r) \/ CopyEnter(r)
      PROVE  (Named /\ ByName /\ Fresh)'
  <2>1. /\ req[r].pc \in {"record", "enter"} /\ To(r, Idle)
        /\ UNCHANGED <<bucket, content>>
        /\ rows' = IF Taken(req[r].key, req[r].file) THEN rows
                   ELSE [rows EXCEPT ![req[r].file] = [key |-> req[r].key, status |-> "ACTIVE"]]
    BY <1>3 DEF UploadRecord, CopyEnter
  <2>2. req[r].file \in Files /\ req[r].key.name = req[r].file
    BY <1>0, <2>1, RequestShape DEF Named, Minting, Naming, Minter
  <2>3. req'[r] = Idle /\ \A q \in Reqs \ {r} : req'[q] = req[q]
    BY <1>0, <2>1, ToTypes
  <2>4. \A f \in Files : rows'[f] # NoRow => rows'[f].key.name = f
    BY <1>0, <2>1, <2>2 DEF Named, TypeOK, Naming
  <2> QED BY <1>0, <2>1, <2>3, <2>4 DEF Named, ByName, Fresh, Minting, Naming, Minter
<1>4. ASSUME NEW r \in Reqs, NEW f \in Files, NEW d \in Dirs, MoveRead(r, f, d)
      PROVE  (Named /\ ByName /\ Fresh)'
  <2>1. rows[f].key \in Key /\ rows[f].key.name = f
    BY <1>0, <1>4 DEF MoveRead, TypeOK, Row, Named, Naming
  <2>2. PICK next \in Request :
          /\ next = [pc |-> "copy", file |-> f, src |-> rows[f].key,
                     dst |-> [rows[f].key EXCEPT !.dir = d]]
          /\ next.pc = "copy" /\ next.file = f
          /\ next.src.name = f /\ next.dst.name = f
    BY <2>1, NewMove
  <2>3. Begin(r, f, next) /\ UNCHANGED <<rows, bucket, content>>
    BY <1>4, <2>2 DEF MoveRead
  <2>4. req'[r] = next /\ \A q \in Reqs \ {r} : req'[q] = req[q]
    BY <1>0, <2>3, BeginTypes
  <2> QED BY <1>0, <2>2, <2>3, <2>4 DEF Named, ByName, Fresh, Minting, Naming, Minter
<1>5. ASSUME NEW r \in Reqs, MoveCopy(r) PROVE (Named /\ ByName /\ Fresh)'
  <2>1. /\ req[r].pc = "copy" /\ rows' = rows /\ content' = content
        /\ req[r].src \in Key /\ req[r].dst \in Key
        /\ req[r].src.name = req[r].file /\ req[r].dst.name = req[r].file
    BY <1>0, <1>5, RequestShape DEF MoveCopy, Named, Naming
  <2>2. CASE To(r, Idle) /\ UNCHANGED bucket
    <3>1. Named' /\ Fresh'
      BY <1>0, <2>1, <2>2, Goes DEF To
    <3> QED BY <1>0, <2>1, <2>2, <3>1 DEF ByName
  <2>3. CASE /\ To(r, [req[r] EXCEPT !.pc = "remove"])
             /\ bucket' = [bucket EXCEPT ![Bare(req[r].dst)] = bucket[Bare(req[r].src)]]
    <3>1. PICK next \in Request :
            /\ next = [req[r] EXCEPT !.pc = "remove"] /\ next.pc = "remove"
            /\ next.file = req[r].file /\ next.src = req[r].src /\ next.dst = req[r].dst
      BY <1>0, <2>1, NextStep
    <3>3. /\ Bare(req[r].src) \in Key /\ Bare(req[r].src).name = req[r].file
          /\ Bare(req[r].dst) \in Key /\ Bare(req[r].dst).name = req[r].file
      BY <2>1, BareKey
    <3>4. ByName'
      BY <1>0, <2>1, <2>3, <3>3 DEF ByName, TypeOK
    <3>5. Naming(next) /\ ~Minter(next)
      BY <2>1, <3>1 DEF Naming, Minter
    <3>6. Named' /\ Fresh'
      BY <2>1, <2>3, <3>1, <3>5, Goes DEF To
    <3> QED BY <3>4, <3>6
  <2> QED BY <1>5, <2>2, <2>3 DEF MoveCopy
<1>6. ASSUME NEW r \in Reqs, MoveRemove(r) PROVE (Named /\ ByName /\ Fresh)'
  <2>1. /\ req[r].pc = "remove" /\ rows' = rows /\ content' = content
        /\ req[r].src \in Key
        /\ req[r].src.name = req[r].file /\ req[r].dst.name = req[r].file
    BY <1>0, <1>6, RequestShape DEF MoveRemove, Named, Naming
  <2>2. PICK next \in Request :
          /\ next = [req[r] EXCEPT !.pc = "repoint"] /\ next.pc = "repoint"
          /\ next.file = req[r].file /\ next.src = req[r].src /\ next.dst = req[r].dst
    BY <1>0, <2>1, NextStep
  <2>3. To(r, next) /\ bucket' = [bucket EXCEPT ![req[r].src] = None]
    BY <1>6, <2>2 DEF MoveRemove
  <2>5. ByName'
    BY <1>0, <2>1, <2>3 DEF ByName, TypeOK
  <2>6. Naming(next) /\ ~Minter(next)
    BY <2>1, <2>2 DEF Naming, Minter
  <2>7. Named' /\ Fresh'
    BY <2>1, <2>2, <2>3, <2>6, Goes DEF To
  <2> QED BY <2>5, <2>7
<1>7. ASSUME NEW r \in Reqs, MoveRepoint(r) PROVE (Named /\ ByName /\ Fresh)'
  <2>1. /\ req[r].pc = "repoint" /\ To(r, Idle) /\ UNCHANGED <<bucket, content>>
        /\ req[r].file \in Files /\ req[r].dst.name = req[r].file
        /\ rows[req[r].file] \in Row
    BY <1>0, <1>7, RequestShape DEF MoveRepoint, Named, Known, OnRow, TypeOK, Naming
  <2>2. \A f \in Files : rows'[f] # NoRow => rows'[f].key.name = f
    BY <1>0, <1>7, <2>1 DEF MoveRepoint, Named, TypeOK, Row, Naming
  <2>3. req'[r] = Idle /\ \A q \in Reqs \ {r} : req'[q] = req[q]
    BY <1>0, <2>1, ToTypes
  <2> QED BY <1>0, <2>1, <2>2, <2>3 DEF Named, ByName, Fresh, Minting, Naming, Minter
<1>8. ASSUME NEW r \in Reqs, NEW f \in Files, NEW g \in Files, NEW d \in Dirs,
             CopyRead(r, f, g, d)
      PROVE  (Named /\ ByName /\ Fresh)'
  <2>1. rows[f].key \in Key /\ rows[f].key.name = f
    BY <1>0, <1>8 DEF CopyRead, TypeOK, Row, Named, Naming
  <2>2. PICK next \in Request :
          /\ next = [pc |-> "duplicate", of |-> f, file |-> g, src |-> rows[f].key,
                     key |-> [dir |-> d, name |-> g]]
          /\ next.pc = "duplicate" /\ next.of = f /\ next.file = g
          /\ next.src.name = f /\ next.key.name = g
    BY <2>1, NewCopy
  <2>3. Begin(r, g, next) /\ Unused(g) /\ UNCHANGED <<rows, bucket, content>>
    BY <1>8, <2>2 DEF CopyRead
  <2>4. /\ req'[r] = next /\ \A q \in Reqs \ {r} : req'[q] = req[q]
        /\ content[g] = None
        /\ \A q \in Reqs : Minting(q) => req[q].file # g
    BY <1>0, <2>3, BeginTypes DEF Unused, Minting, Minter
  <2>5. Named' /\ ByName'
    BY <1>0, <2>2, <2>3, <2>4 DEF Named, ByName, Minting, Naming, Minter
  <2>6. Fresh'
    BY <1>0, <2>2, <2>3, <2>4 DEF Fresh, Minting, Minter
  <2> QED BY <2>5, <2>6
<1>9. ASSUME NEW r \in Reqs, CopyObject(r) PROVE (Named /\ ByName /\ Fresh)'
  <2>1. /\ req[r].pc = "duplicate" /\ rows' = rows
        /\ req[r].file \in Files /\ req[r].of \in Files
        /\ req[r].src \in Key /\ req[r].key \in Key
        /\ req[r].key.name = req[r].file /\ req[r].src.name = req[r].of
        /\ content[req[r].file] = None
    BY <1>0, <1>9, RequestShape DEF CopyObject, Named, Minting, Fresh, Naming, Minter
  <2>2. CASE To(r, Idle) /\ UNCHANGED <<bucket, content>>
    <3>1. Named' /\ Fresh'
      BY <1>0, <2>1, <2>2, Goes DEF To
    <3> QED BY <1>0, <2>1, <2>2, <3>1 DEF ByName
  <2>3. CASE /\ To(r, [req[r] EXCEPT !.pc = "enter"])
             /\ bucket' = [bucket EXCEPT ![Bare(req[r].key)] = bucket[Bare(req[r].src)]]
             /\ content' = [content EXCEPT ![req[r].file] = content[req[r].of]]
             /\ bucket[Bare(req[r].src)] # None
    <3>1. PICK next \in Request :
            /\ next = [req[r] EXCEPT !.pc = "enter"] /\ next.pc = "enter"
            /\ next.file = req[r].file /\ next.key = req[r].key
      BY <1>0, <2>1, NextStep
    <3>3. /\ Bare(req[r].src) \in Key /\ Bare(req[r].src).name = req[r].of
          /\ Bare(req[r].key) \in Key /\ Bare(req[r].key).name = req[r].file
      BY <2>1, BareKey
    <3>4. bucket[Bare(req[r].src)] = content[req[r].of]
      BY <1>0, <2>3, <3>3 DEF ByName
    <3>5. \A k \in Key : k.name \in Files
      BY DEF Key
    <3>6. \A k \in Key : k.name # req[r].file =>
            bucket'[k] = bucket[k] /\ content'[k.name] = content[k.name]
      BY <1>0, <2>1, <2>3, <3>3, <3>5 DEF TypeOK
    <3>7. \A k \in Key : k.name = req[r].file =>
            bucket'[k] \in {content'[k.name], None}
      <4>1. content'[req[r].file] = content[req[r].of]
        BY <1>0, <2>1, <2>3 DEF TypeOK
      <4>2. bucket'[Bare(req[r].key)] = content[req[r].of]
        BY <1>0, <2>3, <3>3, <3>4 DEF TypeOK
      <4>3. \A k \in Key \ {Bare(req[r].key)} : bucket'[k] = bucket[k]
        BY <1>0, <2>3, <3>3 DEF TypeOK
      <4>4. \A k \in Key : k.name = req[r].file => bucket[k] = None
        BY <1>0, <2>1 DEF ByName
      <4> QED BY <4>1, <4>2, <4>3, <4>4
    <3>8. ByName'
      BY <1>0, <3>6, <3>7 DEF ByName
    <3>9. Naming(next) /\ Minter(req[r])
      BY <2>1, <3>1 DEF Naming, Minter
    <3>10. \A f \in Files \ {req[r].file} : content'[f] = content[f]
      BY <1>0, <2>1, <2>3 DEF TypeOK
    <3>11. Named' /\ Fresh'
      BY <2>1, <2>3, <3>1, <3>9, <3>10, Goes DEF To
    <3> QED BY <3>8, <3>11
  <2> QED BY <1>9, <2>2, <2>3 DEF CopyObject
<1>10. ASSUME NEW r \in Reqs, NEW f \in Files, DeleteRead(r, f)
       PROVE  (Named /\ ByName /\ Fresh)'
  <2>1. rows[f].key \in Key /\ rows[f].key.name = f
    BY <1>0, <1>10 DEF DeleteRead, TypeOK, Row, Named, Naming
  <2>2. PICK next \in Request :
          /\ next = [pc |-> "erase", file |-> f, src |-> rows[f].key]
          /\ next.pc = "erase" /\ next.file = f /\ next.src.name = f
    BY <2>1, NewDelete
  <2>3. Begin(r, f, next) /\ UNCHANGED <<rows, bucket, content>>
    BY <1>10, <2>2 DEF DeleteRead
  <2>4. req'[r] = next /\ \A q \in Reqs \ {r} : req'[q] = req[q]
    BY <1>0, <2>3, BeginTypes
  <2> QED BY <1>0, <2>2, <2>3, <2>4 DEF Named, ByName, Fresh, Minting, Naming, Minter
<1>11. ASSUME NEW r \in Reqs, DeleteObject(r) PROVE (Named /\ ByName /\ Fresh)'
  <2>1. /\ req[r].pc = "erase" /\ rows' = rows /\ content' = content
        /\ req[r].src \in Key /\ req[r].src.name = req[r].file
    BY <1>0, <1>11, RequestShape DEF DeleteObject, Named, Naming
  <2>2. PICK next \in Request :
          /\ next = [req[r] EXCEPT !.pc = "mark"] /\ next.pc = "mark"
          /\ next.file = req[r].file /\ next.src = req[r].src
    BY <1>0, <2>1, NextStep
  <2>3. To(r, next) /\ bucket' = [bucket EXCEPT ![req[r].src] = None]
    BY <1>11, <2>2 DEF DeleteObject
  <2>5. ByName'
    BY <1>0, <2>1, <2>3 DEF ByName, TypeOK
  <2>6. Naming(next) /\ ~Minter(next)
    BY <2>1, <2>2 DEF Naming, Minter
  <2>7. Named' /\ Fresh'
    BY <2>1, <2>2, <2>3, <2>6, Goes DEF To
  <2> QED BY <2>5, <2>7
<1>12. ASSUME NEW r \in Reqs, DeleteMark(r) PROVE (Named /\ ByName /\ Fresh)'
  <2>1. /\ req[r].pc = "mark" /\ To(r, Idle) /\ UNCHANGED <<bucket, content>>
        /\ req[r].file \in Files /\ rows[req[r].file] \in Row
        /\ rows[req[r].file] # NoRow
    BY <1>0, <1>12, RequestShape DEF DeleteMark, Known, OnRow, TypeOK
  <2>2. \A f \in Files : rows'[f] # NoRow => rows'[f].key.name = f
    BY <1>0, <1>12, <2>1 DEF DeleteMark, Named, TypeOK, Row, Naming
  <2>3. req'[r] = Idle /\ \A q \in Reqs \ {r} : req'[q] = req[q]
    BY <1>0, <2>1, ToTypes
  <2> QED BY <1>0, <2>1, <2>2, <2>3 DEF Named, ByName, Fresh, Minting, Naming, Minter
<1>13. ASSUME NEW r \in Reqs, NEW p \in Paths, DirCheck(r, p)
       PROVE  (Named /\ ByName /\ Fresh)'
  <2>1. PICK next \in Request : next = [pc |-> "mkdir", path |-> p] /\ next.pc = "mkdir"
    <3>1. [pc |-> "mkdir", path |-> p] \in Request
      BY DEF Request
    <3> QED BY <3>1
  <2>2. req' = [req EXCEPT ![r] = next] /\ UNCHANGED <<rows, bucket, content>>
    BY <1>13, <2>1 DEF DirCheck
  <2>3. Naming(next) /\ ~Minter(next)
    BY <2>1 DEF Naming, Minter
  <2>4. Named' /\ Fresh'
    BY <2>1, <2>2, <2>3, Goes
  <2> QED BY <1>0, <2>2, <2>4 DEF ByName
<1>14. ASSUME NEW r \in Reqs, DirCreate(r) \/ Fail(r) PROVE (Named /\ ByName /\ Fresh)'
  <2>1. To(r, Idle) /\ UNCHANGED <<rows, bucket, content>>
    BY <1>14 DEF DirCreate, Fail
  <2>2. Named' /\ Fresh'
    BY <1>0, <2>1, Goes DEF To
  <2> QED BY <1>0, <2>1, <2>2 DEF ByName
<1>15. ASSUME NEW p \in Paths, DirDelete(p) PROVE (Named /\ ByName /\ Fresh)'
  BY <1>0, <1>15 DEF DirDelete, Named, ByName, Fresh, Minting, Naming, Minter
<1>16. CASE UNCHANGED vars
  BY <1>0, <1>16 DEF vars, Named, ByName, Fresh, Minting, Naming, Minter
<1> QED
  BY <1>1, <1>2, <1>3, <1>4, <1>5, <1>6, <1>7, <1>8, <1>9, <1>10, <1>11, <1>12,
     <1>13, <1>14, <1>15, <1>16 DEF Next, Routes

\* No row ever leads to another upload's content, however many moves, copies,
\* uploads and deletions overlap and stop half-way.
THEOREM ContentNeverMixedHolds == Spec => []ContentNeverMixed
<1>1. IInv => ContentNeverMixed
  <2> SUFFICES ASSUME IInv, NEW f \in Files, rows[f] # NoRow
               PROVE  bucket[rows[f].key] \in {content[f], None}
    BY DEF ContentNeverMixed
  <2>1. rows[f].key \in Key /\ rows[f].key.name = f
    BY DEF IInv, TypeOK, Row, Named, Naming
  <2> QED BY <2>1 DEF IInv, ByName
<1> QED BY <1>1, InitInv, StepInv, PTL DEF Spec

-----------------------------------------------------------------------------
(* One file at a time.  What the stores have of a file is its row and the   *)
(* places of its objects; the request that writes it says by how much the   *)
(* two differ.                                                              *)

\* The directories that hold an object under the name of file f.
Places(f) == {d \in Dirs : bucket[[dir |-> d, name |-> f]] # None}

\* The place an ACTIVE row leads to.
Home(f) == IF Active(f) THEN {rows[f].key.dir} ELSE {}

\* What request q on file f has read still holds, and no step of it leaves a
\* file without an object that nobody asked to delete.
Fits(f, q) ==
    /\ rows[f] # NoRow => content[f] # None
    /\ rows[f] # NoRow /\ f \notin doomed => Places(f) # {}
    /\ Minter(q) => rows[f] = NoRow
    /\ q.pc \in {"record", "enter"} => content[f] # None /\ Places(f) # {}
    /\ q.pc \in {"copy", "remove", "repoint", "erase", "mark"} =>
         rows[f] # NoRow /\ rows[f].key = q.src
    /\ q.pc \in {"copy", "remove", "repoint"} => BareDir(q.src.dir) # BareDir(q.dst.dir)
    /\ q.pc = "remove" => {BareDir(q.src.dir), BareDir(q.dst.dir)} \subseteq Places(f)
    /\ q.pc \in {"erase", "mark"} => f \in doomed

\* Where the objects of f are while q works on it, if no slash leads astray.
Expected(f, q) ==
    CASE q.pc \in {"record", "enter"} -> {q.key.dir}
      [] q.pc = "remove" -> {q.src.dir, q.dst.dir}
      [] q.pc = "repoint" -> {q.dst.dir}
      [] q.pc = "mark" -> {}
      [] OTHER -> Home(f)

\* No slash begins a path of f, and the objects are where they are expected.
Agrees(f, q) ==
    /\ rows[f] # NoRow => rows[f].key.dir.slashes = 0
    /\ Minter(q) => q.key.dir.slashes = 0
    /\ q.pc \in {"copy", "remove", "repoint"} => q.dst.dir.slashes = 0
    /\ q.pc \in {"remove", "repoint"} => Active(f)
    /\ Places(f) = Expected(f, q)

Sound(f, q) == Fits(f, q) /\ (f \notin halted \union slashed => Agrees(f, q))

Alone(f) == \A r, q \in Reqs : Writes(req[r], f) /\ Writes(req[q], f) => r = q

\* A file no two requests changed together is sound, at whatever step the
\* request that writes it is, and when there is none.
PerFile ==
    \A f \in Files \ contested :
        /\ Alone(f)
        /\ \A r \in Reqs : Writes(req[r], f) => Sound(f, req[r])
        /\ ~Working(f) => Sound(f, Idle)

LEMMA WritesPc ==
    ASSUME NEW q \in Request
    PROVE  /\ q.pc \in {"idle", "mkdir"} => \A f : ~Writes(q, f)
           /\ q.pc \notin {"idle", "mkdir"} => \A f : Writes(q, f) <=> q.file = f
BY DEF Request, Idle, Writes

LEMMA PerFileInit == Init => PerFile
<1> SUFFICES ASSUME Init PROVE PerFile
  OBVIOUS
<1>1. /\ \A f \in Files : rows[f] = NoRow
      /\ \A k \in Key : bucket[k] = None
      /\ \A r \in Reqs : req[r] = Idle
      /\ Idle.pc = "idle" /\ NoRow.status = "none"
  BY DEF Init, NoRow, Idle
<1>2. \A f \in Files, d \in Dirs : [dir |-> d, name |-> f] \in Key
  BY DEF Key
<1>3. ASSUME NEW f \in Files PROVE Places(f) = {} /\ Home(f) = {}
  BY <1>1, <1>2 DEF Places, Home, Active
<1>4. ASSUME NEW f \in Files PROVE Fits(f, Idle) /\ Agrees(f, Idle)
  <2>1. Expected(f, Idle) = Home(f)
    BY <1>1 DEF Expected
  <2>2. Fits(f, Idle)
    BY <1>1 DEF Fits, Minter
  <2>3. Agrees(f, Idle)
    BY <1>1, <1>3, <2>1 DEF Agrees, Minter
  <2> QED BY <2>2, <2>3
<1>5. Idle \in Request /\ \A f : ~Writes(Idle, f)
  BY <1>1, WritesPc DEF Request
<1> QED BY <1>1, <1>4, <1>5 DEF PerFile, Alone, Sound

\* Step on file f alone: nothing of another file changes.
Aside(f) ==
    \A g \in Files \ {f} :
        /\ rows'[g] = rows[g] /\ content'[g] = content[g] /\ Places(g)' = Places(g)
        /\ g \in doomed' <=> g \in doomed
        /\ g \in halted' <=> g \in halted
        /\ g \in slashed' <=> g \in slashed

LEMMA OthersSound ==
    ASSUME NEW f, Aside(f), NEW g \in Files \ {f}, NEW q, Sound(g, q)
    PROVE  Sound(g, q)'
<1>1. /\ rows'[g] = rows[g] /\ content'[g] = content[g] /\ Places(g)' = Places(g)
      /\ g \in doomed' <=> g \in doomed
      /\ g \in halted' <=> g \in halted
      /\ g \in slashed' <=> g \in slashed
  BY DEF Aside
<1>2. Home(g)' = Home(g) /\ (Active(g)' <=> Active(g))
  BY <1>1 DEF Home, Active
<1>3. Expected(g, q)' = Expected(g, q)
  BY <1>2 DEF Expected
<1>4. Fits(g, q)'
  BY <1>1 DEF Sound, Fits
<1>5. Agrees(g, q) => Agrees(g, q)'
  BY <1>1, <1>2, <1>3 DEF Agrees
<1> QED BY <1>1, <1>4, <1>5 DEF Sound

\* A request on f is taken up: unless another works on f, f is still sound.
LEMMA Begun ==
    ASSUME TypeOK, PerFile, NEW r \in Reqs, NEW f \in Files, NEW next \in Request,
           Begin(r, f, next), next.pc \notin {"idle", "mkdir"}, next.file = f, Aside(f),
           Sound(f, Idle) => Sound(f, next)'
    PROVE  PerFile'
<1>1. /\ req[r] = Idle /\ req'[r] = next /\ \A q \in Reqs \ {r} : req'[q] = req[q]
      /\ contested' = contested \union {g \in {f} : Working(g)}
  BY BeginTypes DEF Begin
<1>2. \A g : ~Writes(req[r], g) /\ (Writes(next, g) <=> g = f)
  BY <1>1, WritesPc DEF Writes, Idle
<1> SUFFICES ASSUME NEW g \in Files, g \notin contested'
             PROVE  /\ Alone(g)'
                    /\ \A s \in Reqs : Writes(req'[s], g) => Sound(g, req[s])'
                    /\ ~Working(g)' => Sound(g, Idle)'
  BY DEF PerFile
<1>3. CASE g = f
  <2>1. f \notin contested /\ ~Working(f)
    BY <1>1, <1>3
  <2>2. Sound(f, next)'
    BY <2>1 DEF PerFile
  <2>3. \A s \in Reqs : Writes(req'[s], f) <=> s = r
    BY <1>1, <1>2, <2>1 DEF Working
  <2>4. Sound(f, req[r])'
    BY <1>1, <2>2 DEF Sound, Fits, Agrees, Expected, Minter
  <2> QED BY <1>3, <2>3, <2>4 DEF Alone, Working
<1>4. CASE g # f
  <2>1. /\ g \notin contested /\ g \in Files \ {f}
        /\ \A s \in Reqs : Writes(req'[s], g) => s # r /\ req'[s] = req[s] /\ Writes(req[s], g)
        /\ Working(g)' <=> Working(g)
    BY <1>1, <1>2, <1>4 DEF Working
  <2>2. Alone(g)'
    BY <2>1 DEF PerFile, Alone
  <2>3. ASSUME NEW s \in Reqs, Writes(req'[s], g) PROVE Sound(g, req[s])'
    <3>1. PICK q : q = req[s] /\ Sound(g, q) /\ q = req'[s]
      BY <2>1, <2>3 DEF PerFile
    <3>2. Sound(g, q)'
      BY <2>1, <3>1, OthersSound
    <3> QED BY <3>1, <3>2 DEF Sound, Fits, Agrees, Expected, Minter
  <2>4. ~Working(g)' => Sound(g, Idle)'
    BY <2>1, OthersSound DEF PerFile
  <2> QED BY <2>2, <2>3, <2>4
<1> QED BY <1>3, <1>4

\* The request on f goes on to its next step, or ends.
LEMMA Went ==
    ASSUME TypeOK, PerFile, NEW r \in Reqs, NEW f \in Files, NEW next \in Request,
           To(r, next), Writes(req[r], f), next = Idle \/ Writes(next, f), Aside(f),
           Sound(f, req[r]) => Sound(f, next)'
    PROVE  PerFile'
<1>1. /\ req'[r] = next /\ \A q \in Reqs \ {r} : req'[q] = req[q]
      /\ contested' = contested /\ req[r] \in Request
  BY ToTypes DEF To, TypeOK
<1>2. \A g : (Writes(req[r], g) => g = f) /\ (Writes(next, g) => g = f)
  BY <1>1, WritesPc DEF Writes, Idle
<1>3. ~Writes(Idle, f)
  BY DEF Writes, Idle
<1> SUFFICES ASSUME NEW g \in Files, g \notin contested
             PROVE  /\ Alone(g)'
                    /\ \A s \in Reqs : Writes(req'[s], g) => Sound(g, req[s])'
                    /\ ~Working(g)' => Sound(g, Idle)'
  BY <1>1 DEF PerFile
<1>4. CASE g = f
  <2>1. Sound(f, next)'
    BY <1>4 DEF PerFile
  <2>2. \A s \in Reqs : Writes(req'[s], f) => s = r
    BY <1>1, <1>4 DEF PerFile, Alone
  <2>3. Sound(f, req[r])'
    BY <1>1, <2>1 DEF Sound, Fits, Agrees, Expected, Minter
  <2>4. ~Working(f)' => Sound(f, Idle)'
    <3>1. ~Working(f)' => next = Idle
      BY <1>1 DEF Working
    <3> QED BY <2>1, <3>1
  <2> QED BY <1>4, <2>2, <2>3, <2>4 DEF Alone
<1>5. CASE g # f
  <2>1. /\ g \in Files \ {f}
        /\ \A s \in Reqs : Writes(req'[s], g) => s # r /\ req'[s] = req[s] /\ Writes(req[s], g)
        /\ Working(g)' <=> Working(g)
    BY <1>1, <1>2, <1>5 DEF Working
  <2>2. Alone(g)'
    BY <2>1 DEF PerFile, Alone
  <2>3. ASSUME NEW s \in Reqs, Writes(req'[s], g) PROVE Sound(g, req[s])'
    <3>1. PICK q : q = req[s] /\ Sound(g, q) /\ q = req'[s]
      BY <2>1, <2>3 DEF PerFile
    <3>2. Sound(g, q)'
      BY <2>1, <3>1, OthersSound
    <3> QED BY <3>1, <3>2 DEF Sound, Fits, Agrees, Expected, Minter
  <2>4. ~Working(g)' => Sound(g, Idle)'
    BY <2>1, OthersSound DEF PerFile
  <2> QED BY <2>2, <2>3, <2>4
<1> QED BY <1>4, <1>5

\* What works on no file leaves every file sound.
LEMMA Untouched ==
    ASSUME PerFile,
           UNCHANGED <<rows, bucket, content, contested, doomed, halted, slashed>>,
           \A s \in Reqs, g \in Files : Writes(req'[s], g) <=> Writes(req[s], g),
           \A s \in Reqs, g \in Files : Writes(req[s], g) => req'[s] = req[s]
    PROVE  PerFile'
<1> SUFFICES ASSUME NEW g \in Files, g \notin contested
             PROVE  /\ Alone(g)'
                    /\ \A s \in Reqs : Writes(req'[s], g) => Sound(g, req[s])'
                    /\ ~Working(g)' => Sound(g, Idle)'
  BY DEF PerFile
<1>0. /\ \A s \in Reqs : Writes(req'[s], g) => Writes(req[s], g) /\ req'[s] = req[s]
      /\ \A s \in Reqs : Writes(req[s], g) => Writes(req'[s], g)
  OBVIOUS
<1>1. Alone(g)' /\ (Working(g)' <=> Working(g))
  <2>1. Alone(g)
    BY DEF PerFile
  <2> QED BY <1>0, <2>1 DEF Alone, Working
<1>2. ASSUME NEW q, Sound(g, q) PROVE Sound(g, q)'
  BY <1>2 DEF Sound, Fits, Agrees, Expected, Home, Active, Places
<1>3. ASSUME NEW s \in Reqs, Writes(req'[s], g) PROVE Sound(g, req[s])'
  <2>1. PICK q : q = req[s] /\ Sound(g, q) /\ q = req'[s]
    BY <1>0, <1>3 DEF PerFile
  <2>2. Sound(g, q)'
    BY <1>2, <2>1
  <2> QED BY <2>1, <2>2 DEF Sound, Fits, Agrees, Expected, Minter
<1> QED BY <1>1, <1>2, <1>3 DEF PerFile

LEMMA Elsewhere ==
    ASSUME TypeOK, PerFile, NEW r \in Reqs, NEW next \in Request,
           req' = [req EXCEPT ![r] = next],
           req[r].pc \in {"idle", "mkdir"}, next.pc \in {"idle", "mkdir"},
           UNCHANGED <<rows, bucket, content, contested, doomed, halted, slashed>>
    PROVE  PerFile'
<1>1. /\ req'[r] = next /\ \A q \in Reqs \ {r} : req'[q] = req[q]
      /\ req[r] \in Request
  BY DEF TypeOK
<1>2. \A g : ~Writes(req[r], g) /\ ~Writes(next, g)
  BY <1>1, WritesPc
<1> QED BY <1>1, <1>2, Untouched

\* An object stored or deleted changes the places of its file only.
LEMMA StoredAt ==
    ASSUME TypeOK, NEW k \in Key, NEW x, x # None, bucket' = [bucket EXCEPT ![k] = x]
    PROVE  /\ Places(k.name)' = Places(k.name) \union {k.dir}
           /\ \A g \in Files \ {k.name} : Places(g)' = Places(g)
<1>1. bucket'[k] = x /\ \A m \in Key \ {k} : bucket'[m] = bucket[m]
  BY DEF TypeOK
<1>2. k = [dir |-> k.dir, name |-> k.name] /\ k.dir \in Dirs /\ k.name \in Files
  BY DEF Key
<1>3. \A g \in Files, d \in Dirs :
        /\ [dir |-> d, name |-> g] \in Key
        /\ [dir |-> d, name |-> g] = k => d = k.dir /\ g = k.name
  BY DEF Key
<1>4. \A g \in Files, d \in Dirs : g # k.name \/ d # k.dir =>
        bucket'[[dir |-> d, name |-> g]] = bucket[[dir |-> d, name |-> g]]
  BY <1>1, <1>3
<1>5. bucket'[[dir |-> k.dir, name |-> k.name]] # None
  BY <1>1, <1>2
<1>6. \A g \in Files \ {k.name} : Places(g)' = Places(g)
  BY <1>4 DEF Places
<1>7. Places(k.name)' = Places(k.name) \union {k.dir}
  BY <1>2, <1>4, <1>5 DEF Places
<1> QED BY <1>6, <1>7

LEMMA DeletedAt ==
    ASSUME TypeOK, NEW k \in Key, bucket' = [bucket EXCEPT ![k] = None]
    PROVE  /\ Places(k.name)' = Places(k.name) \ {k.dir}
           /\ \A g \in Files \ {k.name} : Places(g)' = Places(g)
<1>1. bucket'[k] = None /\ \A m \in Key \ {k} : bucket'[m] = bucket[m]
  BY DEF TypeOK
<1>2. k = [dir |-> k.dir, name |-> k.name] /\ k.dir \in Dirs /\ k.name \in Files
  BY DEF Key
<1>3. \A g \in Files, d \in Dirs :
        /\ [dir |-> d, name |-> g] \in Key
        /\ [dir |-> d, name |-> g] = k => d = k.dir /\ g = k.name
  BY DEF Key
<1>4. \A g \in Files, d \in Dirs : g # k.name \/ d # k.dir =>
        bucket'[[dir |-> d, name |-> g]] = bucket[[dir |-> d, name |-> g]]
  BY <1>1, <1>3
<1>5. bucket'[[dir |-> k.dir, name |-> k.name]] = None
  BY <1>1, <1>2
<1>6. \A g \in Files \ {k.name} : Places(g)' = Places(g)
  BY <1>4 DEF Places
<1>7. Places(k.name)' = Places(k.name) \ {k.dir}
  BY <1>2, <1>4, <1>5 DEF Places
<1> QED BY <1>6, <1>7

LEMMA SamePlaces ==
    ASSUME bucket' = bucket
    PROVE  \A g : Places(g)' = Places(g)
BY DEF Places

\* Nothing is expected of a request but where it changes the stores.
LEMMA HomeExpected ==
    ASSUME NEW f, NEW q, q.pc \notin {"record", "enter", "remove", "repoint", "mark"}
    PROVE  Expected(f, q) = Home(f)
BY DEF Expected

\* uploadFile and copyFile store the object of a row there is not yet.
LEMMA Stored ==
    ASSUME TypeOK, NEW f \in Files, NEW q, NEW next, Sound(f, q), NEW d \in Dirs,
           q.pc \in {"put", "duplicate"}, next.pc \in {"record", "enter"},
           next.key = q.key, q.key.dir.slashes = 0 => d = q.key.dir,
           content'[f] # None, Places(f)' = Places(f) \union {d},
           UNCHANGED <<rows, doomed, halted, slashed>>
    PROVE  Sound(f, next)'
<1>1. rows[f] = NoRow
  BY DEF Sound, Fits, Minter
<1>2. Fits(f, next)'
  BY <1>1 DEF Fits, Minter
<1>3. ASSUME Agrees(f, q) PROVE Agrees(f, next)'
  <2>1. Home(f) = {} /\ Expected(f, q) = Home(f)
    BY <1>1, HomeExpected DEF Home, Active, NoRow
  <2>2. Places(f)' = {q.key.dir} /\ q.key.dir.slashes = 0
    BY <1>3, <2>1 DEF Agrees, Minter
  <2>3. Expected(f, next)' = {next.key.dir}
    BY DEF Expected
  <2> QED BY <1>1, <2>2, <2>3 DEF Agrees
<1> QED BY <1>2, <1>3 DEF Sound

\* The row of a stored object is created (createFile).
LEMMA Entered ==
    ASSUME TypeOK, NEW f \in Files, NEW q, Sound(f, q), q.pc \in {"record", "enter"},
           rows'[f] = [key |-> q.key, status |-> "ACTIVE"],
           UNCHANGED <<bucket, content, doomed, halted, slashed>>
    PROVE  Sound(f, Idle)'
<1>1. Idle.pc = "idle" /\ Places(f)' = Places(f)
  BY SamePlaces DEF Idle
<1>2. Fits(f, Idle)'
  BY <1>1 DEF Sound, Fits, Minter
<1>3. ASSUME Agrees(f, q) PROVE Agrees(f, Idle)'
  <2>1. Places(f) = {q.key.dir} /\ q.key.dir.slashes = 0
    BY <1>3 DEF Agrees, Expected, Minter
  <2>2. Home(f)' = {q.key.dir}
    BY DEF Home, Active
  <2>3. Expected(f, Idle)' = Home(f)'
    BY <1>1 DEF Expected
  <2>4. rows'[f].key.dir.slashes = 0
    BY <2>1
  <2> QED BY <1>1, <2>1, <2>2, <2>3, <2>4 DEF Agrees, Minter
<1> QED BY <1>2, <1>3 DEF Sound

\* A step that only reads, or gives up before anything was stored.
LEMMA Looks ==
    ASSUME NEW f \in Files, NEW q, NEW next, Sound(f, q),
           UNCHANGED <<rows, bucket, content, halted>>,
           doomed \subseteq doomed', slashed \subseteq slashed',
           q.pc \notin {"record", "enter", "remove", "repoint", "mark"},
           next.pc \notin {"record", "enter", "remove", "repoint", "mark"},
           Minter(next) => content[f] = None /\ (f \notin slashed' => next.key.dir.slashes = 0),
           next.pc \in {"copy", "erase"} => rows[f] # NoRow /\ rows[f].key = next.src,
           next.pc = "copy" =>
              /\ BareDir(next.src.dir) # BareDir(next.dst.dir)
              /\ f \notin slashed' => next.dst.dir.slashes = 0,
           next.pc = "erase" => f \in doomed'
    PROVE  Sound(f, next)'
<1>1. Places(f)' = Places(f) /\ Home(f)' = Home(f)
  BY SamePlaces DEF Home, Active
<1>2. Fits(f, next)'
  BY <1>1 DEF Sound, Fits
<1>3. Expected(f, next)' = Home(f)' /\ Expected(f, q) = Home(f)
  BY HomeExpected DEF Expected
<1>4. ASSUME Agrees(f, q), f \notin slashed' PROVE Agrees(f, next)'
  BY <1>1, <1>3, <1>4 DEF Agrees
<1> QED BY <1>2, <1>4 DEF Sound

\* s3CopyFile of a move: the object is in both places.
LEMMA MoveCopied ==
    ASSUME TypeOK, NEW f \in Files, NEW q, NEW next, Sound(f, q),
           q.pc = "copy", next.pc = "remove", next.src = q.src, next.dst = q.dst,
           q.src \in Key, q.dst \in Key,
           BareDir(q.src.dir) \in Places(f),
           Places(f)' = Places(f) \union {BareDir(q.dst.dir)},
           UNCHANGED <<rows, content, doomed, halted, slashed>>
    PROVE  Sound(f, next)'
<1>1. rows[f] # NoRow /\ rows[f].key = q.src
  BY DEF Sound, Fits
<1>2. Fits(f, next)'
  BY <1>1 DEF Sound, Fits, Minter
<1>3. ASSUME Agrees(f, q) PROVE Agrees(f, next)'
  <2>1. /\ q.src.dir.slashes = 0 /\ q.dst.dir.slashes = 0 /\ Places(f) = Home(f)
        /\ BareDir(q.src.dir) = q.src.dir /\ BareDir(q.dst.dir) = q.dst.dir
    BY <1>1, <1>3, HomeExpected, BareKey DEF Agrees
  <2>2. Active(f) /\ Home(f) = {q.src.dir}
    BY <1>1, <2>1 DEF Home
  <2>3. Places(f)' = {q.src.dir, q.dst.dir} /\ Active(f)'
    BY <2>1, <2>2 DEF Active
  <2>4. Expected(f, next)' = {q.src.dir, q.dst.dir}
    BY DEF Expected
  <2> QED BY <1>1, <2>1, <2>3, <2>4 DEF Agrees, Minter
<1> QED BY <1>2, <1>3 DEF Sound

\* deleteFileFromS3 of a move: of the two objects one is left.
LEMMA MoveRemoved ==
    ASSUME TypeOK, NEW f \in Files, NEW q, NEW next, Sound(f, q),
           q.pc = "remove", next.pc = "repoint", next.src = q.src, next.dst = q.dst,
           Places(f)' = Places(f) \ {q.src.dir},
           UNCHANGED <<rows, content, doomed, halted, slashed>>
    PROVE  Sound(f, next)'
<1>1. /\ rows[f] # NoRow /\ rows[f].key = q.src
      /\ BareDir(q.src.dir) # BareDir(q.dst.dir)
      /\ {BareDir(q.src.dir), BareDir(q.dst.dir)} \subseteq Places(f)
  BY DEF Sound, Fits
<1>2. Places(f)' # {}
  BY <1>1
<1>3. Fits(f, next)'
  BY <1>1, <1>2 DEF Sound, Fits, Minter
<1>4. ASSUME Agrees(f, q) PROVE Agrees(f, next)'
  <2>1. Places(f) = {q.src.dir, q.dst.dir} /\ q.src.dir # q.dst.dir
    BY <1>1, <1>4 DEF Agrees, Expected
  <2>2. Places(f)' = {q.dst.dir}
    BY <2>1
  <2>3. Expected(f, next)' = {q.dst.dir}
    BY DEF Expected
  <2> QED BY <1>4, <2>2, <2>3 DEF Agrees, Active, Minter
<1> QED BY <1>3, <1>4 DEF Sound

\* updateFile of a move: the row follows its object.
LEMMA MoveRepointed ==
    ASSUME TypeOK, NEW f \in Files, NEW q, Sound(f, q), q.pc = "repoint",
           rows'[f] # NoRow, rows'[f].key = q.dst, rows'[f].status = rows[f].status,
           UNCHANGED <<bucket, content, doomed, halted, slashed>>
    PROVE  Sound(f, Idle)'
<1>1. Idle.pc = "idle" /\ Places(f)' = Places(f)
  BY SamePlaces DEF Idle
<1>2. Fits(f, Idle)'
  BY <1>1 DEF Sound, Fits, Minter
<1>3. ASSUME Agrees(f, q) PROVE Agrees(f, Idle)'
  <2>1. Places(f) = {q.dst.dir} /\ q.dst.dir.slashes = 0 /\ Active(f)
    BY <1>3 DEF Agrees, Expected
  <2>2. Home(f)' = {q.dst.dir}
    BY <2>1 DEF Home, Active
  <2>3. Expected(f, Idle)' = Home(f)'
    BY <1>1 DEF Expected
  <2> QED BY <1>1, <2>1, <2>2, <2>3 DEF Agrees, Minter
<1> QED BY <1>2, <1>3 DEF Sound

\* deleteFileFromS3 of a deletion, which f is doomed to.
LEMMA Erased ==
    ASSUME TypeOK, NEW f \in Files, NEW q, NEW next, Sound(f, q),
           q.pc = "erase", next.pc = "mark", next.src = q.src,
           Places(f)' = Places(f) \ {q.src.dir},
           UNCHANGED <<rows, content, doomed, halted, slashed>>
    PROVE  Sound(f, next)'
<1>1. rows[f] # NoRow /\ rows[f].key = q.src /\ f \in doomed
  BY DEF Sound, Fits
<1>2. Fits(f, next)'
  BY <1>1 DEF Sound, Fits, Minter
<1>3. ASSUME Agrees(f, q) PROVE Agrees(f, next)'
  <2>1. Places(f) = Home(f) /\ Home(f) \subseteq {q.src.dir}
    BY <1>1, <1>3, HomeExpected DEF Agrees, Home
  <2>2. Expected(f, next)' = {}
    BY DEF Expected
  <2> QED BY <1>3, <2>1, <2>2 DEF Agrees, Minter
<1> QED BY <1>2, <1>3 DEF Sound

\* updateFile of a deletion: the row is marked.
LEMMA Marked ==
    ASSUME TypeOK, NEW f \in Files, NEW q, Sound(f, q), q.pc = "mark",
           rows'[f].key = rows[f].key, rows'[f].status = "DELETED",
           UNCHANGED <<bucket, content, doomed, halted, slashed>>
    PROVE  Sound(f, Idle)'
<1>1. Idle.pc = "idle" /\ Places(f)' = Places(f) /\ rows[f] # NoRow /\ f \in doomed
  BY SamePlaces DEF Idle, Sound, Fits
<1>2. Fits(f, Idle)'
  BY <1>1 DEF Sound, Fits, Minter
<1>3. ASSUME Agrees(f, q) PROVE Agrees(f, Idle)'
  <2>1. Places(f) = {}
    BY <1>3 DEF Agrees, Expected
  <2>2. Home(f)' = {}
    BY DEF Home, Active
  <2>3. Expected(f, Idle)' = Home(f)'
    BY <1>1 DEF Expected
  <2> QED BY <1>1, <1>3, <2>1, <2>2, <2>3 DEF Agrees, Minter
<1> QED BY <1>2, <1>3 DEF Sound

LEMMA PerFileStep == IInv /\ PerFile /\ [Next]_vars => PerFile'
<1> SUFFICES ASSUME IInv, PerFile, [Next]_vars PROVE PerFile'
  OBVIOUS
<1> USE DEF marks
<1>0. /\ TypeOK /\ ByName /\ Named /\ Known /\ Fresh
      /\ Idle \in Request /\ Idle.pc = "idle"
      /\ \A r \in Reqs : req[r] \in Request
      /\ \A p \in Paths : Plain(p) \in Dirs /\ Plain(p).slashes = 0
  BY DEF IInv, TypeOK, Idle, Request, Plain, Dirs
<1>1. ASSUME NEW r \in Reqs, NEW f \in Files, NEW p \in Paths, UploadBegin(r, f, p)
      PROVE  PerFile'
  <2>1. PICK next \in Request :
          /\ next = [pc |-> "put", file |-> f, key |-> [dir |-> Plain(p), name |-> f]]
          /\ next.pc = "put" /\ next.file = f /\ next.key.dir = Plain(p)
    BY <1>0, NewUpload
  <2>2. /\ Begin(r, f, next) /\ content[f] = None
        /\ UNCHANGED <<rows, bucket, content, doomed, halted, slashed>>
    BY <1>1, <2>1 DEF UploadBegin, Unused
  <2>3. Aside(f)
    BY <2>2, SamePlaces DEF Aside
  <2>4. Sound(f, Idle) => Sound(f, next)'
    BY <1>0, <2>1, <2>2, Looks
  <2> QED BY <1>0, <2>1, <2>2, <2>3, <2>4, Begun
<1>2. ASSUME NEW r \in Reqs, UploadPut(r) PROVE PerFile'
  <2>1. PICK q \in Request, f \in Files, k \in Key :
          /\ q = req[r] /\ f = q.file /\ k = q.key
          /\ q.pc = "put" /\ k.name = f /\ Writes(req[r], f)
    BY <1>0, <1>2, RequestShape, WritesPc DEF UploadPut, Named, Naming, Minter
  <2>2. PICK next \in Request :
          /\ next = [q EXCEPT !.pc = "record"] /\ next.pc = "record"
          /\ next.file = f /\ next.key = k
    BY <2>1, NextStep
  <2>3. /\ To(r, next) /\ UNCHANGED <<rows, doomed, halted, slashed>>
        /\ bucket' = [bucket EXCEPT ![k] = f] /\ content' = [content EXCEPT ![f] = f]
    BY <1>2, <2>1, <2>2 DEF UploadPut
  <2>4. content'[f] # None /\ \A g \in Files \ {f} : content'[g] = content[g]
    BY <1>0, <2>3 DEF TypeOK
  <2>5. /\ Places(f)' = Places(f) \union {k.dir}
        /\ \A g \in Files \ {f} : Places(g)' = Places(g)
    BY <1>0, <2>1, <2>3, StoredAt
  <2>6. Aside(f)
    BY <2>3, <2>4, <2>5 DEF Aside
  <2>7. PICK d \in Dirs : d = k.dir
    BY DEF Key
  <2>8. /\ q.pc \in {"put", "duplicate"} /\ next.pc \in {"record", "enter"}
        /\ next.key = q.key /\ q.key.dir = d
        /\ Places(f)' = Places(f) \union {d}
    BY <2>1, <2>2, <2>5, <2>7
  <2>9. Sound(f, q) => Sound(f, next)'
    BY <1>0, <2>3, <2>4, <2>8, Stored
  <2> QED BY <1>0, <2>1, <2>2, <2>3, <2>6, <2>9, WritesPc, Went
<1>3. ASSUME NEW r \in Reqs, UploadRecord(r) \/ CopyEnter(r) PROVE PerFile'
  <2>1. PICK q \in Request, f \in Files, k \in Key :
          /\ q = req[r] /\ f = q.file /\ k = q.key
          /\ q.pc \in {"record", "enter"} /\ k.name = f /\ Writes(req[r], f)
    BY <1>0, <1>3, RequestShape, WritesPc
       DEF UploadRecord, CopyEnter, Named, Naming, Minter
  <2>2. /\ To(r, Idle) /\ UNCHANGED <<bucket, content, doomed, halted, slashed>>
        /\ rows' = IF Taken(k, f) THEN rows
                   ELSE [rows EXCEPT ![f] = [key |-> k, status |-> "ACTIVE"]]
    BY <1>3, <2>1 DEF UploadRecord, CopyEnter
  <2>3. rows' = [rows EXCEPT ![f] = [key |-> k, status |-> "ACTIVE"]]
    BY <2>1, <2>2, NotTaken
  <2>4. /\ rows'[f] = [key |-> q.key, status |-> "ACTIVE"]
        /\ \A g \in Files \ {f} : rows'[g] = rows[g]
    BY <1>0, <2>1, <2>3 DEF TypeOK
  <2>5. Aside(f)
    BY <2>2, <2>4, SamePlaces DEF Aside
  <2>6. Sound(f, q) => Sound(f, Idle)'
    BY <1>0, <2>1, <2>2, <2>4, Entered
  <2> QED BY <1>0, <2>1, <2>2, <2>5, <2>6, Went
<1>4. ASSUME NEW r \in Reqs, NEW f \in Files, NEW d \in Dirs, MoveRead(r, f, d)
      PROVE  PerFile'
  <2>1. rows[f] # NoRow /\ rows[f].key \in Key
    BY <1>0, <1>4 DEF MoveRead, TypeOK, Row
  <2>2. PICK next \in Request :
          /\ next = [pc |-> "copy", file |-> f, src |-> rows[f].key,
                     dst |-> [rows[f].key EXCEPT !.dir = d]]
          /\ next.pc = "copy" /\ next.file = f /\ next.src = rows[f].key
          /\ next.dst.dir = d
    BY <2>1, NewMove
  <2>3. /\ Begin(r, f, next) /\ BareDir(next.src.dir) # BareDir(d)
        /\ slashed' = slashed \union {g \in {f} : d.slashes > 0}
        /\ UNCHANGED <<rows, bucket, content, doomed, halted>>
    BY <1>4, <2>2 DEF MoveRead, Slash
  <2>4. f \notin slashed' => d.slashes = 0
    BY <2>3 DEF Dirs
  <2>5. Aside(f)
    BY <2>3, SamePlaces DEF Aside
  <2>6. ~Minter(next) /\ slashed \subseteq slashed'
    BY <2>2, <2>3 DEF Minter
  <2>7. Sound(f, Idle) => Sound(f, next)'
    BY <1>0, <2>1, <2>2, <2>3, <2>4, <2>6, Looks
  <2> QED BY <1>0, <2>2, <2>3, <2>5, <2>7, Begun
<1>5. ASSUME NEW r \in Reqs, MoveCopy(r) PROVE PerFile'
  <2>1. PICK q \in Request, f \in Files, src \in Key, dst \in Key :
          /\ q = req[r] /\ f = q.file /\ src = q.src /\ dst = q.dst
          /\ q.pc = "copy" /\ src.name = f /\ dst.name = f /\ Writes(req[r], f)
    BY <1>0, <1>5, RequestShape, WritesPc DEF MoveCopy, Named, Naming
  <2>2. UNCHANGED <<rows, content, doomed, halted, slashed>>
    BY <1>5 DEF MoveCopy
  <2>3. CASE bucket[Bare(src)] = None
    <3>1. To(r, Idle) /\ UNCHANGED bucket
      BY <1>5, <2>1, <2>3 DEF MoveCopy
    <3>2. Aside(f)
      BY <2>2, <3>1, SamePlaces DEF Aside
    <3>3. Sound(f, q) => Sound(f, Idle)'
      BY <1>0, <2>1, <2>2, <3>1, Looks DEF Minter
    <3> QED BY <1>0, <2>1, <3>1, <3>2, <3>3, Went
  <2>4. CASE bucket[Bare(src)] # None
    <3>1. PICK next \in Request :
            /\ next = [q EXCEPT !.pc = "remove"] /\ next.pc = "remove"
            /\ next.file = f /\ next.src = src /\ next.dst = dst
      BY <2>1, NextStep
    <3>2. To(r, next) /\ bucket' = [bucket EXCEPT ![Bare(dst)] = bucket[Bare(src)]]
      BY <1>5, <2>1, <2>4, <3>1 DEF MoveCopy
    <3>3. /\ Bare(dst) \in Key /\ Bare(dst).name = f /\ Bare(dst).dir = BareDir(dst.dir)
          /\ BareDir(src.dir) \in Dirs
          /\ Bare(src) = [dir |-> BareDir(src.dir), name |-> f]
      BY <2>1, BareKey DEF Bare, Key
    <3>4. /\ Places(f)' = Places(f) \union {BareDir(dst.dir)}
          /\ \A g \in Files \ {f} : Places(g)' = Places(g)
      BY <1>0, <2>4, <3>2, <3>3, StoredAt
    <3>5. BareDir(src.dir) \in Places(f)
      BY <2>4, <3>3 DEF Places
    <3>6. Aside(f)
      BY <2>2, <3>4 DEF Aside
    <3>7. Sound(f, q) => Sound(f, next)'
      BY <1>0, <2>1, <2>2, <3>1, <3>4, <3>5, MoveCopied
    <3> QED BY <1>0, <2>1, <3>1, <3>2, <3>6, <3>7, WritesPc, Went
  <2> QED BY <2>3, <2>4
<1>6. ASSUME NEW r \in Reqs, MoveRemove(r) PROVE PerFile'
  <2>1. PICK q \in Request, f \in Files, src \in Key :
          /\ q = req[r] /\ f = q.file /\ src = q.src
          /\ q.pc = "remove" /\ src.name = f /\ Writes(req[r], f)
    BY <1>0, <1>6, RequestShape, WritesPc DEF MoveRemove, Named, Naming
  <2>2. PICK next \in Request :
          /\ next = [q EXCEPT !.pc = "repoint"] /\ next.pc = "repoint"
          /\ next.file = f /\ next.src = src /\ next.dst = q.dst
    BY <2>1, NextStep
  <2>3. /\ To(r, next) /\ UNCHANGED <<rows, content, doomed, halted, slashed>>
        /\ bucket' = [bucket EXCEPT ![src] = None]
    BY <1>6, <2>1, <2>2 DEF MoveRemove
  <2>4. /\ Places(f)' = Places(f) \ {src.dir}
        /\ \A g \in Files \ {f} : Places(g)' = Places(g)
    BY <1>0, <2>1, <2>3, DeletedAt
  <2>5. Aside(f)
    BY <2>3, <2>4 DEF Aside
  <2>6. Sound(f, q) => Sound(f, next)'
    BY <1>0, <2>1, <2>2, <2>3, <2>4, MoveRemoved
  <2> QED BY <1>0, <2>1, <2>2, <2>3, <2>5, <2>6, WritesPc, Went
<1>7. ASSUME NEW r \in Reqs, MoveRepoint(r) PROVE PerFile'
  <2>1. PICK q \in Request, f \in Files, dst \in Key :
          /\ q = req[r] /\ f = q.file /\ dst = q.dst
          /\ q.pc = "repoint" /\ dst.name = f /\ Writes(req[r], f) /\ rows[f] \in Row
    BY <1>0, <1>7, RequestShape, WritesPc
       DEF MoveRepoint, Named, Naming, Known, OnRow, TypeOK
  <2>2. /\ To(r, Idle) /\ UNCHANGED <<bucket, content, doomed, halted, slashed>>
        /\ rows' = IF Taken(dst, f) THEN rows ELSE [rows EXCEPT ![f].key = dst]
    BY <1>7, <2>1 DEF MoveRepoint
  <2>3. rows' = [rows EXCEPT ![f].key = dst]
    BY <2>1, <2>2, NotTaken
  <2>4. /\ rows'[f] # NoRow /\ rows'[f].key = q.dst /\ rows'[f].status = rows[f].status
        /\ \A g \in Files \ {f} : rows'[g] = rows[g]
    <3>1. /\ rows'[f] = [rows[f] EXCEPT !.key = dst]
          /\ \A g \in Files \ {f} : rows'[g] = rows[g]
      BY <1>0, <2>3 DEF TypeOK
    <3>2. [rows[f] EXCEPT !.key = dst] = [key |-> dst, status |-> rows[f].status]
      BY <2>1 DEF Row
    <3>3. [key |-> dst, status |-> rows[f].status] # NoRow
      BY <2>1 DEF Row, NoRow
    <3> QED BY <2>1, <3>1, <3>2, <3>3
  <2>5. Aside(f)
    BY <2>2, <2>4, SamePlaces DEF Aside
  <2>6. Sound(f, q) => Sound(f, Idle)'
    BY <1>0, <2>1, <2>2, <2>4, MoveRepointed
  <2> QED BY <1>0, <2>1, <2>2, <2>5, <2>6, Went
<1>8. ASSUME NEW r \in Reqs, NEW f \in Files, NEW g \in Files, NEW d \in Dirs,
             CopyRead(r, f, g, d)
      PROVE  PerFile'
  <2>1. rows[f].key \in Key
    BY <1>0, <1>8 DEF CopyRead, TypeOK, Row
  <2>2. PICK next \in Request :
          /\ next = [pc |-> "duplicate", of |-> f, file |-> g, src |-> rows[f].key,
                     key |-> [dir |-> d, name |-> g]]
          /\ next.pc = "duplicate" /\ next.file = g /\ next.key.dir = d
    BY <2>1, NewCopy
  <2>3. /\ Begin(r, g, next) /\ content[g] = None
        /\ slashed' = slashed \union {h \in {g} : d.slashes > 0}
        /\ UNCHANGED <<rows, bucket, content, doomed, halted>>
    BY <1>8, <2>2 DEF CopyRead, Unused, Slash
  <2>4. g \notin slashed' => d.slashes = 0
    BY <2>3 DEF Dirs
  <2>5. Aside(g)
    BY <2>3, SamePlaces DEF Aside
  <2>6. slashed \subseteq slashed'
    BY <2>3
  <2>7. Sound(g, Idle) => Sound(g, next)'
    BY <1>0, <2>2, <2>3, <2>4, <2>6, Looks
  <2> QED BY <1>0, <2>2, <2>3, <2>5, <2>7, Begun
<1>9. ASSUME NEW r \in Reqs, CopyObject(r) PROVE PerFile'
  <2>1. PICK q \in Request, f \in Files, h \in Files, src \in Key, key \in Key :
          /\ q = req[r] /\ f = q.file /\ h = q.of /\ src = q.src /\ key = q.key
          /\ q.pc = "duplicate" /\ src.name = h /\ key.name = f /\ Writes(req[r], f)
    BY <1>0, <1>9, RequestShape, WritesPc DEF CopyObject, Named, Naming, Minter
  <2>2. UNCHANGED <<rows, doomed, halted, slashed>>
    BY <1>9 DEF CopyObject
  <2>3. CASE bucket[Bare(src)] = None
    <3>1. To(r, Idle) /\ UNCHANGED <<bucket, content>>
      BY <1>9, <2>1, <2>3 DEF CopyObject
    <3>2. Aside(f)
      BY <2>2, <3>1, SamePlaces DEF Aside
    <3>3. Sound(f, q) => Sound(f, Idle)'
      BY <1>0, <2>1, <2>2, <3>1, Looks DEF Minter
    <3> QED BY <1>0, <2>1, <3>1, <3>2, <3>3, Went
  <2>4. CASE bucket[Bare(src)] # None
    <3>1. PICK next \in Request :
            /\ next = [q EXCEPT !.pc = "enter"] /\ next.pc = "enter"
            /\ next.file = f /\ next.key = key
      BY <2>1, NextStep
    <3>2. /\ To(r, next) /\ bucket' = [bucket EXCEPT ![Bare(key)] = bucket[Bare(src)]]
          /\ content' = [content EXCEPT ![f] = content[h]]
      BY <1>9, <2>1, <2>4, <3>1 DEF CopyObject
    <3>3. /\ Bare(key) \in Key /\ Bare(key).name = f /\ Bare(key).dir = BareDir(key.dir)
          /\ BareDir(key.dir) \in Dirs
          /\ key.dir.slashes = 0 => BareDir(key.dir) = key.dir
          /\ Bare(src) \in Key /\ Bare(src).name = h
      BY <2>1, BareKey
    <3>4. content[h] # None
      BY <1>0, <2>4, <3>3 DEF ByName
    <3>5. content'[f] # None /\ \A g \in Files \ {f} : content'[g] = content[g]
      BY <1>0, <3>2, <3>4 DEF TypeOK
    <3>6. /\ Places(f)' = Places(f) \union {BareDir(key.dir)}
          /\ \A g \in Files \ {f} : Places(g)' = Places(g)
      BY <1>0, <2>4, <3>2, <3>3, StoredAt
    <3>7. Aside(f)
      BY <2>2, <3>5, <3>6 DEF Aside
    <3>8. PICK d \in Dirs : d = BareDir(key.dir)
      BY <3>3
    <3>9. /\ q.pc \in {"put", "duplicate"} /\ next.pc \in {"record", "enter"}
          /\ next.key = q.key /\ (q.key.dir.slashes = 0 => d = q.key.dir)
          /\ Places(f)' = Places(f) \union {d}
      BY <2>1, <3>1, <3>3, <3>6, <3>8
    <3>10. Sound(f, q) => Sound(f, next)'
      BY <1>0, <2>2, <3>5, <3>9, Stored
    <3> QED BY <1>0, <2>1, <3>1, <3>2, <3>7, <3>10, WritesPc, Went
  <2> QED BY <2>3, <2>4
<1>10. ASSUME NEW r \in Reqs, NEW f \in Files, DeleteRead(r, f) PROVE PerFile'
  <2>1. rows[f] # NoRow /\ rows[f].key \in Key
    BY <1>0, <1>10 DEF DeleteRead, TypeOK, Row
  <2>2. PICK next \in Request :
          /\ next = [pc |-> "erase", file |-> f, src |-> rows[f].key]
          /\ next.pc = "erase" /\ next.file = f /\ next.src = rows[f].key
    BY <2>1, NewDelete
  <2>3. /\ Begin(r, f, next) /\ doomed' = doomed \union {f}
        /\ UNCHANGED <<rows, bucket, content, halted, slashed>>
    BY <1>10, <2>2 DEF DeleteRead
  <2>4. Aside(f)
    BY <2>3, SamePlaces DEF Aside
  <2>5. Sound(f, Idle) => Sound(f, next)'
    BY <1>0, <2>1, <2>2, <2>3, Looks DEF Minter
  <2> QED BY <1>0, <2>2, <2>3, <2>4, <2>5, Begun
<1>11. ASSUME NEW r \in Reqs, DeleteObject(r) PROVE PerFile'
  <2>1. PICK q \in Request, f \in Files, src \in Key :
          /\ q = req[r] /\ f = q.file /\ src = q.src
          /\ q.pc = "erase" /\ src.name = f /\ Writes(req[r], f)
    BY <1>0, <1>11, RequestShape, WritesPc DEF DeleteObject, Named, Naming
  <2>2. PICK next \in Request :
          /\ next = [q EXCEPT !.pc = "mark"] /\ next.pc = "mark"
          /\ next.file = f /\ next.src = src
    BY <2>1, NextStep
  <2>3. /\ To(r, next) /\ UNCHANGED <<rows, content, doomed, halted, slashed>>
        /\ bucket' = [bucket EXCEPT ![src] = None]
    BY <1>11, <2>1, <2>2 DEF DeleteObject
  <2>4. /\ Places(f)' = Places(f) \ {src.dir}
        /\ \A g \in Files \ {f} : Places(g)' = Places(g)
    BY <1>0, <2>1, <2>3, DeletedAt
  <2>5. Aside(f)
    BY <2>3, <2>4 DEF Aside
  <2>6. Sound(f, q) => Sound(f, next)'
    BY <1>0, <2>1, <2>2, <2>3, <2>4, Erased
  <2> QED BY <1>0, <2>1, <2>2, <2>3, <2>5, <2>6, WritesPc, Went
<1>12. ASSUME NEW r \in Reqs, DeleteMark(r) PROVE PerFile'
  <2>1. PICK q \in Request, f \in Files :
          /\ q = req[r] /\ f = q.file
          /\ q.pc = "mark" /\ Writes(req[r], f) /\ rows[f] \in Row
    BY <1>0, <1>12, RequestShape, WritesPc DEF DeleteMark, Known, OnRow, TypeOK
  <2>2. /\ To(r, Idle) /\ UNCHANGED <<bucket, content, doomed, halted, slashed>>
        /\ rows' = [rows EXCEPT ![f].status = "DELETED"]
    BY <1>12, <2>1 DEF DeleteMark
  <2>3. /\ rows'[f].key = rows[f].key /\ rows'[f].status = "DELETED"
        /\ \A g \in Files \ {f} : rows'[g] = rows[g]
    <3>1. /\ rows'[f] = [rows[f] EXCEPT !.status = "DELETED"]
          /\ \A g \in Files \ {f} : rows'[g] = rows[g]
      BY <1>0, <2>2 DEF TypeOK
    <3> QED BY <2>1, <3>1 DEF Row
  <2>4. Aside(f)
    BY <2>2, <2>3, SamePlaces DEF Aside
  <2>5. Sound(f, q) => Sound(f, Idle)'
    BY <1>0, <2>1, <2>2, <2>3, Marked
  <2> QED BY <1>0, <2>1, <2>2, <2>4, <2>5, Went
<1>13. ASSUME NEW r \in Reqs, NEW p \in Paths, DirCheck(r, p) PROVE PerFile'
  <2>1. PICK next \in Request : next = [pc |-> "mkdir", path |-> p] /\ next.pc = "mkdir"
    <3>1. [pc |-> "mkdir", path |-> p] \in Request
      BY DEF Request
    <3> QED BY <3>1
  <2>2. /\ req' = [req EXCEPT ![r] = next] /\ req[r].pc = "idle"
        /\ UNCHANGED <<rows, bucket, content, contested, doomed, halted, slashed>>
    BY <1>0, <1>13, <2>1 DEF DirCheck
  <2> QED BY <1>0, <2>1, <2>2, Elsewhere
<1>14. ASSUME NEW r \in Reqs, DirCreate(r) PROVE PerFile'
  <2>1. /\ req[r].pc = "mkdir" /\ req' = [req EXCEPT ![r] = Idle]
        /\ UNCHANGED <<rows, bucket, content, contested, doomed, halted, slashed>>
    BY <1>14 DEF DirCreate, To
  <2> QED BY <1>0, <2>1, Elsewhere
<1>15. ASSUME NEW r \in Reqs, Fail(r) PROVE PerFile'
  <2>1. /\ To(r, Idle) /\ req[r] # Idle
        /\ UNCHANGED <<rows, bucket, content, doomed, slashed>>
        /\ halted' = halted \union {f \in Files : Writes(req[r], f)}
    BY <1>15 DEF Fail
  <2>2. CASE req[r].pc \in {"idle", "mkdir"}
    <3>1. halted' = halted
      BY <1>0, <2>1, <2>2, WritesPc
    <3> QED BY <1>0, <2>1, <2>2, <3>1, Elsewhere DEF To
  <2>3. CASE req[r].pc \notin {"idle", "mkdir"}
    <3>1. PICK q \in Request, f \in Files :
            /\ q = req[r] /\ f = q.file
            /\ \A g : Writes(req[r], g) <=> g = f
      BY <1>0, <2>3, RequestShape, WritesPc DEF Request, Idle
    <3>2. halted' = halted \union {f}
      BY <2>1, <3>1
    <3>3. Aside(f)
      BY <2>1, <3>2, SamePlaces DEF Aside
    <3>4. Places(f)' = Places(f) /\ f \in halted'
      BY <2>1, <3>2, SamePlaces
    <3>5. Sound(f, q) => Sound(f, Idle)'
      BY <1>0, <2>1, <3>4 DEF Sound, Fits, Minter
    <3> QED BY <1>0, <2>1, <3>1, <3>3, <3>5, Went
  <2> QED BY <2>2, <2>3
<1>16. ASSUME (\E p \in Paths : DirDelete(p)) \/ UNCHANGED vars PROVE PerFile'
  <2>1. UNCHANGED <<rows, bucket, content, contested, doomed, halted, slashed, req>>
    BY <1>16 DEF DirDelete, vars
  <2> QED BY <2>1, Untouched
<1> QED
  BY <1>1, <1>2, <1>3, <1>4, <1>5, <1>6, <1>7, <1>8, <1>9, <1>10, <1>11, <1>12,
     <1>13, <1>14, <1>15, <1>16 DEF Next, Routes

\* A file that no two requests changed together, whose requests all ran to their
\* end and that never got a leading slash: its ACTIVE row leads to its object
\* (upload, move, copy and delete change the stores one after the other), and
\* nothing else is stored under its name.
THEOREM StoresAgreeHolds == Spec => []StoresAgree
<1>1. IInv /\ PerFile => StoresAgree
  <2> SUFFICES ASSUME IInv, PerFile, NEW f \in Files,
                      f \notin contested \union halted \union slashed, ~Working(f)
               PROVE  /\ Active(f) => Holds(rows[f].key, f)
                      /\ \A k \in Key : k.name = f /\ bucket[k] # None =>
                           Active(f) /\ rows[f].key = k
    BY DEF StoresAgree
  <2>1. Places(f) = Home(f)
    BY DEF PerFile, Sound, Agrees, Expected, Idle
  <2>2. Active(f) => /\ rows[f].key \in Key
                     /\ rows[f].key = [dir |-> rows[f].key.dir, name |-> f]
    <3>1. Active(f) => rows[f] # NoRow /\ rows[f] \in Row
      BY DEF IInv, TypeOK, Active, NoRow
    <3>2. Active(f) => rows[f].key \in Key /\ rows[f].key.name = f
      BY <3>1 DEF IInv, Named, Row
    <3> QED BY <3>2 DEF Key
  <2>3. ASSUME Active(f) PROVE Holds(rows[f].key, f)
    <3>1. rows[f].key.dir \in Places(f)
      BY <2>1, <2>3 DEF Home
    <3>2. bucket[rows[f].key] # None
      BY <2>2, <2>3, <3>1 DEF Places
    <3>3. rows[f].key.name = f
      BY <2>2, <2>3
    <3> QED BY <2>2, <2>3, <3>2, <3>3 DEF Holds, IInv, ByName
  <2>4. ASSUME NEW k \in Key, k.name = f, bucket[k] # None
        PROVE  Active(f) /\ rows[f].key = k
    <3>1. k = [dir |-> k.dir, name |-> f] /\ k.dir \in Dirs
      BY <2>4 DEF Key
    <3>2. k.dir \in Home(f)
      BY <2>1, <2>4, <3>1 DEF Places
    <3> QED BY <2>2, <3>1, <3>2 DEF Home
  <2> QED BY <2>3, <2>4
<1> QED BY <1>1, InitInv, StepInv, PerFileInit, PerFileStep, PTL DEF Spec

\* Wherever a handler stops and wherever slashes lead: the content of a file
\* that no two requests changed together and nobody asked to delete is in the
\* bucket under the file's name.
THEOREM NothingDestroyedHolds == Spec => []NothingDestroyed
<1>1. IInv /\ PerFile => NothingDestroyed
  <2> SUFFICES ASSUME IInv, PerFile, NEW f \in Files, f \notin doomed \union contested,
                      Active(f)
               PROVE  \E d \in Dirs : Holds([dir |-> d, name |-> rows[f].key.name], f)
    BY DEF NothingDestroyed
  <2>1. rows[f] # NoRow /\ rows[f].key.name = f
    BY DEF IInv, Named, Active, NoRow
  <2>2. Places(f) # {}
    <3>1. CASE Working(f)
      BY <2>1, <3>1 DEF Working, PerFile, Sound, Fits
    <3>2. CASE ~Working(f)
      BY <2>1, <3>2 DEF PerFile, Sound, Fits
    <3> QED BY <3>1, <3>2
  <2>3. PICK d \in Dirs : bucket[[dir |-> d, name |-> f]] # None
    BY <2>2 DEF Places
  <2>4. [dir |-> d, name |-> f] \in Key /\ [dir |-> d, name |-> f].name = f
    BY DEF Key
  <2> QED BY <2>1, <2>3, <2>4 DEF Holds, IInv, ByName
<1> QED BY <1>1, InitInv, StepInv, PerFileInit, PerFileStep, PTL DEF Spec
=============================================================================
