---------------------------- MODULE FileStorage ----------------------------
(***************************************************************************)
(* The file manager of one organization: file_storage and file_directories *)
(* rows in PostgreSQL, the objects they name in an S3 bucket.  Nothing     *)
(* makes the two stores change together: every handler writes one after    *)
(* the other, and a handler may fail or be overtaken between any two.      *)
(*                                                                         *)
(* An object key is a directory path and a file name.  The caller of move  *)
(* and copy gives the path as any string; the helper that copies an object *)
(* drops one leading slash of either key, no other helper does, and the    *)
(* row keeps the key as it was given.                                      *)
(*                                                                         *)
(* Folder markers (the 0-byte objects) and the listing and signed-URL      *)
(* handlers, which change nothing, are left out.                           *)
(***************************************************************************)
EXTENDS Naturals

CONSTANTS
    Files,       \* row ids; also the uuid names minted for the files' objects
    Paths,       \* directory paths, without the slashes they begin with
    MaxSlashes,  \* bound on those slashes
    Reqs,        \* requests that can be in flight together
    MaxCalls,    \* bound on the requests accepted
    MaxFails     \* bound on handlers that stop half-way

ASSUME StorageAssumption ==
    /\ MaxSlashes \in Nat /\ MaxCalls \in Nat /\ MaxFails \in Nat
    /\ "none" \notin Files /\ Reqs # {}

VARIABLES
    rows,     \* file_storage, by id
    bucket,   \* S3: key -> the content stored under it
    dirs,     \* paths with a file_directories row
    req,      \* requests in flight
    calls,    \* requests accepted so far
    \* History variables.
    content,    \* what the user of a row put there: the upload it came from
    doomed,     \* files whose deletion was requested
    contested,  \* files that two requests were moving or deleting together
    halted,     \* files whose upload, move, copy or deletion stopped half-way
    slashed,    \* files moved or copied to a path with a leading slash
    fails

vars == <<rows, bucket, dirs, req, calls, content, doomed, contested, halted, slashed, fails>>

None == "none"          \* no object
NoRow == [status |-> "none"]
Dirs == [path : Paths, slashes : 0..MaxSlashes]
Key == [dir : Dirs, name : Files]
Row == [key : Key, status : {"ACTIVE", "DELETED"}]

Idle == [pc |-> "idle"]
Request == {Idle}
    \union [pc : {"put", "record"}, file : Files, key : Key]
    \union [pc : {"copy", "remove", "repoint"}, file : Files, src : Key, dst : Key]
    \union [pc : {"duplicate", "enter"}, of : Files, file : Files, src : Key, key : Key]
    \union [pc : {"erase", "mark"}, file : Files, src : Key]
    \union [pc : {"mkdir"}, path : Paths]

TypeOK ==
    /\ rows \in [Files -> Row \union {NoRow}]
    /\ bucket \in [Key -> Files \union {None}]
    /\ dirs \subseteq Paths
    /\ req \in [Reqs -> Request]
    /\ calls \in 0..MaxCalls
    /\ content \in [Files -> Files \union {None}]
    /\ doomed \subseteq Files /\ contested \subseteq Files
    /\ halted \subseteq Files /\ slashed \subseteq Files
    /\ fails \in 0..MaxFails

Init ==
    /\ rows = [f \in Files |-> NoRow]
    /\ bucket = [k \in Key |-> None]
    /\ dirs = {}
    /\ req = [r \in Reqs |-> Idle]
    /\ calls = 0
    /\ content = [f \in Files |-> None]
    /\ doomed = {} /\ contested = {} /\ halted = {} /\ slashed = {}
    /\ fails = 0

\* copyFile takes one slash off the front of a key.
BareDir(d) == [d EXCEPT !.slashes = IF @ = 0 THEN 0 ELSE @ - 1]
Bare(k) == [k EXCEPT !.dir = BareDir(k.dir)]

\* The file whose row and objects request q writes.
Writes(q, f) == "file" \in DOMAIN q /\ q.file = f
Working(f) == \E q \in Reqs : Writes(req[q], f)

\* A request on file f is accepted in slot r.
Begin(r, f, next) ==
    /\ req[r] = Idle /\ calls < MaxCalls
    /\ calls' = calls + 1
    /\ req' = [req EXCEPT ![r] = next]
    /\ contested' = contested \union {g \in {f} : Working(g)}

To(r, next) ==
    /\ req' = [req EXCEPT ![r] = next]
    /\ UNCHANGED <<calls, contested>>

marks == <<doomed, halted, slashed, fails>>

\* A uuid not drawn before, as a row id and as the name of an object.
Unused(f) ==
    /\ content[f] = None
    /\ \A r \in Reqs : req[r].pc \in {"put", "record", "duplicate", "enter"} =>
         req[r].file # f

\* storageFileName is UNIQUE: a second row with the same key is refused.
Taken(k, f) == \E g \in Files \ {f} : rows[g] # NoRow /\ rows[g].key = k

-----------------------------------------------------------------------------
(* Upload.                                                                 *)

\* The uploader's and the organization's slugs begin without a slash.
Plain(p) == [path |-> p, slashes |-> 0]

\* Mutant: the object keeps the name of the uploaded file instead of a uuid.
UploadBeginPlain(r, f, p) ==
    /\ Unused(f)
    /\ dirs' = dirs \union {p}
    /\ Begin(r, f, [pc |-> "put", file |-> f,
                    key |-> [dir |-> Plain(p), name |-> CHOOSE n \in Files : TRUE]])
    /\ UNCHANGED <<rows, bucket, content, marks>>

\* The directory row is ensured (upsert) and a name is minted.  A request with
\* several files is a sequence of uploads.  An upload outside any organization
\* stops before this: its directory row refers to an organization by user id.
UploadBegin(r, f, p) ==
    /\ Unused(f)
    /\ dirs' = dirs \union {p}
    /\ Begin(r, f, [pc |-> "put", file |-> f, key |-> [dir |-> Plain(p), name |-> f]])
    /\ UNCHANGED <<rows, bucket, content, marks>>

\* The object is stored...
UploadPut(r) ==
    /\ req[r].pc = "put"
    /\ bucket' = [bucket EXCEPT ![req[r].key] = req[r].file]
    /\ content' = [content EXCEPT ![req[r].file] = req[r].file]
    /\ To(r, [req[r] EXCEPT !.pc = "record"])
    /\ UNCHANGED <<rows, dirs, marks>>

\* ...and then its row.
UploadRecord(r) ==
    /\ req[r].pc = "record"
    /\ rows' = IF Taken(req[r].key, req[r].file) THEN rows
               ELSE [rows EXCEPT ![req[r].file] =
                       [key |-> req[r].key, status |-> "ACTIVE"]]
    /\ To(r, Idle)
    /\ UNCHANGED <<bucket, dirs, content, marks>>

-----------------------------------------------------------------------------
(* Move: copy the object, delete the original, point the row at the copy.  *)

\* Files sent to a path with a leading slash are noted.
Slash(f, d) == slashed' = slashed \union {g \in {f} : d.slashes > 0}

\* Mutant: the copy replaces metadata, so S3 accepts a copy onto itself.
MoveReadSame(r, f, d) ==
    /\ rows[f] # NoRow
    /\ Begin(r, f, [pc |-> "copy", file |-> f, src |-> rows[f].key,
                    dst |-> [rows[f].key EXCEPT !.dir = d]])
    /\ Slash(f, d)
    /\ UNCHANGED <<rows, bucket, dirs, content, doomed, halted, fails>>

\* findFileById does not look at the status; the target directory needs no
\* row.  S3 refuses to copy an object onto itself, and with it the request.
MoveRead(r, f, d) ==
    /\ rows[f] # NoRow
    /\ BareDir(rows[f].key.dir) # BareDir(d)
    /\ Begin(r, f, [pc |-> "copy", file |-> f, src |-> rows[f].key,
                    dst |-> [rows[f].key EXCEPT !.dir = d]])
    /\ Slash(f, d)
    /\ UNCHANGED <<rows, bucket, dirs, content, doomed, halted, fails>>

\* s3CopyFile: the keys lose a leading slash.  Copying an object that is not
\* there fails, and with it the request.
MoveCopy(r) ==
    LET src == Bare(req[r].src)  dst == Bare(req[r].dst) IN
    /\ req[r].pc = "copy"
    /\ IF bucket[src] = None
       THEN To(r, Idle) /\ UNCHANGED bucket
       ELSE /\ bucket' = [bucket EXCEPT ![dst] = bucket[src]]
            /\ To(r, [req[r] EXCEPT !.pc = "remove"])
    /\ UNCHANGED <<rows, dirs, content, marks>>

\* The key is deleted as the row has it; a key with no object is no error.
MoveRemove(r) ==
    /\ req[r].pc = "remove"
    /\ bucket' = [bucket EXCEPT ![req[r].src] = None]
    /\ To(r, [req[r] EXCEPT !.pc = "repoint"])
    /\ UNCHANGED <<rows, dirs, content, marks>>

\* Mutant: only the directory columns are updated (repository.moveFile).
MoveRepointDir(r) ==
    /\ req[r].pc = "repoint"
    /\ To(r, Idle)
    /\ UNCHANGED <<rows, bucket, dirs, content, marks>>

MoveRepoint(r) ==
    /\ req[r].pc = "repoint"
    /\ rows' = IF Taken(req[r].dst, req[r].file) THEN rows
               ELSE [rows EXCEPT ![req[r].file].key = req[r].dst]
    /\ To(r, Idle)
    /\ UNCHANGED <<bucket, dirs, content, marks>>

-----------------------------------------------------------------------------
(* Copy: copy the object under a new name, then create a row for it.       *)

CopyRead(r, f, g, d) ==
    /\ rows[f] # NoRow
    /\ Unused(g)
    /\ Begin(r, g, [pc |-> "duplicate", of |-> f, file |-> g, src |-> rows[f].key,
                    key |-> [dir |-> d, name |-> g]])
    /\ Slash(g, d)
    /\ UNCHANGED <<rows, bucket, dirs, content, doomed, halted, fails>>

\* s3CopyFile again, under the new name.
CopyObject(r) ==
    LET src == Bare(req[r].src)  key == Bare(req[r].key) IN
    /\ req[r].pc = "duplicate"
    /\ IF bucket[src] = None
       THEN To(r, Idle) /\ UNCHANGED <<bucket, content>>
       ELSE /\ bucket' = [bucket EXCEPT ![key] = bucket[src]]
            /\ content' = [content EXCEPT ![req[r].file] = content[req[r].of]]
            /\ To(r, [req[r] EXCEPT !.pc = "enter"])
    /\ UNCHANGED <<rows, dirs, marks>>

CopyEnter(r) ==
    /\ req[r].pc = "enter"
    /\ rows' = IF Taken(req[r].key, req[r].file) THEN rows
               ELSE [rows EXCEPT ![req[r].file] =
                       [key |-> req[r].key, status |-> "ACTIVE"]]
    /\ To(r, Idle)
    /\ UNCHANGED <<bucket, dirs, content, marks>>

-----------------------------------------------------------------------------
(* Delete: the object goes, then the row is marked.                        *)

DeleteRead(r, f) ==
    /\ rows[f] # NoRow
    /\ doomed' = doomed \union {f}
    /\ Begin(r, f, [pc |-> "erase", file |-> f, src |-> rows[f].key])
    /\ UNCHANGED <<rows, bucket, dirs, content, halted, slashed, fails>>

DeleteObject(r) ==
    /\ req[r].pc = "erase"
    /\ bucket' = [bucket EXCEPT ![req[r].src] = None]
    /\ To(r, [req[r] EXCEPT !.pc = "mark"])
    /\ UNCHANGED <<rows, dirs, content, marks>>

\* Mutant: the row is marked with a status nothing else knows.
DeleteMarkOther(r) ==
    /\ req[r].pc = "mark"
    /\ rows' = [rows EXCEPT ![req[r].file].status = "REMOVED"]
    /\ To(r, Idle)
    /\ UNCHANGED <<bucket, dirs, content, marks>>

DeleteMark(r) ==
    /\ req[r].pc = "mark"
    /\ rows' = [rows EXCEPT ![req[r].file].status = "DELETED"]
    /\ To(r, Idle)
    /\ UNCHANGED <<bucket, dirs, content, marks>>

-----------------------------------------------------------------------------
(* Directories.  Their rows are compared with one another only, so that a  *)
(* path with a leading slash is a path like any other here.                *)

\* No row has the path yet...
DirCheck(r, p) ==
    /\ req[r] = Idle /\ calls < MaxCalls
    /\ p \notin dirs
    /\ calls' = calls + 1
    /\ req' = [req EXCEPT ![r] = [pc |-> "mkdir", path |-> p]]
    /\ UNCHANGED <<rows, bucket, dirs, content, contested, marks>>

\* ...and after the folder marker it is created; (orgId, path) is UNIQUE.
DirCreate(r) ==
    /\ req[r].pc = "mkdir"
    /\ dirs' = dirs \union {req[r].path}
    /\ To(r, Idle)
    /\ UNCHANGED <<rows, bucket, content, marks>>

\* deleteDirectory looks the row up by path and deletes only it: the files and
\* subdirectories under the path stay as they are.
DirDelete(p) ==
    /\ p \in dirs
    /\ dirs' = dirs \ {p}
    /\ UNCHANGED <<rows, bucket, req, calls, content, contested, marks>>

-----------------------------------------------------------------------------

\* S3 or the database fails, or the process dies: the handler stops here.
Fail(r) ==
    /\ req[r] # Idle
    /\ fails < MaxFails
    /\ fails' = fails + 1
    /\ halted' = halted \union {f \in Files : Writes(req[r], f)}
    /\ To(r, Idle)
    /\ UNCHANGED <<rows, bucket, dirs, content, doomed, slashed>>

\* The routes, each on a file or directory of the caller's choice.
Routes(r) ==
    \/ \E f \in Files :
        \/ \E p \in Paths : UploadBegin(r, f, p)
        \/ \E d \in Dirs : MoveRead(r, f, d) \/ \E g \in Files : CopyRead(r, f, g, d)
        \/ DeleteRead(r, f)
    \/ \E p \in Paths : DirCheck(r, p)

Next ==
    \/ \E r \in Reqs :
        \/ Routes(r)
        \/ UploadPut(r) \/ UploadRecord(r)
        \/ MoveCopy(r) \/ MoveRemove(r) \/ MoveRepoint(r)
        \/ CopyObject(r) \/ CopyEnter(r)
        \/ DeleteObject(r) \/ DeleteMark(r)
        \/ DirCreate(r) \/ Fail(r)
    \/ \E p \in Paths : DirDelete(p)

Spec == Init /\ [][Next]_vars

-----------------------------------------------------------------------------

Holds(k, f) == bucket[k] # None /\ bucket[k] = content[f]
Active(f) == rows[f].status = "ACTIVE"

\* A file that no two requests changed together, none of whose requests stopped
\* half-way and that never was sent to a path with a leading slash: whatever
\* happened to the others, and to the file it was copied from while it was
\* copied, between its own requests the two stores agree on it.  If ACTIVE its
\* object is there with its content, and there is no object under its name but
\* the one its ACTIVE row leads to, so a DELETED file leaves nothing behind.
StoresAgree ==
    \A f \in Files \ (contested \union halted \union slashed) : ~Working(f) =>
        /\ Active(f) => Holds(rows[f].key, f)
        /\ \A k \in Key : k.name = f /\ bucket[k] # None => Active(f) /\ rows[f].key = k

\* storage.service.ts:139 "1. Copy S3 object from old key -> new key (preserving
\* filename)", :141 "3. Update DB record with new S3 key": after a move the row
\* leads to the object.
RowLeadsToObject ==
    \A f \in Files \ (contested \union halted) :
        ~Working(f) /\ Active(f) => Holds(rows[f].key, f)

\* Wherever a handler stops and whatever slashes a path begins with: as long as
\* no two requests change it together, the content of a file nobody asked to
\* delete is in the bucket under the file's name, if not always where its row
\* says (a move copies before it deletes).
NothingDestroyed ==
    \A f \in Files \ (doomed \union contested) : Active(f) =>
        \E d \in Dirs : Holds([dir |-> d, name |-> rows[f].key.name], f)

\* However requests overlap and fail, no row ever leads to another upload's
\* content: what is under a row's key is the row's own or nothing.
ContentNeverMixed ==
    \A f \in Files : rows[f] # NoRow =>
        bucket[rows[f].key] \in {content[f], None}
=============================================================================
