------------------------------- MODULE Uploads -------------------------------
(***************************************************************************)
(* Files arriving over the network: WebSocket and form uploads             *)
(* (CrossPointWebServer), WebDAV PUT, and the requests that delete, rename,*)
(* move or copy files meanwhile (CrossPointWebServer, WebDAVHandler).      *)
(*                                                                         *)
(* One task serves both servers in turn.  An HTTP request is read and      *)
(* answered within one handleClient(), so nothing interleaves with it but  *)
(* a loss of power; a WebSocket upload spans many calls, and whole         *)
(* requests of other clients come between its messages.                    *)
(***************************************************************************)
EXTENDS Integers, Sequences

CONSTANTS
    Name,     \* paths of books in folders that exist and are not protected
    Client,   \* WebSocket connections
    Body,     \* what clients upload
    Size,     \* Size[b]: the pieces of body b
    None      \* no file, no cache, no owner

ASSUME NameAssumption == None \notin Name \cup Client \cup Body
ASSUME BodyAssumption == Size \in [Body -> Nat]

VARIABLES
    card,      \* card[n]: the file called n
    temp,      \* the temporary file of the PUT being served (name.davtmp)
    cache,     \* cache[n]: the book whose cache is under the hash of n
    up,        \* the servers are running
    ws,        \* the WebSocket upload in progress (wsUploadInProgress: it has an owner)
    says,      \* says[c]: what connection c sends, from its last START
    req,       \* the HTTP request being served
    promised,  \* history: names a client was told hold its upload, and no request has touched since
    strayed    \* history: names whose upload lost its file to a request, until an upload of it is answered again

answers == <<promised, strayed>>
vars == <<card, temp, cache, up, ws, says, req, answers>>

\* A file: the body it was created for, and the pieces in it.
File == [of : Body, bytes : Seq(Body)]
ASSUME NoFileAssumption == None \notin File

FitsBody(f) == f # None => Len(f.bytes) <= Size[f.of]
Whole(b) == [i \in 1 .. Size[b] |-> b]
IsWhole(f) == f # None /\ f.bytes = Whole(f.of)
Empty(b) == [of |-> b, bytes |-> <<>>]
Add(f, b, k) == [f EXCEPT !.bytes = @ \o [i \in 1 .. k |-> b]]

\* at: what the open file is called now, if it still exists.
NoUpload == [owner |-> None, path |-> None, at |-> None, body |-> None, got |-> 0]
NoRequest == [op |-> "none", name |-> None, dst |-> None, body |-> None, got |-> 0, ok |-> TRUE]

TypeOK ==
    /\ card \in [Name -> File \cup {None}]
    /\ temp \in File \cup {None}
    /\ FitsBody(temp) /\ \A n \in Name : FitsBody(card[n])
    /\ cache \in [Name -> Body \cup {None}]
    /\ up \in BOOLEAN
    /\ ws \in [owner : Client \cup {None}, path : Name \cup {None}, at : Name \cup {None},
               body : Body \cup {None}, got : Nat]
    /\ says \in [Client -> Body \cup {None}]
    /\ req \in [op : {"none", "form", "formEnd", "put", "putEnd", "putAnswer", "move", "copy", "clear"},
                name : Name \cup {None}, dst : Name \cup {None}, body : Body \cup {None},
                got : Nat, ok : BOOLEAN]
    /\ promised \subseteq Name /\ strayed \subseteq Name

-----------------------------------------------------------------------------
Init ==
    /\ card = [n \in Name |-> None] /\ temp = None
    /\ cache = [n \in Name |-> None]
    /\ up = FALSE
    /\ ws = NoUpload /\ says = [c \in Client |-> None]
    /\ req = NoRequest
    /\ promised = {} /\ strayed = {}

\* Between two calls of handleClient()'s loops.
Serving == up /\ req.op = "none"

Put(files, n, f) == [files EXCEPT ![n] = f]
ClearBookCache(n) == cache' = [cache EXCEPT ![n] = None]

\* A client hears that the upload of n is complete: DONE, 200, 201 or 204.
Answered(n) ==
    /\ promised' = promised \cup {n}
    /\ strayed' = IF ws.path = n /\ ws.at # n THEN strayed ELSE strayed \ {n}

\* The file called n is called m now, or nothing any more: also the file of the upload in progress.
Follow(n, m) ==
    /\ ws' = IF ws.at = n THEN [ws EXCEPT !.at = m] ELSE ws
    /\ strayed' = IF ws.at = n /\ ws.path = n THEN strayed \cup {n} ELSE strayed

-----------------------------------------------------------------------------
(* The WebSocket server: onWebSocketEvent().                               *)

\* A START while an upload is active, of a name that exists, or whose file cannot be opened.
\* The client may send its data all the same; an owner goes on with its own.
WsStartRefused(c, b) ==
    /\ Serving
    /\ says' = IF ws.owner = c THEN says ELSE [says EXCEPT ![c] = b]
    /\ UNCHANGED <<card, temp, cache, up, ws, req, answers>>

WsStart(c, n, b) ==
    /\ Serving /\ ws.owner = None /\ card[n] = None
    /\ says' = [says EXCEPT ![c] = b]
    /\ card' = Put(card, n, Empty(b))
    /\ IF Size[b] = 0
       THEN /\ ClearBookCache(n)
            /\ Answered(n)
            /\ UNCHANGED ws
       ELSE /\ ws' = [owner |-> c, path |-> n, at |-> n, body |-> b, got |-> 0]
            /\ UNCHANGED <<cache, answers>>
    /\ UNCHANGED <<temp, up, req>>

\* abortWsUpload() removes what is called wsUploadPath/wsUploadFileName, whatever that is by now.
AbortWsUpload ==
    /\ card' = Put(card, ws.path, None)
    /\ ws' = NoUpload
    /\ UNCHANGED <<cache, answers>>

\* faulty: any connection's data is taken
WsTakesAll(c) == ws.owner # None

WsTakes(c) == ws.owner = c

OverflowsUnseen(k) == k > Size[ws.body]   \* faulty: what has arrived is not counted

Overflows(k) == k > Size[ws.body] - ws.got

\* k pieces arrive.  What is written to a file that was deleted is lost, and the client hears DONE all the same.
WsBinary(c, k) ==
    /\ Serving /\ says[c] # None /\ WsTakes(c)
    /\ IF Overflows(k)
       THEN AbortWsUpload
       ELSE \/ AbortWsUpload          \* the write is short
            \/ /\ card' = IF ws.at = None THEN card ELSE [card EXCEPT ![ws.at] = Add(@, says[c], k)]
               /\ IF ws.got + k < Size[ws.body]
                  THEN /\ ws' = [ws EXCEPT !.got = @ + k]
                       /\ UNCHANGED <<cache, answers>>
                  ELSE /\ ws' = NoUpload
                       /\ ClearBookCache(ws.path)
                       /\ Answered(ws.path)
    /\ UNCHANGED <<temp, up, says, req>>

\* DISCONNECTED; others' uploads are left alone.
WsDisconnected(c) ==
    /\ Serving /\ says[c] # None
    /\ says' = [says EXCEPT ![c] = None]
    /\ IF WsTakes(c) THEN AbortWsUpload ELSE UNCHANGED <<card, ws, answers, cache>>
    /\ UNCHANGED <<temp, up, req>>

-----------------------------------------------------------------------------
(* Form uploads: handleUpload(), handleUploadPost().                       *)

\* faulty: an existing file is opened and truncated
FormOpensAny(n) == TRUE

FormOpens(n) == card[n] = None

\* ok: the file is open and no error is recorded.
FormStart(n, b) ==
    /\ Serving
    /\ \E opened \in BOOLEAN :
        /\ opened => FormOpens(n)
        /\ req' = [NoRequest EXCEPT !.op = "form", !.name = n, !.body = b, !.ok = opened]
        /\ card' = IF opened THEN Put(card, n, Empty(b)) ELSE card
    /\ UNCHANGED <<temp, cache, up, ws, says, answers>>

\* A full buffer is flushed.  If that fails the file is closed and stays as it is.
FormWrite ==
    /\ req.op = "form" /\ req.got < Size[req.body]
    /\ \E ok \in BOOLEAN :
        /\ ok => req.ok
        /\ card' = IF ok THEN [card EXCEPT ![req.name] = Add(@, req.body, 1)] ELSE card
        /\ req' = [req EXCEPT !.got = @ + 1, !.ok = ok]
    /\ UNCHANGED <<temp, cache, up, ws, says, answers>>

\* UPLOAD_FILE_END, and the last flush with it; the file is closed.
FormEnd ==
    /\ req.op = "form" /\ req.got >= Size[req.body] - 1
    /\ \E ok \in BOOLEAN :
        /\ ok => req.ok
        /\ card' = IF ok THEN [card EXCEPT ![req.name] =
                                 Add(@, req.body, Size[req.body] - req.got)] ELSE card
        /\ req' = [req EXCEPT !.op = "formEnd", !.ok = ok]
    /\ UNCHANGED <<temp, cache, up, ws, says, answers>>

\* The cache is cleared and the client is told.
FormAnswer ==
    /\ req.op = "formEnd"
    /\ req' = NoRequest
    /\ IF req.ok THEN /\ ClearBookCache(req.name)
                      /\ Answered(req.name)
                 ELSE UNCHANGED <<cache, answers>>
    /\ UNCHANGED <<card, temp, up, ws, says>>

FormAborted ==
    /\ req.op = "form"
    /\ card' = IF req.ok THEN Put(card, req.name, None) ELSE card
    /\ req' = NoRequest
    /\ UNCHANGED <<temp, cache, up, ws, says, answers>>

-----------------------------------------------------------------------------
(* WebDAV PUT: raw(), handlePut().                                         *)

\* Also when the temporary file cannot be created.
PutStart(n, b) ==
    /\ Serving
    /\ \E ok \in BOOLEAN :
        /\ temp' = IF ok THEN Empty(b) ELSE None
        /\ req' = [NoRequest EXCEPT !.op = "put", !.name = n, !.body = b, !.ok = ok]
    /\ UNCHANGED <<card, cache, up, ws, says, answers>>

\* After a short write nothing more is written.
PutWrite ==
    /\ req.op = "put" /\ req.got < Size[req.body]
    /\ \E ok \in BOOLEAN :
        /\ ok => req.ok
        /\ temp' = IF ok THEN Add(temp, req.body, 1) ELSE temp
        /\ req' = [req EXCEPT !.got = @ + 1, !.ok = ok]
    /\ UNCHANGED <<card, cache, up, ws, says, answers>>

\* faulty: the old file makes room although a write was short
PutReplacesAlways == req.op = "put" /\ req.got = Size[req.body]

PutReplaces == req.op = "put" /\ req.got = Size[req.body] /\ req.ok

\* RAW_END: the old file, if any, makes room for the new one.
PutRemovesOld ==
    /\ PutReplaces
    /\ card' = Put(card, req.name, None)
    /\ Follow(req.name, None)
    /\ promised' = promised \ {req.name}
    /\ req' = [req EXCEPT !.op = "putEnd"]
    /\ UNCHANGED <<temp, cache, up, says>>

\* The temporary file takes its name; if it cannot be renamed it is removed.
PutRenames ==
    /\ req.op = "putEnd"
    /\ \E ok \in BOOLEAN :
        /\ card' = IF ok THEN Put(card, req.name, temp) ELSE card
        /\ req' = [req EXCEPT !.op = "putAnswer", !.ok = ok]
    /\ temp' = None
    /\ UNCHANGED <<cache, up, ws, says, answers>>

\* RAW_END after a write failed; handlePut() removes what there is of the new file.
PutFailed ==
    /\ req.op = "put" /\ req.got = Size[req.body] /\ ~req.ok
    /\ temp' = None
    /\ req' = NoRequest
    /\ UNCHANGED <<card, cache, up, ws, says, answers>>

PutAnswer ==
    /\ req.op = "putAnswer"
    /\ req' = NoRequest
    /\ IF req.ok THEN /\ ClearBookCache(req.name)
                      /\ Answered(req.name)
                 ELSE UNCHANGED <<cache, answers>>
    /\ UNCHANGED <<card, temp, up, ws, says>>

PutAborted ==
    /\ req.op = "put"
    /\ temp' = None
    /\ req' = NoRequest
    /\ UNCHANGED <<card, cache, up, ws, says, answers>>

-----------------------------------------------------------------------------
(* Requests about files on the card.                                       *)

\* DELETE of WebDAV clears the cache first.
DavDelete(n) ==
    /\ Serving /\ card[n] # None
    /\ ClearBookCache(n)
    /\ card' = Put(card, n, None)
    /\ Follow(n, None)
    /\ promised' = promised \ {n}
    /\ UNCHANGED <<temp, up, says, req>>

\* POST /delete clears it last.
Delete(n) ==
    /\ Serving /\ card[n] # None
    /\ card' = Put(card, n, None)
    /\ Follow(n, None)
    /\ promised' = promised \ {n}
    /\ req' = [NoRequest EXCEPT !.op = "clear", !.name = n]
    /\ UNCHANGED <<temp, cache, up, says>>

DeleteClears ==
    /\ req.op = "clear"
    /\ ClearBookCache(req.name)
    /\ req' = NoRequest
    /\ UNCHANGED <<card, temp, up, ws, says, answers>>

Renamed(s, d) ==
    /\ card' = [card EXCEPT ![s] = None, ![d] = card[s]]
    /\ Follow(s, d)
    /\ promised' = promised \ {s, d}

RenameFails == UNCHANGED <<card, ws, answers>>

\* faulty: a target that exists is overwritten
RenameOver(s, d) ==
    /\ Serving /\ s # d /\ card[s] # None
    /\ ClearBookCache(s)
    /\ Renamed(s, d) \/ RenameFails
    /\ UNCHANGED <<temp, up, says, req>>

\* POST /rename and /move, which refuse a target that exists; and MOVE of WebDAV to a free name.
Rename(s, d) ==
    /\ Serving /\ card[s] # None /\ card[d] = None
    /\ ClearBookCache(s)
    /\ Renamed(s, d) \/ RenameFails
    /\ UNCHANGED <<temp, up, says, req>>

\* MOVE with Overwrite removes the target first, and clears the cache of the source only.
DavMove(s, d) ==
    /\ Serving /\ s # d /\ card[s] # None /\ card[d] # None
    /\ card' = Put(card, d, None)
    /\ Follow(d, None)
    /\ promised' = promised \ {d}
    /\ req' = [NoRequest EXCEPT !.op = "move", !.name = s, !.dst = d]
    /\ UNCHANGED <<temp, cache, up, says>>

DavMoveRenames ==
    /\ req.op = "move"
    /\ ClearBookCache(req.name)
    /\ Renamed(req.name, req.dst) \/ RenameFails
    /\ req' = NoRequest
    /\ UNCHANGED <<temp, up, says>>

\* COPY: the target is removed and created; no cache is cleared.
DavCopy(s, d) ==
    /\ Serving /\ s # d /\ card[s] # None
    /\ Follow(d, None)
    /\ promised' = promised \ {d}
    /\ \E opened \in BOOLEAN :
        /\ card' = Put(card, d, IF opened THEN Empty(card[s].of) ELSE None)
        /\ req' = IF opened THEN [NoRequest EXCEPT !.op = "copy", !.name = s, !.dst = d] ELSE NoRequest
    /\ UNCHANGED <<temp, cache, up, says>>

DavCopyWrites ==
    /\ req.op = "copy" /\ req.got < Len(card[req.name].bytes)
    /\ card' = [card EXCEPT ![req.dst] = Add(@, card[req.name].bytes[req.got + 1], 1)]
    /\ req' = [req EXCEPT !.got = @ + 1]
    /\ UNCHANGED <<temp, cache, up, ws, says, answers>>

\* All is read, or a read fails, which looks the same; after a short write the copy is removed.
DavCopyEnds ==
    /\ req.op = "copy"
    /\ card' \in {card, Put(card, req.dst, None)}
    /\ req' = NoRequest
    /\ UNCHANGED <<temp, cache, up, ws, says, answers>>

-----------------------------------------------------------------------------
(* The device.                                                             *)

StartServer ==
    /\ ~up /\ up' = TRUE
    /\ UNCHANGED <<card, temp, cache, ws, says, req, answers>>

\* Leaving on a board that does not restart (silentRestart() on touch boards, or going to
\* sleep): ~CrossPointWebServer() calls stop().
StopServer ==
    /\ Serving /\ up' = FALSE
    /\ says' = [c \in Client |-> None]
    /\ IF ws.owner # None THEN AbortWsUpload ELSE UNCHANGED <<card, ws, answers, cache>>
    /\ UNCHANGED <<temp, req>>

\* A book is opened while no server runs: what is in the cache is not compared with the file.
OpenBook(n) ==
    /\ ~up /\ IsWhole(card[n]) /\ cache[n] = None
    /\ cache' = [cache EXCEPT ![n] = card[n].of]
    /\ UNCHANGED <<card, temp, up, ws, says, req, answers>>

\* The names of the files being written.
OpenFiles == {n \in Name : \/ ws.at = n
                           \/ req.op = "form" /\ req.ok /\ req.name = n
                           \/ req.op = "copy" /\ req.dst = n}

Cut(f, k) == [f EXCEPT !.bytes = SubSeq(@, 1, IF k < Len(@) THEN k ELSE Len(@))]

\* Power loss, or the silent restart when the screen is left, which does not stop the server:
\* of a file that is open any beginning may be on the card.  A temporary file stays behind, but
\* nothing reads it and the next PUT of its name removes it: it is dropped here.
PowerLoss ==
    /\ up /\ up' = FALSE
    /\ \E k \in [Name -> UNION {0 .. Size[b] : b \in Body}] :
        card' = [n \in Name |-> IF n \in OpenFiles THEN Cut(card[n], k[n]) ELSE card[n]]
    /\ temp' = None /\ ws' = NoUpload /\ says' = [c \in Client |-> None] /\ req' = NoRequest
    /\ UNCHANGED <<cache, answers>>

-----------------------------------------------------------------------------
WebSocket ==
    \/ \E c \in Client, b \in Body : WsStartRefused(c, b)
    \/ \E c \in Client, n \in Name, b \in Body : WsStart(c, n, b)
    \/ \E c \in Client, k \in 1 .. 2 : WsBinary(c, k)
    \/ \E c \in Client : WsDisconnected(c)

Form == FormWrite \/ FormEnd \/ FormAnswer \/ FormAborted \/ \E n \in Name, b \in Body : FormStart(n, b)

DavPut ==
    \/ \E n \in Name, b \in Body : PutStart(n, b)
    \/ PutWrite \/ PutRemovesOld \/ PutRenames \/ PutFailed \/ PutAnswer \/ PutAborted

Manage ==
    \/ \E n \in Name : DavDelete(n) \/ Delete(n)
    \/ \E s, d \in Name : Rename(s, d) \/ DavMove(s, d) \/ DavCopy(s, d)
    \/ DeleteClears \/ DavMoveRenames \/ DavCopyWrites \/ DavCopyEnds

Device == StartServer \/ StopServer \/ PowerLoss \/ \E n \in Name : OpenBook(n)

Next == WebSocket \/ Form \/ DavPut \/ Manage \/ Device

Spec == Init /\ [][Next]_vars

-----------------------------------------------------------------------------
\* Every file holds bytes of one client's upload only
\* (onWebSocketEvent() takes data from the owner of the upload only, and no request writes to
\* a file another one has open).
OneClientsBytes ==
    \A f \in ({card[n] : n \in Name} \cup {temp}) \ {None} :
        \A i \in 1 .. Len(f.bytes) : f.bytes[i] = f.of

\* A name of which a client was told that its upload is complete holds the whole of it, across
\* restarts and whatever is uploaded elsewhere, and opening it shows that book and not an older
\* one, until a request about that very name (DONE, 200, 201 and 204 answers).  Excepted are names whose
\* upload lost its file to a request while it was open: its client hears DONE all the same (cpp:1766), and giving
\* it up deletes whatever has its name by then (cpp:230).
PromisedFilesLast ==
    \A n \in promised \ strayed : IsWhole(card[n]) /\ cache[n] \in {None, card[n].of}

\* A request in which the user names n as what is to be deleted, moved or replaced.
NamedByUser(n) ==
    \/ \E m \in Name : \/ DavDelete(n) \/ Delete(n) \/ Rename(n, m) \/ DavMove(m, n) \/ DavCopy(m, n)
    \/ req.op \in {"move", "copy"} /\ n \in {req.name, req.dst}

\* The abort of an upload whose file had been taken away removes what has its name since, another client's complete
\* file too, although "Incomplete WebSocket uploads are deleted on disconnect or error" (docs/webserver-endpoints.md:457).
AbortTakes(n) == ws.owner # None /\ ws.path = n /\ ws.at # n /\ ws' = NoUpload

\* A complete file, once closed, disappears from under its name by a request that says so, or to make room
\* for a whole new one that a PUT has ready in its temporary file, so that a loss of power there
\* leaves one of them (raw(): "Write to a temp file to avoid destroying the original on failed upload"),
\* or by such an abort, and by nothing else.
WholeFilesStay ==
    [][\A n \in Name \ OpenFiles : card'[n] # card[n] /\ IsWhole(card[n]) =>
          \/ NamedByUser(n)
          \/ req.op = "put" /\ req.name = n /\ IsWhole(temp) /\ temp' = temp
          \/ AbortTakes(n)]_vars

\* The ways to put books on the card implement one shelf (BookShelf): whole files that nothing is writing to appear,
\* move and go in one step each, whatever requests come between the messages of an upload and wherever the power
\* fails; a client is told of a book that is there, but for the names whose upload had strayed.
BookOf(f, open) == IF ~IsWhole(f) \/ open THEN None ELSE f.of
Books == [n \in Name |-> BookOf(card[n], n \in OpenFiles)]
Shelf == INSTANCE BookShelf WITH book <- Books, told <- promised, stray <- strayed
ImplementsBookShelf == Shelf!Spec

\* Opening a book never shows the cache of another one that was called the same before
\* (docs/webserver.md: "the matching book cache is cleared so stale metadata is not reused").
CacheFollowsFile ==
    \A n \in Name : IsWhole(card[n]) => cache[n] \in {None, card[n].of}
=============================================================================
