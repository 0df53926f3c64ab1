----------------------------- MODULE CloudPhotos ----------------------------
(***************************************************************************)
(* The photos of a property: the Google Drive connection and the photo     *)
(* endpoints of cloud_routes.py over cloud/drive.py, the gallery that      *)
(* scripts/import_wp_properties.py copies, and the share packs of          *)
(* collage_service.py with their cache.                                    *)
(*                                                                         *)
(* Drive and the database are changed by separate steps of a request, other*)
(* requests run at every await in between, a call to Drive may be carried  *)
(* out although its answer never comes, and the process may stop.  A photo *)
(* row is the number of its Drive file, as every row names a file of its   *)
(* own.                                                                    *)
(***************************************************************************)
EXTENDS PhotoSelect

CONSTANTS
  Requests,             \* request slots
  Contents,             \* image contents
  NoContent,            \* none of them
  dhash,                \* the hash of every content
  MaxUrls,              \* bound: URLs of an import
  MaxTokens,            \* bound: refresh tokens granted
  MaxFiles,             \* bound: files created in Drive
  MAX_CANDIDATE_PHOTOS, \* photos a pack is chosen from
  PACK_CACHE_MAX        \* packs the cache holds

ASSUME CloudPhotosAssumption ==
  /\ IsFiniteSet(Contents) /\ NoContent \notin Contents /\ dhash \in [Contents -> Hash]
  /\ MaxUrls \in Nat \ {0} /\ MaxTokens \in Nat \ {0} /\ MaxFiles \in Nat
  /\ MAX_CANDIDATE_PHOTOS \in Nat \ {0} /\ PACK_CACHE_MAX \in Nat \ {0}

VARIABLES
  connection, \* the row of cloud_connections and its token, row 0 for none
  tokens,     \* refresh tokens granted so far
  revoked,    \* the ones Google no longer accepts
  property,   \* the property exists
  rows,       \* its rows of cloud_photos, oldest first
  files,      \* the files ever created in Drive
  cache,      \* _pack_cache, oldest first
  requests,   \* every request: what it does and how far it is
  loose       \* history: files and tokens that a failure took from the database

vars == <<connection, tokens, revoked, property, rows, files, cache, requests, loose>>

-----------------------------------------------------------------------------
Token == 0 .. MaxTokens
File == 1 .. Len(files)
FileRecord == [content : Contents, trashed : BOOLEAN]
Connection == [row : Token, token : Token]
NotConnected == [row |-> 0, token |-> 0]
Pack == [tiles : Seq(File), photos : Seq(File)]
Entry == [key : SUBSET File, pack : Pack]

Phase == { "idle", "connect", "unlink", "next", "expired", "send", "commit",
           "trash", "remove", "fetch" }

\* copy    it is the script, which knows the contents it has found
\* again   it sends a photo for the second time
Request == [ at : Phase, row : Token, token : Token, content : Contents \cup {NoContent},
             file : 0 .. Len(files), todo : 0 .. MaxUrls, expired : BOOLEAN,
             copy : BOOLEAN, known : SUBSET Contents, again : BOOLEAN, key : Seq(File) ]
Idle == [ at |-> "idle", row |-> 0, token |-> 0, content |-> NoContent, file |-> 0,
          todo |-> 0, expired |-> FALSE, copy |-> FALSE, known |-> {}, again |-> FALSE,
          key |-> <<>> ]

\* The elements of a sequence that are in a set, in their order.
Only(s, S) ==
  LET only[i \in Nat] == IF i = 0 THEN <<>>
                         ELSE IF s[i] \in S THEN Append(only[i - 1], s[i]) ELSE only[i - 1]
  IN only[Len(s)]

Stored == { files[f].content : f \in ToSet(rows) }
Hashes(shown) == [i \in DOMAIN shown |-> dhash[files[shown[i]].content]]
At(q, where) == requests[q].at = where

\* The request starts; it goes on; it has answered, one way or the other.
Begin(q, r) == At(q, "idle") /\ requests' = [requests EXCEPT ![q] = r]
Go(q, r) == requests' = [requests EXCEPT ![q] = r]
End(q) == Go(q, Idle)

-----------------------------------------------------------------------------
(* The calls of cloud/drive.py.                                            *)

\* Every call first exchanges the refresh token, unless Google has revoked it.
Accepted(q) == requests[q].token \notin revoked

\* How a call may end: rejected, answered with another error or not carried out, or
\* carried out, with the answer or without it.
Outcome(q) == {"rejected", "failed", "silent"} \cup IF Accepted(q) THEN {"done", "lost"} ELSE {}

\* _find_or_create_folder: a folder whose answer was lost is found by the next call.
FolderOutcome(q) == Outcome(q) \ {"lost"}

\* The state in which the calls leave Drive and Google.
Create(q) == files' = Append(files, [content |-> requests[q].content, trashed |-> FALSE])
Trashed(f) == [files EXCEPT ![f].trashed = TRUE]
Granted == tokens + 1
Revoked(token) == revoked \cup {token}

\* The ones of some files that can be had.
Downloads(q, wanted) == IF Accepted(q) THEN SUBSET wanted ELSE {{}}

-----------------------------------------------------------------------------
\* start_oauth, and oauth_callback up to its commit: Google has granted a token,
\* the root folder is there, and the connection of now was read.  A login that is
\* denied, expires or fails before that changes nothing but its own state row.
Login(q) ==
  /\ tokens < MaxTokens
  /\ tokens' = Granted
  /\ Begin(q, [Idle EXCEPT !.at = "connect", !.token = Granted, !.row = connection.row])
  /\ UNCHANGED <<connection, revoked, property, rows, files, cache, loose>>

\* The row is inserted, its provider being unique, or the row that was read is
\* updated, if it is still there.
Connect(q) ==
  /\ At(q, "connect")
  /\ IF requests[q].row # connection.row THEN End(q) /\ UNCHANGED connection
     ELSE /\ End(q)
          /\ connection' = [ row |-> IF connection.row = 0 THEN requests[q].token ELSE connection.row,
                             token |-> requests[q].token ]
  /\ UNCHANGED <<tokens, revoked, property, rows, files, cache, loose>>

\* oauth_disconnect: the answer of the revocation is not looked at, so the token
\* may still be good; without an answer the request fails, and all that is left
\* of it is that the token may be revoked.
Disconnect(q) ==
  /\ connection # NotConnected
  /\ At(q, "idle")
  /\ \/ /\ Go(q, [Idle EXCEPT !.at = "unlink", !.row = connection.row])
        /\ revoked' \in {revoked, Revoked(connection.token)}
        /\ UNCHANGED loose
     \/ /\ revoked' = Revoked(connection.token)
        /\ loose' = loose \cup {<<"token", connection.token>>}
        /\ UNCHANGED requests
  /\ UNCHANGED <<connection, tokens, property, rows, files, cache>>

Bug_Unlinked(q) == connection
Unlinked(q) == IF connection.row = requests[q].row THEN NotConnected ELSE connection

Unlink(q) ==
  /\ At(q, "unlink")
  /\ connection' = Unlinked(q)
  /\ End(q)
  /\ UNCHANGED <<tokens, revoked, property, rows, files, cache, loose>>

-----------------------------------------------------------------------------
\* Done with an image: the loop of an import goes on, if URLs are left.
Turn(request) ==
  IF request.todo > 0
  THEN [request EXCEPT !.at = "next", !.content = NoContent, !.file = 0, !.again = FALSE]
  ELSE Idle
NextImage(q) ==
  Go(q, Turn([ requests[q] EXCEPT
                 !.known = IF requests[q].copy THEN @ \cup {requests[q].content} ELSE @ ]))

\* _store_photo_bytes, for the request as it is then: the same bytes are stored
\* once.
StoreBytes(q, request, c) ==
  Go(q, IF c \in Stored THEN Turn(request) ELSE [request EXCEPT !.at = "send", !.content = c])

\* upload_photo and import_photos_from_urls: both need the property and the
\* connection, and keep what they read of them.
Upload(q) ==
  /\ property /\ connection # NotConnected
  /\ At(q, "idle")
  /\ \E c \in Contents : StoreBytes(q, [Idle EXCEPT !.token = connection.token], c)
  /\ UNCHANGED <<connection, tokens, revoked, property, rows, files, cache, loose>>

Import(q) ==
  /\ property /\ connection # NotConnected
  /\ Begin(q, [Idle EXCEPT !.at = "next", !.todo = MaxUrls, !.token = connection.token])
  /\ UNCHANGED <<connection, tokens, revoked, property, rows, files, cache, loose>>

\* An image of a batch fails: its transaction is rolled back, which expires the
\* property and the connection in memory, and the loop goes on.
Skip(q, request) == Go(q, Turn([request EXCEPT !.expired = TRUE]))

\* The next URL of the batch: refused, not to be had, or an image.  An image
\* after a failure ends the request, as reading an expired object raises.
NextUrl(q) ==
  /\ At(q, "next") /\ ~ requests[q].copy
  /\ LET request == [requests[q] EXCEPT !.todo = @ - 1]
     IN \/ Skip(q, request)
        \/ requests[q].expired /\ Go(q, [Idle EXCEPT !.at = "expired"])
        \/ /\ ~ requests[q].expired
           /\ \E c \in Contents : StoreBytes(q, request, c)
  /\ UNCHANGED <<connection, tokens, revoked, property, rows, files, cache, loose>>

\* The request that raised is answered with an error.
Abort(q) ==
  /\ At(q, "expired")
  /\ End(q)
  /\ UNCHANGED <<connection, tokens, revoked, property, rows, files, cache, loose>>

\* The last image of a request needs no more of what it has read.
Kept(request) ==
  IF request.todo > 0 THEN request
  ELSE [Idle EXCEPT !.content = request.content, !.copy = request.copy]

\* ensure_subfolder and upload_file.  A rejected call ends a batch too; of another
\* failure of a batch the loop goes on, and the script sends the photo once more.
Sent(q, outcome) ==
  LET request == requests[q]
  IN /\ IF outcome \in {"done", "lost"} THEN Len(files) < MaxFiles /\ Create(q) ELSE UNCHANGED files
     /\ loose' = IF outcome = "lost" THEN loose \cup {<<"file", Len(files) + 1>>} ELSE loose
     /\ IF outcome = "done"
        THEN Go(q, [Kept(request) EXCEPT !.at = "commit", !.file = Len(files) + 1, !.again = FALSE])
        ELSE IF request.copy
        THEN Go(q, IF request.again THEN Turn(request) ELSE [request EXCEPT !.again = TRUE])
        ELSE IF outcome = "rejected" THEN End(q)
        ELSE Skip(q, request)

Send(q) ==
  /\ At(q, "send")
  /\ \E folder \in IF requests[q].copy THEN {"done"} ELSE FolderOutcome(q), upload \in Outcome(q) :
       Sent(q, IF folder = "done" THEN upload ELSE folder)
  /\ UNCHANGED <<connection, tokens, revoked, property, rows, cache>>

\* The commit of the row, which the foreign key or the unique checksum refuses.
Refused(q) == ~ property \/ requests[q].content \in Stored

Commit(q) ==
  /\ At(q, "commit")
  /\ IF Refused(q)
     THEN /\ End(q)
          /\ loose' = loose \cup {<<"file", requests[q].file>>}
          /\ UNCHANGED rows
     ELSE /\ NextImage(q)
          /\ rows' = Append(rows, requests[q].file)
          /\ UNCHANGED loose
  /\ UNCHANGED <<connection, tokens, revoked, property, files, cache>>

-----------------------------------------------------------------------------
\* _copy_photos of the script, for the listing of the property, which needs the same;
\* once the folder is there the checksums are read, for the whole gallery.  What
\* changes before that can fail the calls that follow, as they can anyway.  The script
\* is run by hand, and not twice at a time.
Copy(q) ==
  /\ property /\ connection # NotConnected
  /\ \A p \in Requests : ~ requests[p].copy
  /\ Begin(q, [Idle EXCEPT !.at = "next", !.copy = TRUE, !.todo = MaxUrls, !.known = Stored,
                 !.token = connection.token])
  /\ UNCHANGED <<connection, tokens, revoked, property, rows, files, cache, loose>>

\* A photo that is not to be had, or is known, is left.
NextPhoto(q) ==
  /\ At(q, "next") /\ requests[q].copy
  /\ LET request == [requests[q] EXCEPT !.todo = @ - 1]
     IN \/ Go(q, Turn(request))
        \/ \E c \in Contents \ requests[q].known :
             Go(q, [request EXCEPT !.at = "send", !.content = c])
  /\ UNCHANGED <<connection, tokens, revoked, property, rows, files, cache, loose>>

-----------------------------------------------------------------------------
\* The row is still to be deleted; a bug: it is not.
Bug_Removal(f) == Idle
Removal(f) == [Idle EXCEPT !.at = "remove", !.file = f]

\* delete_photo; without a connection the file stays where it is.
Delete(q) ==
  /\ \E f \in ToSet(rows) :
       /\ Begin(q, [Idle EXCEPT !.file = f, !.token = connection.token,
                      !.at = IF connection = NotConnected THEN "remove" ELSE "trash"])
       /\ loose' = IF connection = NotConnected THEN loose \cup {<<"file", f>>} ELSE loose
  /\ UNCHANGED <<connection, tokens, revoked, property, rows, files, cache>>

\* trash_file: done, refused (which is ignored), or without an answer, which
\* ends the request with the row still there and the file trashed or not.
Trash(q) ==
  /\ At(q, "trash")
  /\ \E outcome \in Outcome(q) :
       LET f == requests[q].file
       IN /\ files' = IF outcome \in {"done", "lost"} THEN Trashed(f) ELSE files
          /\ loose' = IF outcome \in {"rejected", "failed", "lost"} THEN loose \cup {<<"file", f>>}
                      ELSE loose
          /\ IF outcome \in {"silent", "lost"} THEN End(q) ELSE Go(q, Removal(f))
  /\ UNCHANGED <<connection, tokens, revoked, property, rows, cache>>

RemoveRow(q) ==
  /\ At(q, "remove")
  /\ rows' = Only(rows, File \ {requests[q].file})
  /\ End(q)
  /\ UNCHANGED <<connection, tokens, revoked, property, files, cache, loose>>

\* The property is deleted elsewhere: its photo rows go with it.
DeleteProperty ==
  /\ property
  /\ property' = FALSE
  /\ rows' = <<>>
  /\ loose' = loose \cup { <<"file", f>> : f \in ToSet(rows) }
  /\ UNCHANGED <<connection, tokens, revoked, files, cache, requests>>

-----------------------------------------------------------------------------
\* _candidate_photos, and the key of the pack they make.
Candidate == SubSeq(rows, 1, Min({Len(rows), MAX_CANDIDATE_PHOTOS}))
Bug_Key(photos) == {Head(photos)}
Key(photos) == ToSet(photos)

\* The entries of the cache with another key.
OtherEntries(key) == { e \in ToSet(cache) : e.key # key }

\* render_share_pack, when the cache has no entry of the key, or an old one; a
\* younger one is served as it is.
ReadPack(q) ==
  /\ connection # NotConnected
  /\ rows # <<>>
  /\ Begin(q, [Idle EXCEPT !.at = "fetch", !.key = Candidate,
                 !.token = connection.token])
  /\ cache' = Only(cache, OtherEntries(Key(Candidate)))
  /\ UNCHANGED <<connection, tokens, revoked, property, rows, files, loose>>

\* _cache_put drops the oldest entry of a full cache, then stores the pack.
CachePut(key, pack) ==
  LET room == IF Len(cache) >= PACK_CACHE_MAX THEN Tail(cache) ELSE cache
  IN cache' = Append(Only(room, OtherEntries(key)), [key |-> key, pack |-> pack])

Select(shown, indices) == [i \in DOMAIN indices |-> shown[indices[i]]]
Rendered(shown) ==
  [tiles |-> Select(shown, Tiles(Hashes(shown))), photos |-> Select(shown, Branded(Hashes(shown)))]

\* _download_blobs skips the files that cannot be had, and _render_pack_sync
\* makes the pack of the others; without any there is none.
FetchPack(q) ==
  /\ At(q, "fetch")
  /\ LET key == requests[q].key
     IN \/ End(q) /\ UNCHANGED cache
        \/ /\ \E got \in Downloads(q, ToSet(key)) :
                /\ got # {}
                /\ LET pack == Rendered(Only(key, got))
                   IN /\ End(q)
                      /\ CachePut(Key(key), pack)
  /\ UNCHANGED <<connection, tokens, revoked, property, rows, files, loose>>

-----------------------------------------------------------------------------
\* What a process was doing ends where it is.
StopOf(stopped) ==
  /\ requests' = [q \in Requests |-> IF q \in stopped THEN Idle ELSE requests[q]]
  /\ loose' = loose \cup { <<"file", requests[q].file>> : q \in { p \in stopped : requests[p].at \in {"commit", "remove"} } }
                    \cup { <<"token", t>> : t \in IF \E q \in stopped : At(q, "unlink") THEN revoked ELSE {} }
  /\ UNCHANGED <<connection, tokens, revoked, property, rows, files>>

\* The server stops, with its requests and the cache; or the script does, which is a
\* process of its own.
Script == { q \in Requests : requests[q].copy }
Crash == StopOf(Requests \ Script) /\ cache' = <<>>
ScriptStops == Script # {} /\ StopOf(Script) /\ UNCHANGED cache

\* Drive is connected, as it is again after a disconnect and a login, and the
\* property has no photos.
Init ==
  /\ connection = [row |-> 1, token |-> 1] /\ tokens = 1
  /\ revoked = {} /\ property = TRUE /\ rows = <<>> /\ files = <<>> /\ cache = <<>>
  /\ requests = [q \in Requests |-> Idle]
  /\ loose = {}

Next ==
  \/ \E q \in Requests :
       \/ Login(q) \/ Connect(q) \/ Disconnect(q) \/ Unlink(q)
       \/ Upload(q) \/ Import(q) \/ NextUrl(q) \/ Abort(q) \/ Send(q) \/ Commit(q)
       \/ Copy(q) \/ NextPhoto(q)
       \/ Delete(q) \/ Trash(q) \/ RemoveRow(q)
       \/ ReadPack(q) \/ FetchPack(q)
  \/ DeleteProperty \/ Crash \/ ScriptStops

Spec == Init /\ [][Next]_vars

-----------------------------------------------------------------------------
\* The types of the rows, the files, the cache and the requests.
TypeOK ==
  /\ connection \in Connection /\ tokens \in Token /\ revoked \subseteq Token
  /\ property \in BOOLEAN
  /\ rows \in Seq(File) /\ files \in Seq(FileRecord)
  /\ cache \in Seq(Entry) /\ Len(cache) <= PACK_CACHE_MAX
  /\ requests \in [Requests -> Request]
  /\ loose \subseteq {"file", "token"} \X Nat

\* cloud_routes.py:420, and delete_photo, which trashes before it removes: a row
\* and its Drive file stand or fall together.  A listed photo has its file, unless
\* its deletion is between the two or failed there; a file that is not listed is
\* trashed or about to be listed, unless an answer was lost, a commit or the trash
\* was refused, the process stopped, or the connection or the property was gone.
FilesAccounted ==
  \A f \in File :
    \/ <<"file", f>> \in loose
    \/ IF f \in ToSet(rows)
       THEN files[f].trashed => \E q \in Requests : At(q, "remove") /\ requests[q].file = f
       ELSE files[f].trashed \/ \E q \in Requests : At(q, "commit") /\ requests[q].file = f

\* Whatever logins and disconnects overlap, the stored token is one Google takes,
\* unless the disconnect that revoked it has its row yet to delete, or failed.
TokenWorks ==
  connection.token \in revoked =>
    \/ <<"token", connection.token>> \in loose
    \/ \E q \in Requests : At(q, "unlink") /\ requests[q].row = connection.row

\* collage_service.py:44: "add/delete/replace changes the key": the pack the cache
\* holds for the photos of now shows some of them, and none that is gone.
PackShowsListed ==
  rows # <<>> =>
    \A i \in DOMAIN cache :
      cache[i].key = Key(Candidate) =>
        /\ cache[i].pack.tiles # <<>>
        /\ ToSet(cache[i].pack.tiles) \cup ToSet(cache[i].pack.photos) \subseteq ToSet(rows)
=============================================================================
