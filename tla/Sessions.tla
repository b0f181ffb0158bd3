------------------------------ MODULE Sessions ------------------------------
(***************************************************************************)
(* A torrent selection session: /torrent makes one and a goroutine fetches *)
(* the list of files for it, the page of the web dashboard polls it, and   *)
(* POST /api/torrent/start takes it out of TorrentSessions and makes the   *)
(* task.  An hour's timer and the sweep of cleanupTerminalTasks drop it.   *)
(*                                                                         *)
(*   internal/service: torrent_menu.go, torrent_metadata.go,               *)
(*   task_manager.go (the sweep); internal/api/torrent.go                  *)
(*                                                                         *)
(* The inline buttons of the menu are never sent, so its callbacks are not *)
(* modelled.  Transfer composes this module with what follows.             *)
(***************************************************************************)
EXTENDS Naturals, FiniteSets

CONSTANT
  Requests    \* concurrent POSTs to /api/torrent/start

VARIABLES
  session,    \* TorrentSessions[id]: is it there, and the fields the page shows
  fetch,      \* where FetchTorrentMetadataBackground is
  magnet,     \* the session's URL is a magnet link, not a local .torrent file
  listed,     \* what the fetch goroutine has parsed: a list of files, or nothing (a local)
  start,      \* [Requests -> Place]: where StartTorrentWithSelectedFiles is
  created     \* tasks made from the session (history)

sessionVars == <<session, fetch, magnet, listed, start, created>>

NoSession == [there |-> FALSE, fetching |-> FALSE, files |-> FALSE, error |-> FALSE]

SessionInit ==
  /\ session = NoSession
  /\ fetch = "idle" /\ magnet = FALSE /\ listed = FALSE
  /\ start = [r \in Requests |-> "idle"]
  /\ created = 0

\* What handleTorrentFiles answers with "loading": the page polls again.
Loading == session.there /\ ~session.files /\ ~session.error

CreateTorrentSession ==
  /\ fetch = "idle"
  /\ session' = [NoSession EXCEPT !.there = TRUE, !.fetching = TRUE]
  /\ fetch' = "begin"
  /\ magnet' \in BOOLEAN
  /\ UNCHANGED <<listed, start, created>>

-----------------------------------------------------------------------------
(* The fetch goroutine.                                                    *)

\* It looks the session up; a dropped one needs no fetch.
FetchBegins ==
  /\ fetch = "begin"
  /\ fetch' = IF session.there THEN "mark" ELSE "over"
  /\ UNCHANGED <<session, magnet, listed, start, created>>

\* IsFetching is set on the object, dropped from the map or not.
MarkFetching ==
  /\ fetch = "mark"
  /\ session' = [session EXCEPT !.fetching = session.there]
  /\ fetch' = IF magnet THEN "magnet" ELSE "parse"
  /\ UNCHANGED <<magnet, listed, start, created>>

\* fetchMagnetMetadata: aria2c finds the metadata within five minutes, or there is
\* no .torrent file afterwards (or no directory to put it in).
FetchMagnet ==
  /\ fetch = "magnet"
  /\ fetch' \in {"parse", "failed"}
  /\ UNCHANGED <<session, magnet, listed, start, created>>

\* parseTorrentMetadataFile: no file, a failing aria2c or an empty listing give nil.
ParseMetadata ==
  /\ fetch = "parse"
  /\ listed' \in BOOLEAN
  /\ fetch' = "finalize"
  /\ UNCHANGED <<session, magnet, start, created>>

\* A finalizeMetadataFetch that reports no error for an empty listing.
FinalizeSilently ==
  /\ fetch = "finalize"
  /\ session' = IF session.there THEN [session EXCEPT !.fetching = FALSE, !.files = listed]
                                 ELSE session
  /\ fetch' = "over" /\ listed' = FALSE
  /\ UNCHANGED <<magnet, start, created>>

FinalizeMetadataFetch ==
  /\ fetch = "finalize"
  /\ session' = IF session.there
                  THEN [session EXCEPT !.fetching = FALSE, !.files = listed, !.error = ~listed]
                  ELSE session
  /\ fetch' = "over" /\ listed' = FALSE
  /\ UNCHANGED <<magnet, start, created>>

UpdateSessionError ==
  /\ fetch = "failed"
  /\ session' = IF session.there
                  THEN [session EXCEPT !.fetching = FALSE, !.error = TRUE]
                  ELSE session
  /\ fetch' = "over"
  /\ UNCHANGED <<magnet, listed, start, created>>

Fetch == FetchBegins \/ MarkFetching \/ FetchMagnet \/ ParseMetadata
           \/ FinalizeMetadataFetch \/ UpdateSessionError

-----------------------------------------------------------------------------
(* The end of a session.                                                   *)

\* The timer of CreateTorrentSession.
Expire ==
  /\ session.there
  /\ session' = NoSession
  /\ UNCHANGED <<fetch, magnet, listed, start, created>>

\* cleanupTerminalTasks keeps the sessions whose key is a task id; a session's own
\* id never is one, so the next sweep drops it, in use or not.
Sweep ==
  /\ session.there
  /\ session' = NoSession
  /\ UNCHANGED <<fetch, magnet, listed, start, created>>

\* A look-up that leaves the session in the map.
TakeSessionShared(r) ==
  /\ start[r] = "idle"
  /\ start' = [start EXCEPT ![r] = IF session.there THEN "taken" ELSE "missing"]
  /\ UNCHANGED <<session, fetch, magnet, listed, created>>

\* StartTorrentWithSelectedFiles, under the lock: look up and delete.  The page does
\* not have to wait for the listing.
TakeSession(r) ==
  /\ start[r] = "idle"
  /\ start' = [start EXCEPT ![r] = IF session.there THEN "taken" ELSE "missing"]
  /\ session' = NoSession
  /\ UNCHANGED <<fetch, magnet, listed, created>>

\* CreateTask accepts the selection ...
StartCreates(r) ==
  /\ start[r] = "taken"
  /\ start' = [start EXCEPT ![r] = "created"]
  /\ created' = created + 1
  /\ UNCHANGED <<session, fetch, magnet, listed>>

\* ... or refuses it (rate limit): the session is gone and the page is told success.
StartRefused(r) ==
  /\ start[r] = "taken"
  /\ start' = [start EXCEPT ![r] = "refused"]
  /\ UNCHANGED <<session, fetch, magnet, listed, created>>

\* A restart forgets the sessions and whoever was working on them.
SessionsLost ==
  /\ session' = NoSession
  /\ fetch' = "over" /\ listed' = FALSE
  /\ start' = [r \in Requests |-> IF start[r] \in {"idle", "taken"} THEN "missing" ELSE start[r]]
  /\ UNCHANGED <<magnet, created>>

SessionTypeOK ==
  /\ session \in [there : BOOLEAN, fetching : BOOLEAN, files : BOOLEAN, error : BOOLEAN]
  /\ fetch \in {"idle", "begin", "mark", "magnet", "parse", "finalize", "failed", "over"}
  /\ magnet \in BOOLEAN /\ listed \in BOOLEAN
  /\ start \in [Requests -> {"idle", "taken", "created", "refused", "missing"}]
  /\ created \in 0..1
=============================================================================
