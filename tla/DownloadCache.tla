---------------------------- MODULE DownloadCache ---------------------------
(***************************************************************************)
(* storage/downloader.ts: one URL in the memory cache and on the disk.     *)
(* A body is known by the time it was downloaded.  On the disk it lies in  *)
(* two files, the body and the meta file with its expiry, each replaced by *)
(* a rename of a temporary file of a fixed name; readers, the cleanup of   *)
(* the disk and crashes come between the file operations.  Files of the    *)
(* old single-file format are taken as absent.                             *)
(***************************************************************************)
EXTENDS Integers

CONSTANTS
  Callers,      \* requests that may be inside downloadCache
  Ttl,          \* how long a body is good for
  MaxTime,      \* bound: the clock
  MaxRestarts   \* bound: restarts of the process

VARIABLES
  now,
  memory,     \* the entry of the memory cache: body and cachedAt, or Absent
  disk,       \* the body and the meta file
  temp,       \* their temporary files
  requests,   \* downloads under way and where each stands
  inFlight,   \* the download others join, 0 when none
  call,       \* where each call stands, with the meta file it read
  oldest,     \* history: the greatest age of a body given out as not expired
  cleaning,   \* cleanupDiskCache: the file of this entry it unlinks next
  restarts

vars == <<now, memory, disk, temp, requests, inFlight, call, oldest, cleaning, restarts>>

Absent == -1
NoEntry == [body |-> Absent, cachedAt |-> Absent]
NoFiles == [body |-> Absent, meta |-> Absent]
Over == [pc |-> "over", body |-> Absent]
Returned == [pc |-> "idle", meta |-> Absent]
Later(x, y) == IF x < y THEN y ELSE x

Init ==
  /\ now = 0 /\ memory = NoEntry /\ disk = NoFiles /\ temp = NoFiles
  /\ requests = [r \in 1..2 |-> Over] /\ inFlight = 0 /\ call = [c \in Callers |-> Returned]
  /\ oldest = 0 /\ cleaning = "no" /\ restarts = 0

IsExpired(entry) == now >= entry.cachedAt + Ttl

-----------------------------------------------------------------------------
\* fetchAndStore: joins the download under way or starts one.
FetchAndStore ==
  IF inFlight # 0 THEN UNCHANGED <<requests, inFlight>>
  ELSE LET r == CHOOSE r \in DOMAIN requests : requests[r] = Over
       IN  requests' = [requests EXCEPT ![r] = [pc |-> "net", body |-> Absent]] /\ inFlight' = r

\* What a call does with the entry it found, by its options: backUpdate and allowExpired refresh in
\* the background.
Serve(c, entry) ==
  \/ /\ ~IsExpired(entry) /\ oldest' = Later(oldest, now - entry.body)
     /\ call' = [call EXCEPT ![c] = Returned]
     /\ FetchAndStore \/ UNCHANGED <<requests, inFlight>>
  \/ /\ IsExpired(entry) /\ UNCHANGED oldest /\ FetchAndStore
     /\ \E allowExpired \in BOOLEAN :
          call' = [call EXCEPT ![c] = [Returned EXCEPT !.pc = IF allowExpired THEN "idle" ELSE "await"]]

\* downloadCache: a forced update goes to the network at once.
ForceUpdate(c) ==
  /\ call[c].pc = "idle" /\ call' = [call EXCEPT ![c].pc = "await"] /\ FetchAndStore
  /\ UNCHANGED <<now, memory, disk, temp, oldest, cleaning, restarts>>

\* readCacheEntry: memory first; readDiskMetaEntry otherwise.
ReadMemory(c) ==
  /\ call[c].pc = "idle" /\ memory # NoEntry /\ Serve(c, memory)
  /\ UNCHANGED <<now, memory, disk, temp, cleaning, restarts>>

ReadMeta(c) ==
  /\ call[c].pc = "idle" /\ memory = NoEntry
  /\ call' = [call EXCEPT ![c].pc = IF disk.meta = Absent THEN "miss" ELSE "body", ![c].meta = disk.meta]
  /\ UNCHANGED <<now, memory, disk, temp, requests, inFlight, oldest, cleaning, restarts>>

\* readDiskBodyEntry: the entry read is put into memory, whatever memory holds by now.
ReadBody(c) ==
  LET entry == [body |-> disk.body, cachedAt |-> call[c].meta]
  IN  /\ call[c].pc = "body" /\ disk.body # Absent /\ memory' = entry /\ Serve(c, entry)
      /\ UNCHANGED <<now, disk, temp, cleaning, restarts>>

\* A meta file without body: both go, one after the other.
BodyMissing(c) ==
  /\ call[c].pc = "body" /\ disk.body = Absent /\ call' = [call EXCEPT ![c] = [Returned EXCEPT !.pc = "unlink"]]
  /\ UNCHANGED <<now, memory, disk, temp, requests, inFlight, oldest, cleaning, restarts>>

Unlink(c) ==
  /\ \/ /\ call[c].pc = "unlink" /\ disk' = [disk EXCEPT !.body = Absent]
        /\ call' = [call EXCEPT ![c].pc = "miss"]
        /\ UNCHANGED <<requests, inFlight>>
     \/ /\ call[c].pc = "miss" /\ disk' = [disk EXCEPT !.meta = Absent]
        /\ call' = [call EXCEPT ![c] = [Returned EXCEPT !.pc = "await"]] /\ FetchAndStore
  /\ UNCHANGED <<now, memory, temp, oldest, cleaning, restarts>>

-----------------------------------------------------------------------------
Next_(r, pc) == requests' = [requests EXCEPT ![r].pc = pc]

\* The answer arrives: buildEntry and setMemoryEntry.
Arrive(r) ==
  /\ requests[r].pc = "net" /\ requests' = [requests EXCEPT ![r] = [pc |-> "body", body |-> now]]
  /\ memory' = [body |-> now, cachedAt |-> now]
  /\ UNCHANGED <<now, disk, temp, inFlight, call, oldest, cleaning, restarts>>

\* writeDiskEntry: both temporary files, then the body, then the meta file.
WriteTemp(r) ==
  /\ \/ requests[r].pc = "body" /\ temp' = [temp EXCEPT !.body = requests[r].body] /\ Next_(r, "meta")
     \/ requests[r].pc = "meta" /\ temp' = [temp EXCEPT !.meta = requests[r].body] /\ Next_(r, "first")
  /\ UNCHANGED <<now, memory, disk, inFlight, call, oldest, cleaning, restarts>>

\* Faulty variant: the new expiry is put in place before the new body.
FaultyRenamed(first) == IF first THEN "meta" ELSE "body"

\* The file the first and the second rename replace.
Renamed(first) == IF first THEN "body" ELSE "meta"

Move(file) ==
  /\ disk' = IF temp[file] = Absent THEN disk ELSE [disk EXCEPT ![file] = temp[file]]
  /\ temp' = [temp EXCEPT ![file] = Absent]

RenameFirst(r) ==
  /\ requests[r].pc = "first" /\ Move(Renamed(TRUE)) /\ Next_(r, "second")
  /\ UNCHANGED <<now, memory, inFlight, call, oldest, cleaning, restarts>>

\* finally: the download is forgotten and whoever awaited it goes on.
Finished(r) ==
  /\ requests' = [requests EXCEPT ![r] = Over]
  /\ inFlight' = IF inFlight = r THEN 0 ELSE inFlight
  /\ call' = [c \in Callers |-> IF call[c].pc = "await" THEN Returned ELSE call[c]]

RenameSecond(r) ==
  /\ requests[r].pc = "second" /\ Move(Renamed(FALSE)) /\ Finished(r)
  /\ UNCHANGED <<now, memory, oldest, cleaning, restarts>>

\* The download fails, or a file operation does (which is only logged).
RequestFails(r) ==
  /\ requests[r] # Over /\ Finished(r)
  /\ UNCHANGED <<now, memory, disk, temp, oldest, cleaning, restarts>>

-----------------------------------------------------------------------------
\* enforceMemoryLimit: other entries push this one out.
Evict ==
  /\ memory # NoEntry /\ memory' = NoEntry
  /\ UNCHANGED <<now, disk, temp, requests, inFlight, call, oldest, cleaning, restarts>>

\* cleanupDiskCache: the files are unlinked one after the other, the body first.
CleanUp ==
  /\ \/ cleaning = "no" /\ disk.body # Absent /\ cleaning' = "body" /\ UNCHANGED disk
     \/ cleaning = "body" /\ cleaning' = "meta" /\ disk' = [disk EXCEPT !.body = Absent]
     \/ cleaning = "meta" /\ cleaning' = "no" /\ disk' = [disk EXCEPT !.meta = Absent]
  /\ UNCHANGED <<now, memory, temp, requests, inFlight, call, oldest, restarts>>

Restart ==
  /\ restarts < MaxRestarts /\ restarts' = restarts + 1 /\ memory' = NoEntry /\ inFlight' = 0
  /\ requests' = [r \in DOMAIN requests |-> Over] /\ call' = [c \in Callers |-> Returned]
  /\ cleaning' = "no" /\ UNCHANGED <<now, disk, temp, oldest>>

Tick ==
  /\ now < MaxTime /\ now' = now + 1
  /\ UNCHANGED <<memory, disk, temp, requests, inFlight, call, oldest, cleaning, restarts>>

Next ==
  \/ Evict \/ CleanUp \/ Restart \/ Tick
  \/ \E c \in Callers :
       ForceUpdate(c) \/ ReadMemory(c) \/ ReadMeta(c) \/ ReadBody(c) \/ BodyMissing(c) \/ Unlink(c)
  \/ \E r \in DOMAIN requests :
       Arrive(r) \/ WriteTemp(r) \/ RenameFirst(r) \/ RenameSecond(r) \/ RequestFails(r)

Spec == Init /\ [][Next]_vars

-----------------------------------------------------------------------------
\* A body given out as not expired is younger than its time to live, although its two files are
\* replaced one after the other while others read, unlink and rewrite them or the process dies.
FreshIsFresh == oldest < Ttl

\* Calls for the same URL share one download, until its files are in place: the temporary files
\* have one writer.
OneDownload == \A r, q \in DOMAIN requests : requests[r] # Over /\ requests[q] # Over => r = q
=============================================================================
