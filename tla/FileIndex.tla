----------------------------- MODULE FileIndex -----------------------------
(***************************************************************************)
(* FileManager's index of the shared directory (src/src/FileManager.cpp)  *)
(* while other processes, and the CLI's own `share`, change the files.    *)
(*                                                                         *)
(* FileManager::scanDirectory takes files_mutex, clears local_files, then *)
(* walks recursive_directory_iterator: for each regular file accepted by  *)
(* isValidFile it reads file_size and last_write_time, hashes the file    *)
(* and appends a FileInfo.  A filesystem_error ends the walk (caught); a  *)
(* runtime_error from calculateFileHash leaves scanDirectory.  Either way *)
(* the list built so far stays.                                           *)
(*                                                                         *)
(* A file is a model value; its content is a version number, so a         *)
(* FileInfo records the version its size was read from and the version   *)
(* it hashed.  The walk visits the files present when it starts (entries  *)
(* created during the walk are not yielded).                              *)
(***************************************************************************)
EXTENDS Integers, FiniteSets

CONSTANTS
  Files,        \* files that may exist somewhere under the shared directory
  HiddenName,   \* those whose own name starts with '.'
  SkipExt,      \* those with extension .tmp, .log, .lock or .pid
  MaxVer,       \* bound on how often one file is rewritten
  MaxScans      \* bound on refreshFileList calls

ASSUME HiddenName \cup SkipExt \subseteq Files

\* FileManager::isValidFile looks at the file's own name and extension.
IsValidFile(f) == f \notin HiddenName \cup SkipExt

FileInfo == [file : Files, sizeOf : 0..MaxVer, hashOf : 0..MaxVer, scan : 1..MaxScans]

VARIABLES
  present,      \* present[f]: f exists on disk
  ver,          \* ver[f]: the version of f's content
  localFiles,   \* local_files
  spc,          \* where the scanning thread is: "idle", "walk", "size", "hash"
  todo,         \* entries the iterator has still to yield
  cur,          \* the entry being indexed
  sizeV,        \* the version file_size saw for cur
  scans,        \* refreshFileList calls so far
  prevFiles,    \* local_files when the current or last scan began
  aborted       \* the last scan ended on an exception

vars == <<present, ver, localFiles, spc, todo, cur, sizeV, scans, prevFiles, aborted>>

TypeOK ==
  /\ present \in [Files -> BOOLEAN] /\ ver \in [Files -> 0..MaxVer]
  /\ localFiles \subseteq FileInfo /\ prevFiles \subseteq FileInfo
  /\ spc \in {"idle", "walk", "size", "hash"}
  /\ todo \subseteq Files /\ cur \in Files /\ sizeV \in 0..MaxVer
  /\ scans \in 0..MaxScans /\ aborted \in BOOLEAN

\* Any files may exist when the node starts; the index is empty until the
\* first refresh (FileManager::setSharedDirectory calls it).
Init ==
  /\ present \in [Files -> BOOLEAN] /\ ver = [f \in Files |-> 0]
  /\ localFiles = {} /\ spc = "idle" /\ todo = {}
  /\ cur \in Files /\ sizeV = 0
  /\ scans = 0 /\ prevFiles = {} /\ aborted = FALSE

\* The walk ends on an exception; local_files keeps what was appended.
Abort ==
  /\ spc' = "idle" /\ aborted' = TRUE
  /\ UNCHANGED <<localFiles, todo>>

-----------------------------------------------------------------------------
(* The scanning thread (refreshFileList = scanDirectory)                   *)

\* Lock files_mutex, clear local_files, open the iterator.
BeginScan ==
  /\ spc = "idle" /\ scans < MaxScans
  /\ scans' = scans + 1
  /\ prevFiles' = localFiles
  /\ localFiles' = {}
  /\ todo' = {f \in Files : present[f]}
  /\ spc' = "walk" /\ aborted' = FALSE
  /\ UNCHANGED <<present, ver, cur, sizeV>>

\* The iterator yields f.  entry.is_regular_file() answers from the type
\* readdir cached, so a file deleted since is still a regular file; then
\* isValidFile decides.  A deleted entry may also no longer be yielded.
Visit(f) ==
  /\ spc = "walk" /\ f \in todo
  /\ todo' = todo \ {f}
  /\ \/ /\ IsValidFile(f)
        /\ cur' = f /\ spc' = "size"
     \/ /\ ~IsValidFile(f) \/ ~present[f]
        /\ UNCHANGED <<cur, spc>>
  /\ UNCHANGED <<present, ver, localFiles, sizeV, scans, prevFiles, aborted>>

\* Faulty variant: the error_code overload of file_size, whose result on a
\* missing file, static_cast<uintmax_t>(-1), is used as the size.
ReadSizeUnchecked ==
  /\ spc = "size"
  /\ sizeV' = IF present[cur] THEN ver[cur] ELSE -1
  /\ spc' = "hash"
  /\ UNCHANGED <<present, ver, localFiles, todo, cur, scans, prevFiles, aborted>>

\* file_size and last_write_time; on a missing file they throw
\* filesystem_error, which the catch around the walk swallows.
ReadSize ==
  /\ spc = "size"
  /\ IF present[cur]
     THEN sizeV' = ver[cur] /\ spc' = "hash" /\ UNCHANGED <<localFiles, todo, aborted>>
     ELSE Abort /\ UNCHANGED sizeV
  /\ UNCHANGED <<present, ver, cur, scans, prevFiles>>

\* calculateFileHash, then local_files.emplace_back.  If the file cannot be
\* opened it throws runtime_error, which leaves scanDirectory.
Hash ==
  /\ spc = "hash"
  /\ IF present[cur]
     THEN /\ localFiles' = localFiles \cup
                {[file |-> cur, sizeOf |-> sizeV, hashOf |-> ver[cur], scan |-> scans]}
          /\ spc' = "walk" /\ UNCHANGED <<todo, aborted>>
     ELSE Abort
  /\ UNCHANGED <<present, ver, cur, sizeV, scans, prevFiles>>

\* The iterator is exhausted; the lock is released.
EndScan ==
  /\ spc = "walk" /\ todo = {}
  /\ spc' = "idle"
  /\ UNCHANGED <<present, ver, localFiles, todo, cur, sizeV, scans, prevFiles, aborted>>

-----------------------------------------------------------------------------
(* Other writers: the CLI's `share` (copy_file with overwrite_existing), a *)
(* download saved into the shared directory, or any other process.        *)

Write(f) ==
  /\ ver[f] < MaxVer
  /\ present' = [present EXCEPT ![f] = TRUE]
  /\ ver' = [ver EXCEPT ![f] = @ + 1]
  /\ UNCHANGED <<localFiles, spc, todo, cur, sizeV, scans, prevFiles, aborted>>

Delete(f) ==
  /\ present[f]
  /\ present' = [present EXCEPT ![f] = FALSE]
  /\ UNCHANGED <<ver, localFiles, spc, todo, cur, sizeV, scans, prevFiles, aborted>>

Scanner == BeginScan \/ (\E f \in Files : Visit(f)) \/ ReadSize \/ Hash \/ EndScan

Next == Scanner \/ \E f \in Files : Write(f) \/ Delete(f)

Spec == Init /\ [][Next]_vars

-----------------------------------------------------------------------------
(* Properties                                                              *)

\* Spec sections 4.2 and 5: refresh builds the new list and swaps it in,
\* so a refresh that fails leaves the previous list in place.
RefreshAtomic == spc = "idle" /\ aborted => localFiles = prevFiles

====
