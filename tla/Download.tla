------------------------------ MODULE Download ------------------------------
(***************************************************************************)
(* The client download engine (src/src/Client.cpp): a CLI `get` starts a   *)
(* detached thread that calls Client::downloadFileFromPeer, which connects *)
(* a fresh Client and runs Client::downloadFile on it: create and register *)
(* a DownloadProgress, send FILE_REQUEST, open the destination, then       *)
(* consume length-prefixed frames (Client::receiveMessage) until           *)
(* FILE_COMPLETE, ERROR_MESSAGE or an exception.                           *)
(*                                                                         *)
(* The remote peer is arbitrary: each receive yields any frame the         *)
(* client's framing can deliver, or a socket failure.  Bytes are counted,  *)
(* not named: a chunk is its size.  The destination ofstream is modelled   *)
(* by the bytes that reached the disk and its failbit, since the code      *)
(* never checks the result of output_file.write.                          *)
(***************************************************************************)
EXTENDS Naturals

CONSTANTS
  Downloads,   \* CLI `get` commands, one download thread each (model values)
  ChunkSizes,  \* payload sizes of FILE_CHUNK frames the peer may send
  MaxBytes     \* bound on the bytes one download receives

ASSUME ChunkSizes \subseteq Nat \ {0} /\ MaxBytes \in Nat

\* What one call of Client::receiveMessage can hand to the download loop.
\*  "chunk", "complete", "error", "other": a frame whose first byte is
\*     FILE_CHUNK, FILE_COMPLETE, ERROR_MESSAGE, or any other type;
\*  "empty": a frame whose length prefix is 0 (an empty vector);
\*  "oversize": a length prefix above 10 MiB ("Message too large");
\*  "broken": recv fails (peer closed, reset, or the 10 s timeout).
FrameKinds == {"chunk", "complete", "error", "other", "empty", "oversize", "broken"}

VARIABLES
  pc,          \* pc[d]: where download thread d is
  result,      \* result[d]: the value downloadFileFromPeer returned
  downloaded,  \* progress->downloaded_size
  total,       \* progress->total_size
  completed,   \* progress->completed
  failed,      \* progress->failed
  onDisk,      \* bytes of the destination file actually written
  streamBad    \* the destination ofstream's failbit

vars == <<pc, result, downloaded, total, completed, failed, onDisk,
          streamBad>>

TypeOK ==
  /\ pc \in [Downloads -> {"idle", "connect", "request", "open", "receive", "returned"}]
  /\ result \in [Downloads -> {"none", "true", "false"}]
  /\ downloaded \in [Downloads -> 0..MaxBytes]
  /\ total \in [Downloads -> 0..MaxBytes]
  /\ completed \in [Downloads -> BOOLEAN]
  /\ failed \in [Downloads -> BOOLEAN]
  /\ onDisk \in [Downloads -> 0..MaxBytes]
  /\ streamBad \in [Downloads -> BOOLEAN]

\* make_shared<DownloadProgress>() value-initialises every field to zero.
Init ==
  /\ pc = [d \in Downloads |-> "idle"]
  /\ result = [d \in Downloads |-> "none"]
  /\ downloaded = [d \in Downloads |-> 0]
  /\ total = [d \in Downloads |-> 0]
  /\ completed = [d \in Downloads |-> FALSE]
  /\ failed = [d \in Downloads |-> FALSE]
  /\ onDisk = [d \in Downloads |-> 0]
  /\ streamBad = [d \in Downloads |-> FALSE]

\* Thread d returns v from downloadFile (and so from downloadFileFromPeer).
Return(d, v) ==
  /\ pc' = [pc EXCEPT ![d] = "returned"]
  /\ result' = [result EXCEPT ![d] = v]

\* The catch block of downloadFile: failed := true, message stored, false.
Fail(d) ==
  /\ failed' = [failed EXCEPT ![d] = TRUE]
  /\ Return(d, "false")

-----------------------------------------------------------------------------

\* handleGetCommand found an active peer with the file and detaches a thread.
Get(d) ==
  /\ pc[d] = "idle"
  /\ pc' = [pc EXCEPT ![d] = "connect"]
  /\ UNCHANGED <<result, downloaded, total, completed, failed, onDisk,
                 streamBad>>

\* downloadFileFromPeer: a fresh peer_client connects; on failure it returns
\* false before any progress record exists.
Connect(d) ==
  /\ pc[d] = "connect"
  /\ \/ pc' = [pc EXCEPT ![d] = "request"] /\ UNCHANGED result
     \/ Return(d, "false")
  /\ UNCHANGED <<downloaded, total, completed, failed, onDisk, streamBad>>

\* downloadFile registers its progress in peer_client.active_downloads (not
\* in the CLI's client) and sends FILE_REQUEST; a failed send throws.
SendRequest(d) ==
  /\ pc[d] = "request"
  /\ \/ pc' = [pc EXCEPT ![d] = "open"] /\ UNCHANGED <<result, failed>>
     \/ Fail(d)
  /\ UNCHANGED <<downloaded, total, completed, onDisk, streamBad>>

\* Open the destination with ios::trunc; if it cannot be opened, throw.
OpenDestination(d) ==
  /\ pc[d] = "open"
  /\ \/ pc' = [pc EXCEPT ![d] = "receive"] /\ UNCHANGED <<result, failed>>
     \/ Fail(d)
  /\ UNCHANGED <<downloaded, total, completed, onDisk, streamBad>>

\* Faulty variant: the chunk is counted twice (downloaded_size += size on
\* top of the running total it is assigned from).
ReceiveChunkCountedTwice(d, n) ==
  /\ downloaded[d] + n <= MaxBytes
  /\ downloaded' = [downloaded EXCEPT ![d] = @ + 2 * n]
  /\ onDisk' = [onDisk EXCEPT ![d] = @ + n]
  /\ UNCHANGED <<pc, result, total, completed, failed, streamBad>>

\* FILE_CHUNK: output_file.write (its outcome unchecked: a write error sets
\* the failbit and every later write is a no-op), then downloaded_size +=.
ReceiveChunk(d, n) ==
  /\ downloaded[d] + n <= MaxBytes
  /\ downloaded' = [downloaded EXCEPT ![d] = @ + n]
  /\ \/ /\ ~streamBad[d]
        /\ onDisk' = [onDisk EXCEPT ![d] = @ + n]
        /\ UNCHANGED streamBad
     \/ /\ streamBad' = [streamBad EXCEPT ![d] = TRUE]
        /\ UNCHANGED onDisk
  /\ UNCHANGED <<pc, result, total, completed, failed>>

\* Faulty variant: the FILE_COMPLETE case ends with `break` (which only
\* leaves the switch) instead of `return true`.
ReceiveCompleteNoReturn(d) ==
  /\ completed' = [completed EXCEPT ![d] = TRUE]
  /\ total' = [total EXCEPT ![d] = downloaded[d]]
  /\ UNCHANGED <<pc, result, downloaded, failed, onDisk, streamBad>>

\* FILE_COMPLETE: completed := true, total_size := downloaded, return true.
ReceiveComplete(d) ==
  /\ completed' = [completed EXCEPT ![d] = TRUE]
  /\ total' = [total EXCEPT ![d] = downloaded[d]]
  /\ Return(d, "true")
  /\ UNCHANGED <<downloaded, failed, onDisk, streamBad>>

\* One iteration of the receive loop.  ERROR_MESSAGE, an oversize length
\* and a broken socket all end in the catch block; an empty vector breaks
\* out of the loop to `return false`; any other type is logged and skipped.
Receive(d, k) ==
  /\ pc[d] = "receive"
  /\ CASE k = "chunk"    -> \E n \in ChunkSizes : ReceiveChunk(d, n)
       [] k = "complete" -> ReceiveComplete(d)
       [] k = "empty"    -> Return(d, "false")
                            /\ UNCHANGED <<downloaded, total, completed, failed,
                                           onDisk, streamBad>>
       [] k = "other"    -> UNCHANGED <<pc, result, downloaded, total, completed,
                                        failed, onDisk, streamBad>>
       [] OTHER          -> Fail(d) /\ UNCHANGED <<downloaded, total, completed,
                                                   onDisk, streamBad>>

Thread(d) ==
  \/ Get(d) \/ Connect(d) \/ SendRequest(d) \/ OpenDestination(d)
  \/ \E k \in FrameKinds : Receive(d, k)

Next == \E d \in Downloads : Thread(d)

\* Each download runs on its own thread, and recv returns (data or the 10 s
\* timeout) so a blocked receive always completes.
Spec == Init /\ [][Next]_vars /\ \A d \in Downloads : WF_vars(Thread(d))

-----------------------------------------------------------------------------
(* Properties                                                              *)

\* A progress record is never both completed and failed (spec section 3:
\* exactly one terminal transition).  The FILE_COMPLETE branch must leave
\* the loop at once: any later receive could still throw into the catch
\* block that sets failed.
NeverBothTerminal == \A d \in Downloads : ~(completed[d] /\ failed[d])

\* A download reported completed has all of its total_size bytes in the
\* destination file (spec scenario 3: same bytes as the source).
CompletedFileIntact == \A d \in Downloads : completed[d] => onDisk[d] = total[d]

=============================================================================
