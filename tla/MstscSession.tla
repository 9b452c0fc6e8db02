---------------------------- MODULE MstscSession ----------------------------
(***************************************************************************)
(* The two threads of the mstsc-rs client (src/bin/mstsc-rs.rs) sharing   *)
(* one connected RdpClient:                                                *)
(*                                                                         *)
(*  - the reader thread of launch_rdp_thread: wait_for_fd (select on the   *)
(*    socket, without the lock), sync.load, lock the Mutex<RdpClient>,     *)
(*    read one PDU, forward bitmaps on the mpsc channel, unlock;           *)
(*  - the GUI (main) thread of main_gui_loop: drain the channel, send      *)
(*    mouse and keyboard input under the lock, refresh the window; when    *)
(*    the window closes or sync is cleared, sync.store(false), lock and    *)
(*    shutdown, then main joins the reader thread.                        *)
(*                                                                         *)
(* The server is the environment: it sends a bounded number of PDUs, each  *)
(* of which may arrive in two parts (select reports the socket readable on *)
(* the first bytes, read blocks until the rest), and it may close the      *)
(* TCP connection at any time.  A PDU is abstracted to what the reader     *)
(* does with the result of RdpClient::read:                                *)
(*   "bitmap"     callback with RdpEvent::Bitmap, decompresses cleanly     *)
(*   "badbitmap"  callback with RdpEvent::Bitmap whose decompress or blit  *)
(*                fails in fast_bitmap_transfer                            *)
(*   "other"      callback with another event ("ignore event")             *)
(*   "garbage"    read fails with an Error::RdpError of another kind       *)
(*   "disconnect" read fails with Error::RdpError(Disconnect)              *)
(* Once the stream is at end of file and no complete PDU is buffered,      *)
(* read fails with an I/O error, which is not an Error::RdpError.          *)
(***************************************************************************)
EXTENDS Naturals, Sequences

CONSTANTS
  MaxPdus,   \* number of PDUs the server sends in one behaviour
  PduKinds   \* the kinds of PDU the server may send

ASSUME PduKinds \subseteq {"bitmap", "badbitmap", "other", "garbage", "disconnect"}
ASSUME MaxPdus \in Nat

NoPdu == [kind |-> "none", id |-> 0]
Pdu == [kind : PduKinds, id : 1..MaxPdus]

VARIABLES
  wire,        \* complete PDUs buffered in the socket, not read yet
  inflight,    \* a PDU whose first bytes have arrived, or NoPdu
  eof,         \* the stream is closed, by the server or by shutdown
  sent,        \* number of PDUs the server has started to send
  srv,         \* server: "open", "disconnected" (sent its disconnect PDU), "closed"
  sync,        \* the Arc<AtomicBool> both threads load
  lock,        \* holder of the Mutex<RdpClient>: "none", "reader", "gui"
  rpc,         \* reader thread: "select", "load", "lock", "read", "done"
  gpc,         \* GUI / main thread, see GuiPcs
  chan,        \* the mpsc channel of bitmaps: sequence of [id, ok]
  drawn,       \* ids of the bitmaps blitted into the window buffer, in order
  windowOpen,  \* window.is_open()
  shut,        \* RdpClient::shutdown has been called
  readsAfterShut, \* session reads performed after shutdown (history, capped at 2)
  failure      \* why main_gui_loop returned Err: "none", "bitmap", "write"

vars == <<wire, inflight, eof, sent, srv, sync, lock, rpc, gpc, chan, drawn,
          windowOpen, shut, readsAfterShut, failure>>

GuiPcs == {"frame", "drain", "drainMore", "mouse", "keys", "update",
           "stop", "shutdown", "join", "exited", "panicked"}

\* The process runs until main returns after the join, or panics on the
\* unwrap of an Err from main_gui_loop.
ProcessAlive == gpc \notin {"exited", "panicked"}

\* The Sender moved into the reader thread's closure is dropped when the
\* thread returns.
SenderAlive == rpc # "done"

Init ==
  /\ wire = <<>>
  /\ inflight = NoPdu
  /\ eof = FALSE
  /\ sent = 0
  /\ srv = "open"
  /\ sync = TRUE
  /\ lock = "none"
  /\ rpc = "select"
  /\ gpc = "frame"
  /\ chan = <<>>
  /\ drawn = <<>>
  /\ windowOpen = TRUE
  /\ shut = FALSE
  /\ readsAfterShut = 0
  /\ failure = "none"

-----------------------------------------------------------------------------
(* The server.                                                             *)

ServerStartPdu(k) ==
  /\ srv = "open" /\ ~eof
  /\ inflight = NoPdu
  /\ sent < MaxPdus
  /\ inflight' = [kind |-> k, id |-> sent + 1]
  /\ sent' = sent + 1
  /\ srv' = IF k = "disconnect" THEN "disconnected" ELSE srv
  /\ UNCHANGED <<wire, eof, sync, lock, rpc, gpc, chan, drawn, windowOpen,
                 shut, readsAfterShut, failure>>

ServerFinishPdu ==
  /\ inflight # NoPdu /\ ~eof
  /\ wire' = Append(wire, inflight)
  /\ inflight' = NoPdu
  /\ UNCHANGED <<eof, sent, srv, sync, lock, rpc, gpc, chan, drawn,
                 windowOpen, shut, readsAfterShut, failure>>

\* TCP close, possibly in the middle of a PDU (the rest never arrives).
ServerClose ==
  /\ srv # "closed" /\ ~eof
  /\ srv' = "closed"
  /\ eof' = TRUE
  /\ UNCHANGED <<wire, inflight, sent, sync, lock, rpc, gpc, chan, drawn,
                 windowOpen, shut, readsAfterShut, failure>>

-----------------------------------------------------------------------------
(* The reader thread: launch_rdp_thread.                                   *)

\* select(fd + 1, {fd}, ...) with no timeout returns 1 once the socket has
\* bytes or is at end of file.
Readable == wire # <<>> \/ inflight # NoPdu \/ eof

wait_for_fd ==
  /\ rpc = "select"
  /\ Readable
  /\ rpc' = "load"
  /\ UNCHANGED <<wire, inflight, eof, sent, srv, sync, lock, gpc, chan, drawn,
                 windowOpen, shut, readsAfterShut, failure>>

\* Fault: the loop condition without its sync.load.
ReaderLoadSyncIgnored ==
  /\ rpc = "load"
  /\ rpc' = "lock"
  /\ UNCHANGED <<wire, inflight, eof, sent, srv, sync, lock, gpc, chan, drawn,
                 windowOpen, shut, readsAfterShut, failure>>

\* `while wait_for_fd(handle) && sync.load(Relaxed)`
ReaderLoadSync ==
  /\ rpc = "load"
  /\ rpc' = IF sync THEN "lock" ELSE "done"
  /\ UNCHANGED <<wire, inflight, eof, sent, srv, sync, lock, gpc, chan, drawn,
                 windowOpen, shut, readsAfterShut, failure>>

ReaderLock ==
  /\ rpc = "lock"
  /\ lock = "none"
  /\ lock' = "reader"
  /\ rpc' = "read"
  /\ UNCHANGED <<wire, inflight, eof, sent, srv, sync, gpc, chan, drawn,
                 windowOpen, shut, readsAfterShut, failure>>

\* Fault: the callback forwards every decoded PDU, not only bitmaps, and
\* without its decompression outcome.
ReaderReadForwardsAll ==
  /\ rpc = "read"
  /\ wire # <<>> \/ eof
  /\ IF wire # <<>>
       THEN /\ wire' = Tail(wire)
            /\ chan' = Append(chan, Head(wire))
            /\ rpc' = IF Head(wire).kind \in {"garbage", "disconnect"} THEN "done" ELSE "select"
       ELSE /\ rpc' = "select"
            /\ UNCHANGED <<wire, chan>>
  /\ lock' = "none"
  /\ UNCHANGED <<inflight, eof, sent, srv, sync, gpc, drawn, windowOpen, shut,
                 readsAfterShut, failure>>

\* guard.read(callback) blocks, holding the lock, until a complete PDU is
\* buffered or the stream ends.  A bitmap is sent on the channel; an
\* Error::RdpError (Disconnect or another kind) breaks the loop; any other
\* Err, such as the I/O error at end of file, falls through the `if let`
\* and the loop goes on.  The guard is dropped at the end of the body.
ReaderRead ==
  /\ rpc = "read"
  /\ wire # <<>> \/ eof
  /\ IF wire # <<>>
       THEN LET p == Head(wire) IN
            /\ wire' = Tail(wire)
            /\ chan' = IF p.kind \in {"bitmap", "badbitmap"}
                         THEN Append(chan, [id |-> p.id, ok |-> p.kind = "bitmap"])
                         ELSE chan
            /\ rpc' = IF p.kind \in {"garbage", "disconnect"} THEN "done" ELSE "select"
       ELSE /\ rpc' = "select"
            /\ UNCHANGED <<wire, chan>>
  /\ lock' = "none"
  /\ readsAfterShut' = IF shut /\ readsAfterShut < 2 THEN readsAfterShut + 1
                                                     ELSE readsAfterShut
  /\ UNCHANGED <<inflight, eof, sent, srv, sync, gpc, drawn, windowOpen, shut,
                 failure>>

Reader == wait_for_fd \/ ReaderLoadSync \/ ReaderLock \/ ReaderRead

-----------------------------------------------------------------------------
(* The GUI thread: main_gui_loop, then the join in main.                   *)

\* `while window.is_open() && sync.load(Relaxed)`
GuiLoopCheck ==
  /\ gpc = "frame"
  /\ gpc' = IF windowOpen /\ sync THEN "drain" ELSE "stop"
  /\ UNCHANGED <<wire, inflight, eof, sent, srv, sync, lock, rpc, chan, drawn,
                 windowOpen, shut, readsAfterShut, failure>>

\* try_recv returns Ok(bitmap) and fast_bitmap_transfer succeeds.
GuiDrawBitmap ==
  /\ gpc \in {"drain", "drainMore"}
  /\ chan # <<>> /\ Head(chan).ok
  /\ drawn' = Append(drawn, Head(chan).id)
  /\ chan' = Tail(chan)
  /\ gpc' = "drainMore"
  /\ UNCHANGED <<wire, inflight, eof, sent, srv, sync, lock, rpc, windowOpen,
                 shut, readsAfterShut, failure>>

\* try_recv returns Ok(bitmap) and fast_bitmap_transfer returns Err: the
\* `?` returns it from main_gui_loop and main's unwrap panics.
GuiBitmapFails ==
  /\ gpc \in {"drain", "drainMore"}
  /\ chan # <<>> /\ ~Head(chan).ok
  /\ chan' = Tail(chan)
  /\ gpc' = "panicked"
  /\ failure' = "bitmap"
  /\ UNCHANGED <<wire, inflight, eof, sent, srv, sync, lock, rpc, drawn,
                 windowOpen, shut, readsAfterShut>>

\* TryRecvError::Empty.
GuiChannelEmpty ==
  /\ gpc \in {"drain", "drainMore"}
  /\ chan = <<>> /\ SenderAlive
  /\ gpc' = "mouse"
  /\ UNCHANGED <<wire, inflight, eof, sent, srv, sync, lock, rpc, chan, drawn,
                 windowOpen, shut, readsAfterShut, failure>>

\* Fault: Disconnected only ends the drain loop.
GuiChannelDisconnectedNoStore ==
  /\ gpc \in {"drain", "drainMore"}
  /\ chan = <<>> /\ ~SenderAlive
  /\ gpc' = "mouse"
  /\ UNCHANGED <<wire, inflight, eof, sent, srv, sync, lock, rpc, chan, drawn,
                 windowOpen, shut, readsAfterShut, failure>>

\* TryRecvError::Disconnected: only once the channel is empty.
GuiChannelDisconnected ==
  /\ gpc \in {"drain", "drainMore"}
  /\ chan = <<>> /\ ~SenderAlive
  /\ sync' = FALSE
  /\ gpc' = "mouse"
  /\ UNCHANGED <<wire, inflight, eof, sent, srv, lock, rpc, chan, drawn,
                 windowOpen, shut, readsAfterShut, failure>>

\* The 2 x 16.6 ms budget of the drain loop runs out; at least one try_recv
\* happens first in every frame.
GuiFrameBudgetElapsed ==
  /\ gpc = "drainMore"
  /\ chan # <<>>
  /\ gpc' = "mouse"
  /\ UNCHANGED <<wire, inflight, eof, sent, srv, sync, lock, rpc, chan, drawn,
                 windowOpen, shut, readsAfterShut, failure>>

\* Fault: the pointer write skipped in some frames, and a write on a closed
\* connection that may succeed.
GuiTryWriteSkips(from, to) ==
  /\ gpc = from
  /\ \/ /\ gpc' = to
        /\ UNCHANGED failure
     \/ /\ lock = "none"
        /\ gpc' = to
        /\ UNCHANGED failure
     \/ /\ lock = "none" /\ srv = "closed"
        /\ gpc' = "panicked"
        /\ failure' = "write"
  /\ UNCHANGED <<wire, inflight, eof, sent, srv, sync, lock, rpc, chan, drawn,
                 windowOpen, shut, readsAfterShut>>

\* One try_write under the lock, taken and released within the step.  The
\* write succeeds while the server keeps the connection; once it has closed
\* it, the write fails (the first bytes after a FIN may still be accepted,
\* the reset they draw fails the next write: both are collapsed into this
\* one step), the `?` ends main_gui_loop with Err and main's unwrap panics.
GuiTryWrite(from, to) ==
  /\ gpc = from
  /\ lock = "none"
  /\ IF srv = "closed"
       THEN gpc' = "panicked" /\ failure' = "write"
       ELSE gpc' = to /\ UNCHANGED failure
  /\ UNCHANGED <<wire, inflight, eof, sent, srv, sync, lock, rpc, chan, drawn,
                 windowOpen, shut, readsAfterShut>>

\* window.get_mouse_pos(MouseMode::Clamp) always yields a position: the
\* pointer event is written in every frame.
GuiMouseInput == GuiTryWrite("mouse", "keys")
\* The keyboard block is skipped when window.get_keys() is empty.
GuiNoKeys ==
  /\ gpc = "keys"
  /\ gpc' = "update"
  /\ UNCHANGED <<wire, inflight, eof, sent, srv, sync, lock, rpc, chan, drawn,
                 windowOpen, shut, readsAfterShut, failure>>

GuiKeyboardInput == GuiNoKeys \/ GuiTryWrite("keys", "update")

GuiUpdate ==
  /\ gpc = "update"
  /\ gpc' = "frame"
  /\ UNCHANGED <<wire, inflight, eof, sent, srv, sync, lock, rpc, chan, drawn,
                 windowOpen, shut, readsAfterShut, failure>>

\* After the loop: sync.store(false, Relaxed).
GuiStoreSync ==
  /\ gpc = "stop"
  /\ sync' = FALSE
  /\ gpc' = "shutdown"
  /\ UNCHANGED <<wire, inflight, eof, sent, srv, lock, rpc, chan, drawn,
                 windowOpen, shut, readsAfterShut, failure>>

\* rdp_client.lock().unwrap().shutdown(): sends the MCS disconnect and
\* closes the stream, so buffered and further bytes are never read.
GuiShutdown ==
  /\ gpc = "shutdown"
  /\ lock = "none"
  /\ shut' = TRUE
  /\ eof' = TRUE
  /\ wire' = <<>>
  /\ inflight' = NoPdu
  /\ gpc' = "join"
  /\ UNCHANGED <<sent, srv, sync, lock, rpc, chan, drawn, windowOpen,
                 readsAfterShut, failure>>

\* rdp_thread.join().unwrap() in main.
MainJoin ==
  /\ gpc = "join"
  /\ rpc = "done"
  /\ gpc' = "exited"
  /\ UNCHANGED <<wire, inflight, eof, sent, srv, sync, lock, rpc, chan, drawn,
                 windowOpen, shut, readsAfterShut, failure>>

Gui == \/ GuiLoopCheck \/ GuiDrawBitmap \/ GuiBitmapFails \/ GuiChannelEmpty
       \/ GuiChannelDisconnected \/ GuiFrameBudgetElapsed \/ GuiMouseInput
       \/ GuiKeyboardInput \/ GuiUpdate \/ GuiStoreSync \/ GuiShutdown
       \/ MainJoin

\* The user closes the window.
UserCloseWindow ==
  /\ windowOpen
  /\ windowOpen' = FALSE
  /\ UNCHANGED <<wire, inflight, eof, sent, srv, sync, lock, rpc, gpc, chan,
                 drawn, shut, readsAfterShut, failure>>

Server == (\E k \in PduKinds : ServerStartPdu(k)) \/ ServerFinishPdu \/ ServerClose

\* The process has exited: nothing happens any more.
Terminated == ~ProcessAlive /\ UNCHANGED vars

Next ==
  \/ ProcessAlive /\ (Reader \/ Gui \/ Server \/ UserCloseWindow)
  \/ Terminated

\* Both threads are scheduled by the OS: weak fairness on each of their
\* actions.  A GUI step waiting for the mutex is woken by every unlock, and
\* the reader goes through select and an atomic load before it locks again,
\* so a GUI step enabled at infinitely many unlocks is taken: strong
\* fairness on the GUI.  TCP delivers the rest of a PDU the server has
\* started.  The user and the server's decisions to send or close are not
\* fair.
Fairness ==
  /\ WF_vars(ProcessAlive /\ Reader)
  /\ SF_vars(ProcessAlive /\ Gui)
  /\ WF_vars(ProcessAlive /\ ServerFinishPdu)

Spec == Init /\ [][Next]_vars /\ Fairness

-----------------------------------------------------------------------------
(* Properties.                                                             *)

TypeOK ==
  /\ wire \in Seq(Pdu)
  /\ inflight \in Pdu \cup {NoPdu}
  /\ eof \in BOOLEAN /\ sync \in BOOLEAN /\ windowOpen \in BOOLEAN /\ shut \in BOOLEAN
  /\ sent \in 0..MaxPdus
  /\ srv \in {"open", "disconnected", "closed"}
  /\ lock \in {"none", "reader", "gui"}
  /\ rpc \in {"select", "load", "lock", "read", "done"}
  /\ gpc \in GuiPcs
  /\ chan \in Seq([id : 1..MaxPdus, ok : BOOLEAN])
  /\ drawn \in Seq(1..MaxPdus)
  /\ readsAfterShut \in 0..2
  /\ failure \in {"none", "bitmap", "write"}

(* The reader loads sync after select and before it takes the lock, so the *)
(* GUI can clear sync and shut the session down between the reader's check *)
(* and its read.  That race may cost one read of the shut-down session,    *)
(* never more: the next loop check sees sync cleared.                      *)
AtMostOneReadAfterShutdown == readsAfterShut <= 1

(* When the user closes the window, or the reader thread ends (server      *)
(* disconnect PDU or a protocol error), the process eventually ends: the   *)
(* GUI learns of it through the channel's Disconnected, stores sync=false, *)
(* shuts down, and the join returns because the reader sees sync cleared.  *)
SessionEventuallyEnds == (~windowOpen \/ rpc = "done") ~> ~ProcessAlive

(* A server that closes the TCP connection, with or without a disconnect   *)
(* PDU, eventually ends the process.  The reader does not end it: read     *)
(* fails with an I/O error at end of file, which `if let                   *)
(* Err(Error::RdpError(e))` does not match, so it spins on select and the  *)
(* lock.  The GUI's pointer write of the next frame it gets the lock for   *)
(* fails and main panics; the spin must not starve it of the lock.         *)
ServerCloseEndsSession == (srv = "closed") ~> ~ProcessAlive

(* Spec section 7: a bitmap decompression error aborts the current frame, *)
(* not the session.  main_gui_loop applies `?` to fast_bitmap_transfer.    *)
BitmapErrorSparesSession == failure # "bitmap"

=============================================================================
