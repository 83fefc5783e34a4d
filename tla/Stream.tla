------------------------------- MODULE Stream -------------------------------
(***************************************************************************)
(* One connection: streambuf_base over a socket, as the servant of         *)
(* example/echo_server.cpp and the watchdog it starts use it.              *)
(*                                                                         *)
(* The two green threads share a strand, so what one of them does between  *)
(* two suspensions is one step.  A thread suspends in asio::yield: the     *)
(* operation is pending, the completion handler then stores its result in  *)
(* the frame of the call and activates the thread, and the thread goes on  *)
(* in a step of its own.  The peer, the kernel and std::iostream are       *)
(* modelled from how they are used.  The servant is the only thread that   *)
(* reads or writes; the watchdog only closes the stream.  Nobody           *)
(* interrupts them.                                                        *)
(***************************************************************************)
EXTENDS Naturals

CONSTANTS BufferSize,   \* buffer_size, of the put area
          Transfer,     \* bound: bytes that one read fetches
          MaxBytes      \* bound: characters that the servant writes

ASSUME StreamAssumption ==
    BufferSize \in Nat \ {0} /\ Transfer \in Nat \ {0} /\ MaxBytes \in Nat

VARIABLES socket,       \* "none", "open", "reset" by the peer, "closed"
          half,         \* duplex_mode_ = half_duplex
          unbuffered,   \* unbuffered_
          memory,       \* put_buffer_; the n-th character written is n
          pptr,         \* pptr() - pbase()
          avail,        \* egptr() - gptr()
          bad,          \* the stream is not good(): calls on it do nothing
          at,           \* where each thread is
          written,      \* characters that were put into a good stream
          wire,         \* characters that the socket has accepted, in order
          garbled,      \* it was given one again, or out of its turn
          overlapped    \* one thread was in overflow when another went there

sent == <<wire, garbled>>
streamVars == <<socket, half, unbuffered, memory, pptr, avail, bad, at, written,
                sent, overlapped>>

Users == {"servant", "watchdog"}

(* A thread is "out" of the stream or "gone", or suspended: "writing" or
   "reading", then "wrote", "failed", "read", "eof" once its operation has
   completed.  call is "put", "flush", "read", "close" or "destroy"; from
   and to are ptr and ptr+size of overflow, char is its argument (0 for eof)
   and n the number of bytes read.                                         *)
Place(step) == [step |-> step, call |-> "none", from |-> 0, to |-> 0, char |-> 0,
                n |-> 0]
Moves(t, place) == at' = [at EXCEPT ![t] = place]

StreamInit == /\ socket = "none"
              /\ half \in BOOLEAN /\ unbuffered \in BOOLEAN
              /\ memory = [i \in 1..BufferSize |-> 0]
              /\ pptr = 0 /\ avail = 0 /\ written = 0
              /\ bad = FALSE /\ overlapped = FALSE
              /\ at = [t \in Users |-> Place("out")]
              /\ wire = 0 /\ garbled = FALSE

Other(t) == CHOOSE u \in Users : u # t
InOverflow(t) == at[t].step \in {"writing", "wrote", "failed"}
Out(t) == socket # "none" /\ at[t].step = "out"

(* The thread accept() gave the connection to starts to serve it, and with
   it its watchdog, if the server has one.                                 *)
Connect == /\ socket = "none"
           /\ socket' = "open"
           /\ \E step \in {"out", "gone"} : Moves("watchdog", Place(step))
           /\ UNCHANGED <<half, unbuffered, memory, pptr, avail, bad, written,
                          sent, overlapped>>

-----------------------------------------------------------------------------
(* What a call of t still does once overflow has returned, ok or eof.      *)

(* lowest_layer().close(): what the other thread has pending is aborted.   *)
Aborted(step) == IF step = "writing" THEN "failed"
                 ELSE IF step = "reading" THEN "eof" ELSE step
CloseSocket(t, step) ==
    /\ socket' = "closed"
    /\ at' = [at EXCEPT ![t] = Place(step), ![Other(t)].step = Aborted(@)]

(* base_type::async_read_some, at the end of underflow: on a closed socket
   it fails, as soon as its handler has run.                               *)
StartRead(t) ==
    /\ Moves(t, [Place(IF socket = "closed" THEN "eof" ELSE "reading")
                 EXCEPT !.call = "read"])
    /\ UNCHANGED socket

(* c is the call; the caller of overflow sees to the put area.             *)
AfterOverflow(t, c, ok) ==
    /\ \/ c \in {"put", "flush"} /\ Moves(t, Place("out")) /\ UNCHANGED socket
       \/ c = "read" /\ StartRead(t)
       \/ c = "close" /\ CloseSocket(t, IF t = "watchdog" THEN "gone" ELSE "out")
       \/ c = "destroy" /\ CloseSocket(t, "gone")
    /\ bad' = (bad \/ (~ok /\ c \in {"put", "flush", "close"}))

(* overflow has sent all there was: the put area is empty, or holds char.  *)
Sent(t, c, char) ==
    /\ IF ~unbuffered /\ char # 0
       THEN pptr' = 1 /\ memory' = [memory EXCEPT ![1] = char]
       ELSE pptr' = 0 /\ UNCHANGED memory
    /\ AfterOverflow(t, c, TRUE)

(* base_type::async_write_some on what from..to stands for.                *)
StartWrite(t, c, from, to, char) ==
    /\ Moves(t, [step |-> IF socket = "closed" THEN "failed" ELSE "writing",
                 call |-> c, from |-> from, to |-> to, char |-> char, n |-> 0])
    /\ UNCHANGED <<socket, memory, pptr, bad>>

(* Variant: a part that was sent is sent again with the rest.              *)
ResumeWriteAgain(t) ==
    /\ at[t].step = "wrote"
    /\ IF at[t].from < at[t].to
       THEN StartWrite(t, at[t].call, 0, at[t].to, at[t].char)
       ELSE Sent(t, at[t].call, at[t].char)
    /\ UNCHANGED <<half, unbuffered, avail, written, sent, overlapped>>

-----------------------------------------------------------------------------
(* overflow(char), called by t; char is 0 for traits_type::eof().          *)
Overflow(t, c, char) ==
    /\ overlapped' = (overlapped \/ InOverflow(Other(t)))
    /\ IF unbuffered
       THEN IF char = 0 THEN AfterOverflow(t, c, TRUE) /\ UNCHANGED <<memory, pptr>>
                        ELSE StartWrite(t, c, 0, 1, char)
       ELSE IF pptr = 0 THEN Sent(t, c, char)
                        ELSE StartWrite(t, c, 0, pptr, char)
    /\ UNCHANGED <<half, unbuffered, avail, sent>>

(* The kernel takes k bytes of a pending write and its handler runs.       *)
WriteCompletes(t) ==
    /\ at[t].step = "writing" /\ socket = "open"
    /\ \E k \in 1..(at[t].to - at[t].from) :
          LET inTurn == \A i \in 1..k :
                  IF unbuffered THEN at[t].char = wire + i
                                ELSE memory[at[t].from + i] = wire + i IN
          /\ at' = [at EXCEPT ![t].step = "wrote", ![t].from = @ + k]
          /\ wire' = IF inTurn THEN wire + k ELSE wire
          /\ garbled' = (garbled \/ ~inTurn)
    /\ UNCHANGED <<socket, half, unbuffered, memory, pptr, avail, bad, written,
                   overlapped>>

ResumeWrite(t) ==
    /\ at[t].step = "wrote"
    /\ IF at[t].from < at[t].to
       THEN StartWrite(t, at[t].call, at[t].from, at[t].to, at[t].char)
       ELSE Sent(t, at[t].call, at[t].char)
    /\ UNCHANGED <<half, unbuffered, avail, written, sent, overlapped>>

(* The handler reported an error: overflow returns eof, and leaves the put
   area as it is, the part of it that was sent included.                   *)
ResumeFailed(t) ==
    /\ at[t].step = "failed"
    /\ AfterOverflow(t, at[t].call, FALSE)
    /\ UNCHANGED <<half, unbuffered, memory, pptr, avail, written, sent, overlapped>>

-----------------------------------------------------------------------------
(* What the servant does with the stream.                                  *)

(* operator<<: sputc, which calls overflow when the put area is full.      *)
Put(t) ==
    /\ Out(t) /\ ~bad /\ written < MaxBytes
    /\ written' = written + 1
    /\ IF ~unbuffered /\ pptr < BufferSize
       THEN /\ memory' = [memory EXCEPT ![pptr + 1] = written']
            /\ pptr' = pptr + 1
            /\ overlapped' = (overlapped \/ InOverflow(Other(t)))
            /\ UNCHANGED <<socket, half, unbuffered, avail, bad, at, sent>>
       ELSE Overflow(t, "put", written')

(* flush and std::endl: sync.                                              *)
Flush(t) == Out(t) /\ ~bad /\ Overflow(t, "flush", 0) /\ UNCHANGED written

(* std::getline: a character of the get area is consumed.                  *)
ReadBuffered(t) ==
    /\ Out(t) /\ ~bad /\ avail > 0
    /\ avail' = avail - 1
    /\ UNCHANGED <<socket, half, unbuffered, memory, pptr, bad, at, written, sent,
                   overlapped>>

(* Variant: what was written stays in the put area.                        *)
UnderflowUnsynced(t) ==
    /\ Out(t) /\ ~bad /\ avail = 0
    /\ StartRead(t)
    /\ UNCHANGED <<half, unbuffered, memory, pptr, avail, bad, written, sent,
                   overlapped>>

(* The get area is empty: underflow, whose sync may fail unnoticed.        *)
Underflow(t) ==
    /\ Out(t) /\ ~bad /\ avail = 0
    /\ IF half THEN Overflow(t, "read", 0) /\ UNCHANGED written
       ELSE /\ StartRead(t)
            /\ UNCHANGED <<half, unbuffered, memory, pptr, avail, bad, written,
                           sent, overlapped>>

ReadCompletes(t) ==
    /\ at[t].step = "reading"
    /\ \/ /\ socket = "open"
          /\ \E n \in 1..Transfer : at' = [at EXCEPT ![t].step = "read", ![t].n = n]
       \/ at' = [at EXCEPT ![t].step = "eof"]
    /\ UNCHANGED <<socket, half, unbuffered, memory, pptr, avail, bad, written,
                   sent, overlapped>>

(* setg, and the caller consumes a character; or the end of the input.     *)
ResumeRead(t) ==
    /\ at[t].step \in {"read", "eof"}
    /\ IF at[t].step = "read" THEN avail' = at[t].n - 1 /\ UNCHANGED bad
                              ELSE bad' = TRUE /\ UNCHANGED avail
    /\ Moves(t, Place("out"))
    /\ UNCHANGED <<socket, half, unbuffered, memory, pptr, written, sent,
                   overlapped>>

-----------------------------------------------------------------------------
(* close and the destructor.                                               *)

(* iostream::close: flush, unless the socket is closed already.  std::ostream
   may or may not call sync when the stream is not good.                   *)
Close(t) ==
    /\ Out(t) /\ UNCHANGED written
    /\ \/ socket # "closed" /\ Overflow(t, "close", 0)
       \/ /\ socket = "closed" \/ bad
          /\ AfterOverflow(t, "close", TRUE)
          /\ UNCHANGED <<half, unbuffered, memory, pptr, avail, sent, overlapped>>

(* The watchdog looks whether the stream is open each time it goes round.  *)
WatchdogEnds == /\ Out("watchdog")
                /\ socket = "closed"
                /\ Moves("watchdog", Place("gone"))
                /\ UNCHANGED <<socket, half, unbuffered, memory, pptr, avail, bad,
                               written, sent, overlapped>>

(* ~streambuf_base sends what is left, then ~Stream closes the socket.     *)
Destroy == /\ Out("servant") /\ at["watchdog"].step = "gone"
           /\ Overflow("servant", "destroy", 0)
           /\ UNCHANGED written

(* The peer resets the connection: what is pending fails.                  *)
PeerResets ==
    /\ socket = "open"
    /\ socket' = "reset"
    /\ UNCHANGED <<half, unbuffered, memory, pptr, avail, bad, at, written, sent,
                   overlapped>>

WriteFails(t) == /\ at[t].step = "writing" /\ socket = "reset"
                 /\ at' = [at EXCEPT ![t].step = "failed"]
                 /\ UNCHANGED <<socket, half, unbuffered, memory, pptr, avail, bad,
                                written, sent, overlapped>>

Resumes(t) == ResumeWrite(t) \/ ResumeFailed(t) \/ ResumeRead(t)

StreamNext == \/ \E t \in Users : \/ WriteCompletes(t) \/ WriteFails(t)
                                  \/ ReadCompletes(t) \/ Resumes(t) \/ Close(t)
              \/ \E t \in {"servant"} : \/ Put(t) \/ Flush(t) \/ ReadBuffered(t)
                                        \/ Underflow(t)
              \/ WatchdogEnds \/ Destroy \/ PeerResets

-----------------------------------------------------------------------------
(* Properties.                                                             *)

(* While no thread enters overflow, or adds to the put area, behind the back
   of another that is suspended in it, the peer receives what was written in
   order, nothing twice, and everything once the stream has been closed or
   destroyed in good order -- however the writes are cut short.            *)
WireInOrder ==
    [][~overlapped' =>
         /\ ~garbled'
         /\ socket = "open" /\ socket' = "closed" /\ ~bad' => wire' = written'
      ]_streamVars

(* A half duplex stream that waits for the peer has told it all there was
   to tell, or has failed to: neither side waits for the other.            *)
ReadersFlushFirst ==
    \A t \in Users :
       at[t].step = "reading" /\ half /\ socket = "open" /\ ~overlapped
         => pptr = 0 /\ wire = written
=============================================================================
