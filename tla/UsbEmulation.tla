----------------------------- MODULE UsbEmulation -----------------------------
(***************************************************************************)
(* The emulation of libusb-1.0 on Windows (libusbemu.cpp): the transfers   *)
(* of a device's streams are taken from libusb-win32 by one thread per     *)
(* endpoint, ReapThreadProc, and handed to the client's callback when      *)
(* libusb_handle_events permits it.  Each thread has three events, which   *)
(* stay signalled until they are reset (QuickEvent): it wants to deliver,  *)
(* it is allowed to, it has delivered.                                     *)
(*                                                                         *)
(* The client is libfreenect as it runs on the emulation: fnusb_start_iso, *)
(* fnusb_stop_iso and libusb_handle_events are called by one thread, and   *)
(* iso_callback submits a transfer again unless its stream stops.  What    *)
(* libusb-win32 answers to a reap is chosen freely; it takes every transfer*)
(* that is submitted.  The fail guard, which asks the user, and control    *)
(* transfers are left out.                                                 *)
(*                                                                         *)
(* An operator named X_Y right before the operator X is a wrong variant of *)
(* X, kept to show that the properties tell it from X.                     *)
(***************************************************************************)
EXTENDS Integers, Sequences, FiniteSets

CONSTANTS
    Endpoints,    \* the streams of the device
    Num,          \* transfers of a stream
    MaxStarts,    \* bound: how often a stream is started
    MaxHandles    \* bound: handles open at once

NumAssumption == Num \in Nat

VARIABLES
    record,   \* the device's record: [refcount, lists, handles]; lists and handles are held by the client
    stream,   \* per endpoint: the client's state, the transfers in it and the reaping thread
    handler,  \* the thread in libusb_handle_events: [pc, local]
    gone      \* the device was pulled out

vars == <<record, stream, handler, gone>>

Transfers == 1..Num

\* phase, starts, dead: the client's; status: of each transfer
NoStream == [phase |-> "stopped", starts |-> 0, dead |-> 0,
             status |-> [t \in Transfers |-> "none"],
             listTransfers |-> <<>>, ready |-> <<>>,
             pc |-> "none", requested |-> FALSE, attached |-> FALSE,
             want |-> FALSE, allow |-> FALSE, done |-> FALSE]

Init ==
    /\ record = [refcount |-> 0, lists |-> 0, handles |-> 0]
    /\ stream = [e \in Endpoints |-> NoStream]
    /\ handler = [pc |-> "out", local |-> {}]
    /\ gone = FALSE

Client == handler.pc = "out"
\* mutDeliveryPool
PoolFree == handler.pc = "out"

-----------------------------------------------------------------------------
\* libusbemu_register_device for each device found
libusb_get_device_list ==
    /\ Client /\ record.lists = 0
    /\ record' = [record EXCEPT !.refcount = @ + 1, !.lists = 1]
    /\ UNCHANGED <<stream, handler, gone>>

\* With unref_devices, as libfreenect calls it
libusb_free_device_list ==
    /\ Client /\ record.lists = 1
    /\ record' = [record EXCEPT !.refcount = @ - 1, !.lists = 0]
    /\ UNCHANGED <<stream, handler, gone>>

libusb_open ==
    /\ Client /\ record.lists = 1 /\ record.handles < MaxHandles
    /\ record' = [record EXCEPT !.refcount = @ + 1, !.handles = @ + 1]
    /\ UNCHANGED <<stream, handler, gone>>

\* libusbemu_unregister_device: with the last reference the record goes.
libusb_close ==
    /\ Client /\ record.handles > 0
    /\ \A e \in Endpoints : stream[e].phase = "stopped"
    /\ record' = [record EXCEPT !.refcount = @ - 1, !.handles = @ - 1]
    /\ UNCHANGED <<stream, handler, gone>>

-----------------------------------------------------------------------------
Becomes(e, s) ==
    /\ stream' = [stream EXCEPT ![e] = s]
    /\ UNCHANGED <<record, handler, gone>>

\* A new thread waits for the pool of events first.
submitted(s, t) ==
    [s EXCEPT !.listTransfers = Append(@, t), !.status[t] = "pending",
              !.pc = IF @ = "none" THEN "attach" ELSE @]

\* fnusb_start_iso: transfers are allocated and submitted
Start(e) ==
    LET s == stream[e] IN
    /\ Client /\ record.handles > 0 /\ ~gone
    /\ s.phase = "stopped" /\ s.starts < MaxStarts
    /\ Becomes(e, [s EXCEPT !.phase = "running", !.starts = @ + 1, !.dead = 0,
                            !.listTransfers = [n \in Transfers |-> n],
                            !.status = [t \in Transfers |-> "pending"],
                            !.pc = IF @ = "none" THEN "attach" ELSE @])

\* fnusb_stop_iso: libusb_cancel_transfer marks every transfer, pending or not.
Stop(e) ==
    LET s == stream[e] IN
    /\ Client /\ s.phase = "running"
    /\ Becomes(e, [s EXCEPT !.phase = "stopping",
                            !.status = [t \in Transfers |-> "cancelled"]])

\* When all transfers are dead they are freed.
Stopped(e) ==
    LET s == stream[e] IN
    /\ Client /\ s.phase = "stopping" /\ s.dead = Num
    /\ Becomes(e, [s EXCEPT !.phase = "stopped"])

\* iso_callback
called(s, t) ==
    IF s.phase = "running" /\ s.status[t] = "completed" THEN submitted(s, t)
    ELSE [s EXCEPT !.dead = @ + 1, !.status[t] = "none"]

-----------------------------------------------------------------------------
\* libusb_handle_events_timeout, with the pool of events locked
libusb_handle_events ==
    /\ handler.pc = "out"
    /\ handler' = [pc |-> "wait", local |-> {}]
    /\ UNCHANGED <<record, stream, gone>>

\* WaitAnyUntilTimeout: the time is over, or a thread wants to deliver
WaitAny ==
    /\ handler.pc = "wait"
    /\ handler' = [handler EXCEPT !.pc =
         IF \E e \in Endpoints : stream[e].attached /\ stream[e].want THEN "permit" ELSE "out"]
    /\ UNCHANGED <<record, stream, gone>>

Permit(e) ==
    /\ handler.pc = "permit"
    /\ stream[e].attached /\ stream[e].want
    /\ stream' = [stream EXCEPT ![e].allow = TRUE, ![e].want = FALSE]
    /\ handler' = [handler EXCEPT !.local = @ \cup {e}]
    /\ UNCHANGED <<record, gone>>

Permitted ==
    /\ handler.pc = "permit"
    /\ \A e \in Endpoints : stream[e].attached => ~stream[e].want
    /\ handler' = [handler EXCEPT !.pc = "deliver"]
    /\ UNCHANGED <<record, stream, gone>>

WaitAll ==
    /\ handler.pc = "deliver"
    /\ \A e \in handler.local : stream[e].done
    /\ handler' = [pc |-> "out", local |-> {}]
    /\ UNCHANGED <<record, stream, gone>>

-----------------------------------------------------------------------------
\* ReapThreadProc: its events join the pool.  They are new.
Attach(e) ==
    LET s == stream[e] IN
    /\ s.pc = "attach" /\ PoolFree
    /\ Becomes(e, [s EXCEPT !.pc = "top", !.attached = TRUE, !.requested = FALSE,
                            !.want = FALSE, !.allow = FALSE, !.done = FALSE])

request(s) ==
    IF s.requested THEN s
    ELSE [s EXCEPT !.done = FALSE, !.want = TRUE, !.requested = TRUE]

\* Ready transfers come first: permission is asked for, and waited for a millisecond.
Top(e) ==
    LET s == stream[e] IN
    /\ s.pc = "top"
    /\ Becomes(e,
         IF s.ready = <<>>
         THEN [s EXCEPT !.pc = IF s.listTransfers = <<>> THEN "exit" ELSE "reap"]
         ELSE IF s.requested /\ s.allow
         THEN [s EXCEPT !.pc = "deliver", !.requested = FALSE]
         ELSE [request(s) EXCEPT !.pc = "reap"])

libusbemu_deliver_transfer(e) ==
    LET s == stream[e] IN
    /\ s.pc = "deliver"
    /\ Becomes(e,
         IF s.ready = <<>> THEN [s EXCEPT !.pc = "reap", !.done = TRUE]
         ELSE called([s EXCEPT !.ready = Tail(@)], Head(s.ready)))

Reaped_StaysListed(e) ==
    LET s == stream[e]
        t == Head(s.listTransfers)
    IN
    /\ s.pc = "reap" /\ s.listTransfers # <<>> /\ ~gone
    /\ Len(s.ready) < Num
    /\ Becomes(e, [s EXCEPT !.pc = "top", !.status[t] = "completed", !.ready = Append(@, t)])

\* The head of the list has data.
Reaped(e) ==
    LET s == stream[e]
        t == Head(s.listTransfers)
    IN
    /\ s.pc = "reap" /\ s.listTransfers # <<>> /\ ~gone
    /\ Becomes(e, [s EXCEPT !.pc = "top", !.status[t] = "completed",
                            !.listTransfers = Tail(@), !.ready = Append(@, t)])

TimedOut_Forgets(e) ==
    /\ stream[e].pc = "reap" /\ stream[e].listTransfers # <<>> /\ ~gone
    /\ Becomes(e, [stream[e] EXCEPT !.pc = "top"])

\* ETIMEOUT: a cancelled transfer is called back, by this thread; another stays.
TimedOut(e) ==
    LET s == stream[e]
        t == Head(s.listTransfers)
    IN
    /\ s.pc = "reap" /\ s.listTransfers # <<>> /\ ~gone
    /\ Becomes(e, IF s.status[t] = "cancelled"
                  THEN called([s EXCEPT !.pc = "top", !.listTransfers = Tail(@)], t)
                  ELSE [s EXCEPT !.pc = "top"])

\* EIO: the head is called back as NO_DEVICE; the others are dropped from the lists.
Lost(e) ==
    LET s == stream[e]
        t == Head(s.listTransfers)
    IN
    /\ s.pc = "reap" /\ s.listTransfers # <<>> /\ gone
    /\ Becomes(e, [s EXCEPT !.pc = "top", !.listTransfers = <<>>, !.ready = <<>>,
                            !.dead = @ + 1, !.status[t] = "no_device"])

\* No transfer is pending: the thread waits for the permission, whatever it has.
NonePending(e) ==
    LET s == stream[e] IN
    /\ s.pc = "reap" /\ s.listTransfers = <<>>
    /\ Becomes(e, [request(s) EXCEPT !.pc = "allow"])

Allowed(e) ==
    /\ stream[e].pc = "allow" /\ stream[e].allow
    /\ Becomes(e, [stream[e] EXCEPT !.pc = "top"])

\* The loop has ended.  The events are taken out of the pool; a handler that has it
\* locked is not let wait for them.
Exit(e) ==
    LET s == stream[e] IN
    /\ s.pc = "exit"
    /\ Becomes(e, IF PoolFree THEN [s EXCEPT !.pc = "end", !.attached = FALSE]
                  ELSE [s EXCEPT !.want = TRUE, !.done = TRUE])

\* poThreadObject = NULL
End(e) ==
    /\ stream[e].pc = "end"
    /\ Becomes(e, [stream[e] EXCEPT !.pc = "none"])

Unplug ==
    /\ ~gone
    /\ gone' = TRUE
    /\ UNCHANGED <<record, stream, handler>>

-----------------------------------------------------------------------------
ReapTransfer(e) == Reaped(e) \/ TimedOut(e) \/ Lost(e)

ReapThreadProc(e) ==
    \/ Attach(e) \/ Top(e) \/ libusbemu_deliver_transfer(e) \/ ReapTransfer(e)
    \/ NonePending(e) \/ Allowed(e) \/ Exit(e) \/ End(e)

Handle == libusb_handle_events \/ WaitAny \/ (\E e \in Endpoints : Permit(e)) \/ Permitted \/ WaitAll

Next ==
    \/ libusb_get_device_list \/ libusb_free_device_list \/ libusb_open \/ libusb_close
    \/ Handle \/ Unplug
    \/ \E e \in Endpoints : Start(e) \/ Stop(e) \/ Stopped(e) \/ ReapThreadProc(e)

Spec == Init /\ [][Next]_vars

\* The threads run, and a client that stops a stream handles events until it is stopped.
\* The handler looks at the events while the threads set and reset them; it does not
\* miss for ever that none, or that all, are signalled.
Fairness ==
    /\ WF_vars(Handle) /\ SF_vars(Permitted) /\ SF_vars(WaitAll)
    /\ \A e \in Endpoints : WF_vars(ReapThreadProc(e)) /\ SF_vars(Attach(e)) /\ SF_vars(Stopped(e))

FairSpec == Spec /\ Fairness

-----------------------------------------------------------------------------
TypeOK ==
    /\ record.refcount \in Nat
    /\ \A e \in Endpoints :
         /\ stream[e].phase \in {"stopped", "running", "stopping"}
         /\ stream[e].pc \in {"none", "attach", "top", "deliver", "reap", "allow", "exit", "end"}
         /\ stream[e].dead \in 0..Num

\* The record of a device lasts as long as a list or a handle refers to it.
RecordKept == record.refcount = record.lists + record.handles

\* A transfer that was submitted is in one list, once, until it is called back; the
\* client has counted all others, or it frees one that is active or waits for ever.
\* Only the loss of the device drops transfers.
TransfersAccounted ==
    \A e \in Endpoints :
      LET s == stream[e] IN
      s.phase # "stopped" /\ (gone => s.dead = 0) =>
        /\ Len(s.listTransfers) + Len(s.ready) + s.dead = Num
        /\ {s.listTransfers[n] : n \in 1..Len(s.listTransfers)}
             \cap {s.ready[n] : n \in 1..Len(s.ready)} = {}

Stranded(e) == stream[e].listTransfers # <<>> /\ stream[e].pc \in {"exit", "end", "none"}

\* "Your callback function will be invoked at some later time with a transfer status of
\* LIBUSB_TRANSFER_CANCELLED": a stream that stops is stopped, unless its device is
\* lost or its transfers were submitted to a thread that was ending.
CancelledReturn ==
    \A e \in Endpoints :
      stream[e].phase = "stopping" ~> stream[e].phase = "stopped" \/ gone \/ Stranded(e)

\* "or postpone the delivery to keep it in sync with libusb_handle_events()"
\* (ReapTransfer): transfers are delivered while the handler waits for it.
DeliveredInSync ==
    \A e \in Endpoints : stream[e].pc = "deliver" => handler.pc \in {"permit", "deliver"}
=============================================================================
