--------------------------- MODULE FirmwareLoader ---------------------------
(***************************************************************************)
(* The upload of the audio firmware (loader.c): the host sends the image in*)
(* pages, each a command, its bytes in chunks and a reply, and then the    *)
(* command that launches it.                                               *)
(*                                                                         *)
(* The image is its length and the size its header declares; the byte at   *)
(* index i is i.  What reaches the bootloader is the set of pairs of an    *)
(* address, counted from the base, and the byte that was sent for it.  Any *)
(* transfer may fail or come up short.  What the bootloader replies is read*)
(* and ignored, so a reply changes nothing here.                           *)
(*                                                                         *)
(* An operator named X_Y right before the operator X is a wrong variant of *)
(* X, kept to show that the properties tell it from X.                     *)
(***************************************************************************)
EXTENDS Integers, FiniteSetsExt

CONSTANTS
    Images,        \* firmware files: [bytes: Nat, size: Nat]
    Header,        \* sizeof(firmware_header)
    Page,          \* bytes in a page (0x4000)
    Chunk          \* bytes in a transfer (512)

ImagesAssumption == \A i \in Images : i.bytes \in Nat /\ i.size \in Nat
SizesAssumption == {Header, Page, Chunk} \subseteq Nat \ {0}

VARIABLES
    image,         \* the image that is uploaded
    up,            \* the locals of upload_firmware_from_memory
    tag,           \* dev->audio_tag
    sent,          \* the bytes sent since the bootloader started: <<address, byte>>
    launched       \* the launch command was sent

loaderVars == <<image, up, tag, sent, launched>>

Idle == [pc |-> "idle", left |-> 0, total |-> 0, read |-> 0, inPage |-> 0, addr |-> 0, res |-> 0]

Init ==
    /\ image = CHOOSE i \in Images : TRUE
    /\ up = Idle
    /\ tag = 0
    /\ sent = {}
    /\ launched = FALSE

\* A return; -errno may be 0, as nothing sets errno for a file that is too short.
Return(r) == up' = [up EXCEPT !.pc = "done", !.res = r]
NoFirmware ==
    /\ up.pc = "idle"
    /\ Return(-1)
    /\ UNCHANGED <<image, tag, sent, launched>>

\* The first file of the search path that opens; without its header it is not used.
upload_firmware(i) ==
    /\ up.pc = "idle"
    /\ image' = i
    /\ IF i.bytes < Header
       THEN \E r \in {0, -1} : Return(r)
       ELSE up' = [Idle EXCEPT !.pc = "page", !.left = i.bytes]
    /\ UNCHANGED <<tag, sent, launched>>

\* The bytes of the next page
PageBytes == Min({Page, image.size - up.total, up.left})

\* No command is sent for a page of no bytes, and none is launched that is not whole.
Truncated == up.total # image.size

PageCommand ==
    /\ up.pc = "page"
    /\ \/ /\ PageBytes <= 0
          /\ IF Truncated THEN Return(-1) ELSE up' = [up EXCEPT !.pc = "launch"]
       \/ /\ PageBytes > 0
          /\ \/ Return(-1)
             \/ up' = [up EXCEPT !.pc = "data", !.read = PageBytes, !.inPage = 0,
                                 !.left = @ - PageBytes]
    /\ UNCHANGED <<image, tag, sent, launched>>

ToSend == Min({Chunk, up.read - up.inPage})

SendChunk ==
    /\ up.pc = "data"
    /\ \/ /\ Return(-1)
          /\ UNCHANGED sent
       \/ /\ up' = [up EXCEPT !.pc = IF up.inPage + ToSend < up.read THEN "data" ELSE "reply",
                              !.inPage = @ + ToSend, !.total = @ + ToSend]
          /\ sent' = sent \cup {<<up.addr + up.inPage + k, up.total + k>> : k \in 0..ToSend - 1}
    /\ UNCHANGED <<image, tag, launched>>

PageReply_SameAddress ==
    /\ up.pc = "reply"
    /\ up' = [up EXCEPT !.pc = "page"]
    /\ tag' = tag + 1
    /\ UNCHANGED <<image, sent, launched>>

\* get_reply; its result is not looked at
PageReply ==
    /\ up.pc = "reply"
    /\ up' = [up EXCEPT !.pc = "page", !.addr = @ + up.read]
    /\ tag' = tag + 1
    /\ UNCHANGED <<image, sent, launched>>

Launch ==
    /\ up.pc = "launch"
    /\ \/ Return(-1) /\ UNCHANGED <<tag, launched>>
       \/ Return(0) /\ tag' = tag + 1 /\ launched' = TRUE
    /\ UNCHANGED <<image, sent>>

Transfer == PageCommand \/ SendChunk \/ PageReply \/ Launch

\* A firmware is launched only when every byte of it was sent, and to its address.
LaunchedWhole ==
    launched => \A a \in 0..image.size - 1 : {b \in 0..image.bytes : <<a, b>> \in sent} = {a}
=============================================================================
