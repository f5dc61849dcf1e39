---------------------------- MODULE MassStorage ----------------------------
(***************************************************************************)
(* The USB host and the sketch share one medium: the bulk-only transport     *)
(* (usbd_msc_bot.c) and the SCSI commands (usbd_msc_scsi.c) over the          *)
(* callbacks of dosfs_storage.c, against f_initvolume(), f_delvolume() and    *)
(* the calls between them (dosfs_core.c).  They keep apart by the bits of     *)
(* dosfs_device.lock.                                                      *)
(*                                                                         *)
(* The host's side runs in the USB interrupt, one action per event.  The     *)
(* sketch runs in the thread, one action per access to the lock.  A medium    *)
(* is attached (dosfs_device.interface is set), and the first two seconds,    *)
(* in which every command is refused, are over.                            *)
(***************************************************************************)
EXTENDS Integers

CONSTANT MaxBlocks      \* bound: the blocks of one transfer, a packet each

ASSUME BlocksAssumption == MaxBlocks \in Nat

VARIABLES
  lock,         \* dosfs_device.lock; INIT was cleared at boot, SFLASH is never set
  volume,       \* volume->state of the file system
  thread,           \* where the thread is
  seen,         \* the lock as it has read it
  deleting,     \* its call is f_delvolume()
  config,       \* the host has configured the device
  bot_state,    \* hmsc->bot_state
  bot_status,   \* hmsc->bot_status
  blocks,       \* hmsc->scsi_blk_len, in blocks
  out,          \* what the OUT endpoint is to receive
  in,           \* what the IN endpoint is sending
  stalled,      \* the IN endpoint is stalled
  leaked,       \* history: SCSI was left set by a command that failed, or was
                \*   reset or cleared
  viewed,       \* history: the host has read or written the medium
  unseen,       \* history: the file system has changed it since, and the host
                \*   was not told
  clash,        \* history: a transfer touched the medium during a call
  blind,        \* history: a transfer touched it while there was something unseen
  unlocked      \* history: a call used the medium without the lock, see below

threadVars == <<volume, thread, seen, deleting, unlocked>>
botVars == <<config, bot_state, bot_status, blocks, out, in, stalled>>
noteVars == <<leaked, viewed, unseen, clash, blind>>
storageVars == <<lock, threadVars, botVars, noteVars>>

Bit == {"VOLUME", "SCSI", "MEDIUM", "EJECTED", "ACCESSED", "MODIFIED"}

-----------------------------------------------------------------------------
(* The file system: one thread.                                            *)

(* f_initvolume() looks at the lock until the host leaves the medium alone,  *)
InitVolume ==
  /\ thread = "idle"
  /\ lock \cap {"SCSI", "MEDIUM"} = {}
  /\ seen' = lock
  /\ thread' = "swap"
  /\ UNCHANGED <<lock, volume, deleting, unlocked, botVars, noteVars>>

(* Fault: the lock is taken whatever it is by now.                         *)
InitSwapBlind ==
  /\ thread = "swap"
  /\ lock' = lock \cup {"VOLUME"} /\ thread' = "init"
  /\ UNCHANGED <<volume, seen, deleting, unlocked, botVars, noteVars>>

(* takes it, unless it has changed since; the volume is then                *)
InitSwap ==
  /\ thread = "swap"
  /\ \/ lock = seen /\ lock' = lock \cup {"VOLUME"} /\ thread' = "init"
     \/ lock # seen /\ UNCHANGED lock /\ thread' = "idle"
  /\ UNCHANGED <<volume, seen, deleting, unlocked, botVars, noteVars>>

(* initialized (dosfs_volume_init() fails only where no medium is attached).  *)
InitDone ==
  /\ thread = "init"
  /\ volume' = "INITIALIZED"
  /\ thread' = "idle"
  /\ UNCHANGED <<lock, seen, deleting, unlocked, botVars, noteVars>>

(* Any other call, which mounts the volume if it must, or f_delvolume().      *)
(* Neither looks at the lock: between f_delvolume() and the next              *)
(* f_initvolume() the volume is still INITIALIZED, and such a call uses the   *)
(* medium without the lock.  The properties hold until then (unlocked).      *)
Call(delete) ==
  /\ thread = "idle"
  /\ volume # "NONE"
  /\ deleting' = delete
  /\ volume' = IF delete \/ volume = "UNUSABLE" THEN volume ELSE "MOUNTED"
  /\ thread' = "use"
  /\ unlocked' = ("VOLUME" \notin lock)
  /\ UNCHANGED <<lock, seen, botVars, noteVars>>

(* A block is written, and then MODIFIED set, with a load and a store.       *)
Modify ==
  /\ thread = "use"
  /\ unseen' = (unseen \/ viewed)
  /\ thread' = "load"
  /\ UNCHANGED <<lock, volume, seen, deleting, unlocked, botVars, leaked, viewed, clash, blind>>

ModifyLoad ==
  /\ thread = "load"
  /\ seen' = lock
  /\ thread' = "store"
  /\ UNCHANGED <<lock, volume, deleting, unlocked, botVars, noteVars>>

ModifyStore ==
  /\ thread = "store"
  /\ lock' = seen \cup {"MODIFIED"}
  /\ thread' = "use"
  /\ UNCHANGED <<volume, seen, deleting, unlocked, botVars, noteVars>>

(* The call returns; an error may leave the volume in another state.         *)
Return ==
  /\ thread = "use"
  /\ \/ deleting /\ volume' = "INITIALIZED" /\ thread' = "free"
     \/ volume' \in {volume, "CARDREMOVED", "UNUSABLE"} /\ thread' = "idle"
  /\ UNCHANGED <<lock, seen, deleting, unlocked, botVars, noteVars>>

Free ==
  /\ thread = "free"
  /\ lock' = lock \ {"VOLUME"}
  /\ thread' = "idle"
  /\ UNCHANGED <<volume, seen, deleting, unlocked, botVars, noteVars>>

Using == thread \in {"use", "load", "store"}

-----------------------------------------------------------------------------
(* dosfs_storage.c: what the callbacks make of the lock.                    *)

Ready == lock \cap {"VOLUME", "EJECTED"} = {}

(* is_changed() reports a change to a host that has used the medium.        *)
Changed == {"MODIFIED", "ACCESSED"} \subseteq lock

(* read() and write() of one packet, after the lock has been made l.        *)
Moved(l, last) == (IF last THEN l \ {"SCSI"} ELSE l) \cup {"ACCESSED"}
Failed(l) == l \ {"SCSI"}

Touch ==
  /\ clash' = (clash \/ Using)
  /\ blind' = (blind \/ unseen)
  /\ viewed' = TRUE

-----------------------------------------------------------------------------
(* The bulk-only transport.                                                *)

SendCSW ==
  /\ bot_state' = "IDLE"
  /\ in' = "csw" /\ out' = "cbw"

(* The next packet of a READ10 of n blocks, or of a WRITE10.  The callback is  *)
(* told whether it is the last.                                            *)
ProcessRead(l, n) ==
  /\ lock' = Moved(l, n <= 1)
  /\ blocks' = IF n = 0 THEN 0 ELSE n - 1
  /\ bot_state' = IF n <= 1 THEN "LAST_DATA_IN" ELSE "DATA_IN"
  /\ in' = "data" /\ out' = "none"
  /\ Touch
  /\ UNCHANGED stalled

ProcessWrite ==
  /\ lock' = Moved(lock, blocks = 1)
  /\ blocks' = blocks - 1
  /\ Touch
  /\ \/ blocks = 1 /\ SendCSW
     \/ blocks > 1 /\ UNCHANGED <<bot_state, out, in>>

(* An error of the medium in the middle of a transfer: the command fails.    *)
TransferError ==
  /\ lock' = Failed(lock)
  /\ SendCSW
  /\ UNCHANGED <<blocks, viewed, clash, blind>>

(* A command comes when the host has had the status of the last one.        *)
Command == config /\ bot_state = "IDLE" /\ out = "cbw" /\ in = "none" /\ ~stalled

(* MSC_BOT_Abort() of a command.                                           *)
Abort ==
  /\ stalled' = TRUE
  /\ out' = "none"
  /\ UNCHANGED in

(* Fault: a command to a medium that is not ready forgets the change.        *)
RefuseUntold ==
  /\ Command
  /\ Changed \/ ~Ready
  /\ lock' = lock \ {"MODIFIED"}
  /\ unseen' = (unseen /\ ~(Changed /\ Ready))
  /\ Abort
  /\ UNCHANGED <<threadVars, config, bot_state, bot_status, blocks, leaked, viewed, clash, blind>>

(* READ10 and WRITE10: first is_changed(), then acquire().  A medium that    *)
(* has changed, or that is not ready, ends the command ...                  *)
Refuse ==
  /\ Command
  /\ Changed \/ ~Ready
  /\ lock' = lock \ {"MODIFIED"}
  /\ unseen' = (unseen /\ ~Changed)
  /\ Abort
  /\ UNCHANGED <<threadVars, config, bot_state, bot_status, blocks, leaked, viewed, clash, blind>>

(* ... else the lock is taken.                                             *)
Acquired == (lock \ {"MODIFIED"}) \cup {"SCSI"}

(* A command beyond the end of the medium, or one whose length is not that   *)
(* of its wrapper, ends here: the lock remains taken.                       *)
Misfit ==
  /\ Command
  /\ ~Changed /\ Ready
  /\ lock' = Acquired
  /\ leaked' = TRUE
  /\ bot_state' \in {"IDLE", "DATA_IN"}
  /\ Abort
  /\ UNCHANGED <<threadVars, config, bot_status, blocks, viewed, unseen, clash, blind>>

Read10(n) ==
  /\ Command
  /\ ~Changed /\ Ready
  /\ \/ ProcessRead(Acquired, n)
     \/ /\ lock' = Failed(Acquired)
        /\ blocks' = n
        /\ bot_state' = "DATA_IN"
        /\ Abort
        /\ UNCHANGED <<viewed, clash, blind>>
  /\ leaked' = FALSE
  /\ UNCHANGED <<threadVars, config, bot_status, unseen>>

Write10(n) ==
  /\ Command
  /\ ~Changed /\ Ready
  /\ lock' = Acquired
  /\ leaked' = FALSE
  /\ blocks' = n
  /\ bot_state' = "DATA_OUT"
  /\ out' = "data"
  /\ UNCHANGED <<threadVars, config, bot_status, in, stalled, viewed, unseen, clash, blind>>

(* PREVENT ALLOW MEDIUM REMOVAL, and START STOP UNIT with an eject.  They     *)
(* pass even where the callback refuses.                                   *)
Prevent(on) ==
  /\ Command
  /\ lock' = IF ~Ready THEN lock
             ELSE IF on THEN lock \cup {"MEDIUM"} ELSE lock \ {"MEDIUM"}
  /\ SendCSW
  /\ UNCHANGED <<threadVars, config, bot_status, blocks, stalled, noteVars>>

Eject ==
  /\ Command
  /\ \/ /\ Ready
        /\ lock' = (lock \ {"ACCESSED", "SCSI", "MEDIUM"}) \cup {"EJECTED"}
        /\ leaked' = FALSE /\ viewed' = FALSE /\ unseen' = FALSE
     \/ ~Ready /\ UNCHANGED <<lock, leaked, viewed, unseen>>
  /\ SendCSW
  /\ UNCHANGED <<threadVars, config, bot_status, blocks, stalled, clash, blind>>

(* The commands that leave the lock alone: with no data, with data, and one   *)
(* that fails.                                                             *)
OtherCommand ==
  /\ Command
  /\ \/ SendCSW /\ UNCHANGED stalled
     \/ bot_state' = "SEND_DATA" /\ in' = "data" /\ out' = "none" /\ UNCHANGED stalled
     \/ Abort /\ UNCHANGED bot_state
  /\ UNCHANGED <<lock, threadVars, config, bot_status, blocks, noteVars>>

(* A wrapper that is none.                                                 *)
BadCommand ==
  /\ Command
  /\ bot_status' = "ERROR"
  /\ stalled' = TRUE
  /\ UNCHANGED <<lock, threadVars, config, bot_state, blocks, out, in, noteVars>>

(* MSC_BOT_DataIn(): the host has taken a packet.                           *)
DataIn ==
  /\ config /\ in # "none" /\ ~stalled
  /\ \/ bot_state = "DATA_IN" /\ ProcessRead(lock, blocks)
     \/ bot_state = "DATA_IN" /\ TransferError /\ UNCHANGED stalled
     \/ /\ bot_state \in {"SEND_DATA", "LAST_DATA_IN"}
        /\ SendCSW
        /\ UNCHANGED <<lock, blocks, stalled, viewed, clash, blind>>
     \/ /\ bot_state \notin {"DATA_IN", "SEND_DATA", "LAST_DATA_IN"}
        /\ in' = "none"
        /\ UNCHANGED <<lock, bot_state, blocks, out, stalled, viewed, clash, blind>>
  /\ UNCHANGED <<threadVars, config, bot_status, leaked, unseen>>

(* MSC_BOT_DataOut(): the host has sent a packet.  For a WRITE10 of no        *)
(* blocks it sends none.                                                   *)
DataOut ==
  /\ config /\ out = "data" /\ blocks > 0
  /\ ProcessWrite \/ TransferError
  /\ UNCHANGED <<threadVars, config, bot_status, stalled, leaked, unseen>>

(* The host clears the halt of the IN endpoint, stalled or not: what was     *)
(* being sent there is flushed, and a command under way is over, with its     *)
(* lock still taken.  (One of the OUT endpoint has none of these effects,     *)
(* except that it too ends an ERROR.)                                       *)
ClearFeature ==
  /\ config
  /\ \/ /\ bot_status = "ERROR"
        /\ bot_status' = "NORMAL"
        /\ stalled' = TRUE /\ in' = "none"
        /\ UNCHANGED <<bot_state, out>>
     \/ /\ bot_status = "NORMAL"
        /\ stalled' = FALSE
        /\ SendCSW
        /\ UNCHANGED bot_status
     \/ /\ bot_status = "RECOVERY"
        /\ stalled' = FALSE /\ in' = "none"
        /\ UNCHANGED <<bot_state, out, bot_status>>
  /\ leaked' = ("SCSI" \in lock /\ out' # "data")
  /\ UNCHANGED <<lock, threadVars, config, blocks, viewed, unseen, clash, blind>>

(* The host gives up a command: MSC_BOT_Reset() leaves the lock alone.       *)
BotReset ==
  /\ config
  /\ bot_state' = "IDLE"
  /\ bot_status' = "RECOVERY"
  /\ out' = "cbw"
  /\ leaked' = ("SCSI" \in lock)
  /\ UNCHANGED <<lock, threadVars, config, blocks, in, stalled, viewed, unseen, clash, blind>>

Configure ==
  /\ ~config
  /\ config' = TRUE
  /\ bot_state' = "IDLE" /\ bot_status' = "NORMAL"
  /\ out' = "cbw" /\ in' = "none" /\ stalled' = FALSE
  /\ UNCHANGED <<lock, threadVars, blocks, noteVars>>

(* The cable is pulled, or the bus is reset.                                *)
Deconfigure ==
  /\ config
  /\ config' = FALSE
  /\ lock' = lock \ {"ACCESSED", "SCSI", "MEDIUM"}
  /\ bot_state' = "IDLE"
  /\ out' = "none" /\ in' = "none"
  /\ leaked' = FALSE /\ viewed' = FALSE /\ unseen' = FALSE
  /\ UNCHANGED <<threadVars, bot_status, blocks, stalled, clash, blind>>

-----------------------------------------------------------------------------
StorageInit ==
  /\ lock = {}
  /\ volume = "NONE" /\ thread = "idle" /\ seen = {} /\ deleting = FALSE
  /\ config = FALSE /\ bot_state = "IDLE" /\ bot_status = "NORMAL" /\ blocks = 0
  /\ out = "none" /\ in = "none" /\ stalled = FALSE
  /\ leaked = FALSE /\ viewed = FALSE /\ unseen = FALSE
  /\ clash = FALSE /\ blind = FALSE /\ unlocked = FALSE

FileSystem ==
  \/ InitVolume \/ InitSwap \/ InitDone
  \/ \E delete \in BOOLEAN : Call(delete)
  \/ Modify \/ ModifyLoad \/ ModifyStore \/ Return \/ Free

Host ==
  \/ Refuse \/ Misfit
  \/ \E n \in 0..MaxBlocks : Read10(n) \/ Write10(n)
  \/ \E on \in BOOLEAN : Prevent(on)
  \/ Eject \/ OtherCommand \/ BadCommand
  \/ DataIn \/ DataOut
  \/ ClearFeature \/ BotReset \/ Configure \/ Deconfigure

StorageNext == ~unlocked /\ (FileSystem \/ Host)

StorageSpec == StorageInit /\ [][StorageNext]_storageVars

-----------------------------------------------------------------------------
(* Properties.                                                             *)

StorageTypeOK ==
  /\ lock \subseteq Bit /\ seen \subseteq Bit
  /\ volume \in {"NONE", "INITIALIZED", "MOUNTED", "CARDREMOVED", "UNUSABLE"}
  /\ thread \in {"idle", "swap", "init", "use", "load", "store", "free"}
  /\ bot_state \in {"IDLE", "DATA_OUT", "DATA_IN", "LAST_DATA_IN", "SEND_DATA"}
  /\ bot_status \in {"NORMAL", "RECOVERY", "ERROR"}
  /\ blocks \in 0..MaxBlocks
  /\ out \in {"none", "cbw", "data"} /\ in \in {"none", "data", "csw"}
  /\ deleting \in BOOLEAN /\ config \in BOOLEAN /\ stalled \in BOOLEAN
  /\ leaked \in BOOLEAN /\ viewed \in BOOLEAN /\ unseen \in BOOLEAN
  /\ clash \in BOOLEAN /\ blind \in BOOLEAN /\ unlocked \in BOOLEAN

(* A callback of the host may still touch the medium for this command.      *)
InTransfer ==
  \/ bot_state = "DATA_IN" /\ in = "data"
  \/ bot_state = "DATA_OUT" /\ out = "data"

(* The host and the file system are never on the medium together, however    *)
(* the look at the lock, the transfers, their errors, resets and             *)
(* disconnections fall: a transfer has SCSI set throughout, and only a        *)
(* command that failed its checks, was reset or was cleared leaves it set     *)
(* (leaked).                                                              *)
Exclusive ==
  ~unlocked =>
    /\ ~clash
    /\ Using => ~InTransfer /\ lock \cap {"SCSI", "MEDIUM"} = {}
    /\ "SCSI" \in lock <=> InTransfer \/ leaked

(* A host that has used the medium is told (UNIT ATTENTION) that the file     *)
(* system has changed it before it reads or writes there again, although the *)
(* host's commands take MODIFIED away while the file system goes on writing. *)
Told == ~unlocked => ~blind
=============================================================================
