------------------------------ MODULE LogCollect ------------------------------
(***************************************************************************)
(* prog_log and sidp_service while a host collects the log: the program-   *)
(* ming task appends a record per run, the service task answers            *)
(* DEVICE_INFO, SET_TIME, LOG_READ and LOG_ACK, one request at a time.     *)
(*                                                                         *)
(* The host (sidp-agent) is external: it asks for the acknowledged id,     *)
(* reads page after page "from the last ID it got" until an empty one,     *)
(* keeps what it got, and only then acknowledges.  An error or a lost      *)
(* answer ends the pull; the next one starts over.                         *)
(*                                                                         *)
(* on9rstore is external: entries have consecutive ids, a new one takes    *)
(* the place of the oldest, and any read may fail.  An entry may be found  *)
(* corrupt or too large, with or without a readable header.                *)
(***************************************************************************)
EXTENDS Integers, Sequences

CONSTANTS Capacity,    \* entries the log partition holds
          Room,        \* TX_BUF_SIZE less the headers
          EntrySize,   \* encoded size of a LogEntry, by type
          MaxId,       \* bound: entries ever written
          MaxFaults    \* bound: restarts, lost answers, unplugged cables, read errors

Kind == {"RUN", "BOOT"}
EntryType == Kind \cup {"UNKNOWN"}

(* What read_next_entry() finds: all, ESP_ERR_INVALID_CRC with a header, or not even that. *)
Condition == {"intact", "corrupt", "unreadable"}

(* manage.options bounds a record so that any one entry fits an answer. *)
ASSUME CollectAssumption ==
    /\ Capacity \in Nat \ {0}
    /\ Room \in Nat
    /\ EntrySize \in [EntryType -> 1..Room]
    /\ MaxId \in Nat \ {0} /\ MaxFaults \in Nat

VARIABLES log,            \* every entry ever written; its id is its index
          acked,          \* get_acked_entry_id()
          write_failed,   \* write_failed
          time_set,       \* time_set
          anchors,        \* time anchors written in this boot
          running,        \* a run has been admitted and not yet recorded
          conn,           \* the CDC session is open
          req,            \* the request the service task has or is about to get
          reading,        \* it is inside prog_log::read()
          after_id,       \* read(): after_id
          page,           \* read(): the entries encoded so far
          written,        \* read(): out.bytes_written
          ans,            \* the answer on its way to the host
          pull,           \* what the host waits for
          newest,         \* host: log_newest_id as of the start of the pull
          last,           \* host: the last id it got
          file,           \* host: the entries it has written to its file
          faults          \* faults so far

storeVars == <<log, acked>>
bootVars == <<write_failed, time_set, anchors>>
readVars == <<reading, after_id, page, written>>
hostVars == <<pull, newest, last, file>>
vars == <<storeVars, bootVars, running, conn, req, readVars, ans, hostVars, faults>>

Ids == 0..MaxId
Entry == [id : 1..MaxId, type : EntryType]
None == [op |-> "NONE"]
Request == [op : {"DEVICE_INFO", "SET_TIME", "LOG_READ", "LOG_ACK"}, arg : Ids]

(* One type invariant: log, service and host stay within their types; one anchor per boot. *)
CollectTypeOK ==
    /\ \A id \in DOMAIN log : log[id] \in [kind : Kind, cond : Condition]
    /\ Len(log) \in Ids /\ acked \in 0..Len(log)
    /\ write_failed \in BOOLEAN /\ time_set \in BOOLEAN /\ anchors \in 0..1
    /\ running \in BOOLEAN /\ conn \in BOOLEAN /\ reading \in BOOLEAN
    /\ req \in Request \cup {None}
    /\ after_id \in Ids
    /\ \A i \in DOMAIN page : page[i] \in Entry
    /\ written \in 0..Room
    /\ ans.op \in {"NONE", "DEVICE_INFO", "SET_TIME", "LOG_READ", "LOG_ACK"}
    /\ pull \in {"idle", "info", "time", "read", "ack"}
    /\ newest \in Ids /\ last \in Ids
    /\ file \subseteq Entry
    /\ faults \in 0..MaxFaults

Init ==
    /\ log = <<[kind |-> "BOOT", cond |-> "intact"]>>
    /\ acked = 0
    /\ write_failed = FALSE /\ time_set = FALSE /\ anchors = 0
    /\ running = FALSE
    /\ conn = FALSE /\ req = None
    /\ reading = FALSE /\ after_id = 0 /\ page = <<>> /\ written = 0
    /\ ans = None
    /\ pull = "idle" /\ newest = 0 /\ last = 0 /\ file = {}
    /\ faults = 0

-------------------------------------------------------------------------------
(***************************************************************************)
(* The store.                                                              *)
(***************************************************************************)

(* Mutant: the store is opened without protect_unacked. *)
overwrite_unacked == FALSE

(* init(): cfg.protect_unacked. *)
protect_unacked == TRUE

(* on9rstore::can_append(): the oldest entry may be overwritten, or there is room. *)
can_append == ~protect_unacked \/ Len(log) - acked < Capacity

(* The entries that have not been overwritten. *)
Stored == {id \in 1..Len(log) : id > Len(log) - Capacity}

(* on9rstore::read_next_entry(): the first stored entry from the cursor on. *)
Following(id) == {n \in Stored : n > id}
First(ids) == CHOOSE n \in ids : \A m \in ids : n <= m

check_space == ~write_failed /\ can_append

AppendEntry(kind, cond) == log' = Append(log, [kind |-> kind, cond |-> cond])

Fault == faults < MaxFaults /\ faults' = faults + 1

-------------------------------------------------------------------------------
(***************************************************************************)
(* The programming task.                                                   *)
(***************************************************************************)
StartRun ==
    /\ ~running
    /\ check_space
    /\ Len(log) < MaxId
    /\ running' = TRUE
    /\ UNCHANGED <<storeVars, bootVars, conn, req, readVars, ans, hostVars, faults>>

(* add_run(): the record is appended; what a later read finds is another matter. *)
AddRun ==
    /\ running
    /\ can_append
    /\ Len(log) < MaxId
    /\ \E cond \in Condition : AppendEntry("RUN", cond)
    /\ running' = FALSE
    /\ UNCHANGED <<acked, bootVars, conn, req, readVars, ans, hostVars, faults>>

(* add_run(): the append fails and may leave a torn entry. *)
AddRunFail ==
    /\ running
    /\ \/ UNCHANGED log
       \/ /\ can_append /\ Len(log) < MaxId
          /\ \E cond \in Condition \ {"intact"} : AppendEntry("RUN", cond)
    /\ write_failed' = TRUE
    /\ running' = FALSE
    /\ UNCHANGED <<acked, time_set, anchors, conn, req, readVars, ans, hostVars, faults>>

-------------------------------------------------------------------------------
(***************************************************************************)
(* The service task.                                                       *)
(***************************************************************************)

(* send_response(): into the void when the connection is gone (see ConnectionLost). *)
send_response(a) ==
    /\ req' = None
    /\ ans' = IF conn THEN a ELSE ans

OpDeviceInfo ==
    /\ req.op = "DEVICE_INFO"
    /\ send_response([op |-> "DEVICE_INFO", status |-> "OK", newest |-> Len(log), acked |-> acked])
    /\ UNCHANGED <<storeVars, bootVars, running, conn, readVars, hostVars, faults>>

(* Mutant: every SET_TIME adds an anchor. *)
set_time_again ==
    /\ time_set' = TRUE
    /\ anchors' = anchors + 1

(* set_time(): once per boot; appending the anchor may fail, and is tried again next time. *)
set_time ==
    \/ time_set /\ UNCHANGED <<time_set, anchors>>
    \/ ~time_set /\ time_set' = TRUE /\ anchors' = anchors + 1
    \/ ~time_set /\ UNCHANGED <<time_set, anchors>>

OpSetTime ==
    /\ req.op = "SET_TIME"
    /\ set_time
    /\ send_response([op |-> "SET_TIME", status |-> IF time_set' THEN "OK" ELSE "ERROR"])
    /\ UNCHANGED <<storeVars, write_failed, running, conn, readVars, hostVars, faults>>

(* Mutant: a log that has been pulled lets runs start again without a restart. *)
OpLogAckResumes ==
    /\ req.op = "LOG_ACK"
    /\ \/ /\ acked' = IF req.arg > acked THEN req.arg ELSE acked
          /\ send_response([op |-> "LOG_ACK", status |-> "OK"])
          /\ UNCHANGED faults
       \/ /\ Fault
          /\ send_response([op |-> "LOG_ACK", status |-> "ERROR"])
          /\ UNCHANGED acked
    /\ write_failed' = FALSE
    /\ UNCHANGED <<log, time_set, anchors, running, conn, readVars, hostVars>>

(* ack(up_to_id): the store remembers the id, or cannot. *)
OpLogAck ==
    /\ req.op = "LOG_ACK"
    /\ \/ /\ acked' = IF req.arg > acked THEN req.arg ELSE acked
          /\ send_response([op |-> "LOG_ACK", status |-> "OK"])
          /\ UNCHANGED faults
       \/ /\ Fault
          /\ send_response([op |-> "LOG_ACK", status |-> "ERROR"])
          /\ UNCHANGED acked
    /\ UNCHANGED <<log, bootVars, running, conn, readVars, hostVars>>

OpLogRead ==
    /\ req.op = "LOG_READ"
    /\ ~reading
    /\ reading' = TRUE
    /\ after_id' = req.arg
    /\ page' = <<>>
    /\ written' = 0
    /\ UNCHANGED <<storeVars, bootVars, running, conn, req, ans, hostVars, faults>>

(* Mutant: an entry that is not intact is an error like any other. *)
read_entry_strict(id) ==
    {e \in {[id |-> id, type |-> log[id].kind]} : log[id].cond = "intact"}

(***************************************************************************)
(* read_entry(): a corrupt entry, or one too large, is reported as UNKNOWN *)
(* "so the host can acknowledge past it", provided its header can be read. *)
(* An empty set is an error, and one that every later read meets again.    *)
(***************************************************************************)
read_entry(id) ==
    {e \in {[id |-> id, type |-> IF log[id].cond = "intact" THEN log[id].kind ELSE "UNKNOWN"]} :
        log[id].cond # "unreadable"}

(* read(): one more entry of the page. *)
ReadEntry ==
    /\ reading
    /\ Following(after_id) # {}
    /\ \E e \in read_entry(First(Following(after_id))) :
          /\ written + EntrySize[e.type] <= Room
          /\ page' = Append(page, e)
          /\ written' = written + EntrySize[e.type]
          /\ after_id' = e.id
    /\ UNCHANGED <<storeVars, bootVars, running, conn, req, reading, ans, hostVars, faults>>

(* read() returns: handle_frame() drops the payload of a status other than OK. *)
ReadReturns(status) ==
    /\ reading
    /\ reading' = FALSE
    /\ after_id' = 0
    /\ page' = <<>>
    /\ written' = 0
    /\ send_response([op |-> "LOG_READ", status |-> status,
                      entries |-> IF status = "OK" THEN page ELSE <<>>])
    /\ UNCHANGED <<storeVars, bootVars, running, conn, hostVars>>

(* read_entry() = ESP_ERR_NOT_FOUND, or the next entry does not fit any more. *)
ReadEnd ==
    /\ \A n \in Following(after_id) : n = First(Following(after_id)) =>
          \E e \in read_entry(n) : written + EntrySize[e.type] > Room
    /\ ReadReturns("OK")
    /\ UNCHANGED faults

(* Mutant: whatever was read counts, nothing too. *)
read_status_lenient == "OK"

(* read(): after an error, what was encoded before it is still sent. *)
read_status == IF written > 0 THEN "OK" ELSE "ERROR"

(* read_entry() fails: for once, or because not even a header is to be had. *)
ReadError ==
    /\ \/ Fault
       \/ UNCHANGED faults /\ Following(after_id) # {}
                           /\ read_entry(First(Following(after_id))) = {}
    /\ ReadReturns(read_status)

-------------------------------------------------------------------------------
(***************************************************************************)
(* The host.                                                               *)
(***************************************************************************)
Ask(o, a) == req' = [op |-> o, arg |-> a] /\ ans' = None

(* begin_session() accepts a new connection. *)
PullBegin ==
    /\ pull = "idle"
    /\ ~conn /\ ~reading /\ req = None
    /\ conn' = TRUE
    /\ pull' = "info"
    /\ Ask("DEVICE_INFO", 0)
    /\ UNCHANGED <<storeVars, bootVars, running, readVars, newest, last, file, faults>>

GotInfo ==
    /\ conn /\ ans.op = "DEVICE_INFO"
    /\ newest' = ans.newest
    /\ last' = ans.acked
    /\ pull' = "time"
    /\ Ask("SET_TIME", 0)
    /\ UNCHANGED <<storeVars, bootVars, running, conn, readVars, file, faults>>

GotTime ==
    /\ conn /\ ans.op = "SET_TIME"
    /\ pull' = "read"
    /\ Ask("LOG_READ", last)
    /\ UNCHANGED <<storeVars, bootVars, running, conn, readVars, newest, last, file, faults>>

(* A page with entries is kept, and the next one asked for. *)
GotPage ==
    /\ conn /\ ans.op = "LOG_READ" /\ ans.status = "OK"
    /\ ans.entries # <<>>
    /\ file' = file \cup {ans.entries[i] : i \in DOMAIN ans.entries}
    /\ last' = ans.entries[Len(ans.entries)].id
    /\ Ask("LOG_READ", last')
    /\ UNCHANGED <<storeVars, bootVars, running, conn, readVars, pull, newest, faults>>

(* An empty page ends the log: what was collected is acknowledged. *)
GotEnd ==
    /\ conn /\ ans.op = "LOG_READ" /\ ans.status = "OK"
    /\ ans.entries = <<>>
    /\ pull' = "ack"
    /\ Ask("LOG_ACK", last)
    /\ UNCHANGED <<storeVars, bootVars, running, conn, readVars, newest, last, file, faults>>

(* The pull is over: acknowledged, refused, or cut off without an answer. *)
PullEnd ==
    /\ pull # "idle"
    /\ \/ conn /\ ans.op = "LOG_ACK"
       \/ conn /\ ans.op = "LOG_READ" /\ ans.status # "OK"
       \/ ~conn
    /\ pull' = "idle"
    /\ conn' = FALSE
    /\ ans' = None
    /\ newest' = 0 /\ last' = 0
    /\ UNCHANGED <<storeVars, bootVars, running, req, readVars, file, faults>>

(***************************************************************************)
(* The cable is pulled, or send_response() cannot queue its answer and the *)
(* transport latches itself closed: a request not yet served and an answer *)
(* not yet read are gone.                                                  *)
(***************************************************************************)
ConnectionLost ==
    /\ Fault
    /\ conn
    /\ conn' = FALSE
    /\ req' = IF reading THEN req ELSE None
    /\ ans' = None
    /\ UNCHANGED <<storeVars, bootVars, running, readVars, hostVars>>

(* Power loss and boot: what is in RAM starts over. *)
Boot ==
    /\ write_failed' = FALSE /\ time_set' = FALSE /\ anchors' = 0
    /\ running' = FALSE
    /\ conn' = FALSE /\ req' = None /\ ans' = None
    /\ reading' = FALSE /\ after_id' = 0 /\ page' = <<>> /\ written' = 0

(***************************************************************************)
(* prog_log::init() recovers the store, which records the boot when there  *)
(* is room (or the bound allows).                                          *)
(***************************************************************************)
Restart ==
    /\ Fault
    /\ Boot
    /\ IF can_append /\ Len(log) < MaxId
       THEN \E cond \in Condition : AppendEntry("BOOT", cond)
       ELSE UNCHANGED log
    /\ UNCHANGED <<acked, hostVars>>

(***************************************************************************)
(* prog_log::init() cannot mount the partition and formats it              *)
(* (format_if_mount_failed): entries and acknowledged id are gone, and ids *)
(* start over.  The host's pull is cut off, and its file is from now on    *)
(* that of the new log.                                                    *)
(***************************************************************************)
RestartFormatted ==
    /\ Fault
    /\ Boot
    /\ \E cond \in Condition : log' = <<[kind |-> "BOOT", cond |-> cond]>>
    /\ acked' = 0
    /\ pull' = "idle" /\ newest' = 0 /\ last' = 0 /\ file' = {}

Programming == StartRun \/ AddRun \/ AddRunFail
Service == OpDeviceInfo \/ OpSetTime \/ OpLogAck \/ OpLogRead \/ ReadEntry \/ ReadEnd \/ ReadError
Host == PullBegin \/ GotInfo \/ GotTime \/ GotPage \/ GotEnd \/ PullEnd

Next == Programming \/ Service \/ Host \/ ConnectionLost \/ Restart \/ RestartFormatted

Spec == Init /\ [][Next]_vars

(* The service task runs, the host pulls again and again, and faults end (MaxFaults). *)
FairSpec == Spec /\ WF_vars(Service) /\ WF_vars(Host)

-------------------------------------------------------------------------------
(***************************************************************************)
(* prog_log.hpp: "Entries are never overwritten before the host            *)
(* acknowledges them", and the host only acknowledges what it has: no      *)
(* entry is acknowledged or overwritten before it is in the host's file,   *)
(* a run as a run unless the entry was corrupt, although records are       *)
(* appended between two pages and answers get lost.  (Of the log since it  *)
(* was last formatted: what a format wipes nobody ever reads.)             *)
(***************************************************************************)
NothingLost ==
    \A id \in 1..Len(log) : id <= acked \/ id \notin Stored =>
        \E e \in file : e.id = id /\ (log[id].cond = "intact" => e.type = log[id].kind)

(***************************************************************************)
(* read(): "The host asks again from the last ID it got."  Only the end of *)
(* the log looks like the end: a pull that acknowledges has got everything *)
(* that was in the log when it started, in spite of read errors and full   *)
(* pages.                                                                  *)
(***************************************************************************)
PullComplete == pull = "ack" => \A id \in 1..newest : id <= acked \/ \E e \in file : e.id = id

(* A read that gets to such an entry fails, on this pull and on every later one. *)
Stalled == \E id \in Following(acked) : log[id].cond = "unreadable"

(***************************************************************************)
(* storage-files.md: a full log refuses to program "until the log is       *)
(* pulled".  With a host that keeps pulling, every entry, corrupt ones     *)
(* too, is acknowledged in the end, which makes room again, unless it is   *)
(* wiped by a format.  The one exception is the code's: read_entry()       *)
(* cannot pass an entry without a readable header, and then nothing from   *)
(* there on, nor what the same pull got before it, is ever acknowledged.   *)
(***************************************************************************)
EverythingCollected ==
    \A id \in 1..MaxId : Len(log) >= id ~> acked >= id \/ Len(log) < id \/ Stalled

(***************************************************************************)
(* The log with its entries implements the log SoulInjector uses, which    *)
(* counts the uncollected ones: reads, the clock, lost answers and aborted *)
(* pulls change nothing there.                                             *)
(***************************************************************************)
Counted == INSTANCE ProgLog WITH uncollected <- Len(log) - acked
ImplementsProgLog == Counted!LogSpec

===============================================================================
