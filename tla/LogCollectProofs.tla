--------------------------- MODULE LogCollectProofs ---------------------------
(***************************************************************************)
(* Proofs about LogCollect, for every capacity, answer size and bound.     *)
(*                                                                         *)
(* Why nothing is lost: the service task has one request at a time, so     *)
(* the acknowledged id stands still while a pull reads; the entry after    *)
(* it cannot have been overwritten, and the pages a pull gets are          *)
(* therefore consecutive from there on (PageInv, AnsInv).  What the host   *)
(* acknowledges is the last id it got, and it has everything up to it      *)
(* (HostInv).                                                              *)
(***************************************************************************)
EXTENDS LogCollect, SequenceTheorems, TLAPS

LogRecord == [kind : Kind, cond : Condition]

(* The types the other parts need: sequences as sequences, one anchor at most. *)
TypeInv ==
    /\ log \in Seq(LogRecord) /\ Len(log) \in Ids
    /\ acked \in 0..Len(log)
    /\ write_failed \in BOOLEAN /\ time_set \in BOOLEAN /\ anchors \in 0..1
    /\ ~time_set => anchors = 0
    /\ running \in BOOLEAN /\ conn \in BOOLEAN /\ reading \in BOOLEAN
    /\ req \in Request \cup {None}
    /\ after_id \in Ids
    /\ page \in Seq(Entry)
    /\ written \in 0..Room
    /\ ans.op \in {"NONE", "DEVICE_INFO", "SET_TIME", "LOG_READ", "LOG_ACK"}
    /\ pull \in {"idle", "info", "time", "read", "ack"}
    /\ newest \in Ids /\ last \in Ids
    /\ file \subseteq Entry
    /\ faults \in 0..MaxFaults

(* What an entry says of the record it was read from. *)
Recorded(e) == log[e.id].cond = "intact" => e.type = log[e.id].kind

(* The host has the record of this id. *)
Has(id) == \E e \in file : e.id = id /\ Recorded(e)

(* The entries of a page are the ones after an id, one by one. *)
Continues(entries, id) ==
    /\ id + Len(entries) <= Len(log)
    /\ \A i \in 1..Len(entries) : entries[i].id = id + i /\ Recorded(entries[i])

(* A request is the one the host waits for, unless the service still reads for a lost one. *)
ReqInv ==
    /\ req # None /\ ~reading => conn
    /\ reading => req.op = "LOG_READ"
    /\ req.op = "DEVICE_INFO" => pull = "info"
    /\ req.op = "SET_TIME" => pull = "time"
    /\ req.op = "LOG_READ" => acked <= req.arg /\ req.arg <= Len(log)
    /\ req.op = "LOG_READ" /\ conn => pull = "read" /\ req.arg = last
    /\ req.op = "LOG_ACK" => pull = "ack" /\ req.arg = last

(* The page under way continues what was asked for. *)
PageInv ==
    reading =>
        /\ after_id = req.arg + Len(page)
        /\ Continues(page, req.arg)
        /\ page = <<>> => written = 0

(* An answer is to the host's own question, and an empty page is the end. *)
AnsInv ==
    /\ ~conn => ans.op = "NONE"
    /\ ans.op # "NONE" => req = None
    /\ ans.op = "DEVICE_INFO" => pull = "info" /\ ans.acked = acked /\ ans.newest \in 0..Len(log)
    /\ ans.op = "SET_TIME" => pull = "time"
    /\ ans.op = "LOG_READ" =>
          /\ pull = "read"
          /\ ans.entries \in Seq(Entry)
          /\ Continues(ans.entries, last)
          /\ ans.status = "OK" /\ ans.entries = <<>> => newest <= last
    /\ ans.op = "LOG_ACK" => pull = "ack"

(* The host has everything up to the last id it got, and up to the acknowledged one. *)
HostInv ==
    /\ newest <= Len(log) /\ last <= Len(log)
    /\ pull \in {"time", "read", "ack"} => acked <= last
    /\ pull = "ack" => newest <= last
    /\ \A id \in 1..last : Has(id)
    /\ \A id \in 1..acked : Has(id)
    /\ Len(log) - acked <= Capacity

IInv == TypeInv /\ ReqInv /\ PageInv /\ AnsInv /\ HostInv

-------------------------------------------------------------------------------
(***************************************************************************)
(* Facts about the store.                                                  *)
(***************************************************************************)
USE DEF storeVars, bootVars, readVars, hostVars

(* A record is appended behind the others, which stay as they are. *)
LEMMA Appended ==
    ASSUME log \in Seq(LogRecord), NEW r \in LogRecord, log' = Append(log, r)
    PROVE  /\ log' \in Seq(LogRecord)
           /\ Len(log') = Len(log) + 1
           /\ \A id \in 1..Len(log) : log'[id] = log[id]
  BY AppendProperties

(* What the host has, it has for good. *)
LEMMA HasKept ==
    ASSUME NEW id \in 1..Len(log), Has(id), log'[id] = log[id], file \subseteq file'
    PROVE  Has(id)'
  BY DEF Has, Recorded

(* Entries that continue an id still do when the log has grown. *)
LEMMA ContinuesKept ==
    ASSUME NEW s \in Seq(Entry), NEW id \in Nat, Continues(s, id),
           Len(log) \in Nat, Len(log') \in Nat, Len(log) <= Len(log'),
           \A n \in 1..Len(log) : log'[n] = log[n]
    PROVE  /\ id + Len(s) <= Len(log')
           /\ \A i \in 1..Len(s) : s[i].id = id + i /\ (log'[s[i].id].cond = "intact" => s[i].type = log'[s[i].id].kind)
<1>1. Len(s) \in Nat
  BY LenProperties
<1>2. ASSUME NEW i \in 1..Len(s)
      PROVE  s[i].id = id + i /\ (log'[s[i].id].cond = "intact" => s[i].type = log'[s[i].id].kind)
  <2>1. s[i].id = id + i /\ Recorded(s[i])
    BY DEF Continues
  <2>2. id + i \in 1..Len(log)
    BY <1>1 DEF Continues
  <2>. QED
    BY <2>1, <2>2 DEF Recorded
<1>. QED
  BY <1>1, <1>2 DEF Continues

(* Because the acknowledged entries are the only ones overwritten, the next entry is there. *)
LEMMA NextEntry ==
    ASSUME Len(log) \in Nat, NEW id \in Nat, acked \in Nat, acked <= id, Len(log) - acked <= Capacity
    PROVE  /\ id < Len(log) => Following(id) # {} /\ First(Following(id)) = id + 1
           /\ Following(id) # {} => id < Len(log)
<1>1. Following(id) = {n \in 1..Len(log) : n > id}
  BY CollectAssumption DEF Following, Stored
<1>2. ASSUME id < Len(log) PROVE id + 1 \in Following(id) /\ \A m \in Following(id) : id + 1 <= m
  BY <1>1, <1>2
<1>3. ASSUME id < Len(log) PROVE First(Following(id)) = id + 1
  <2>1. \A n \in Following(id) : (\A m \in Following(id) : n <= m) => n = id + 1
    BY <1>1, <1>2, <1>3
  <2>2. \E n \in Following(id) : \A m \in Following(id) : n <= m
    BY <1>2, <1>3
  <2>. QED
    BY <2>1, <2>2 DEF First
<1>. QED
  BY <1>1, <1>2, <1>3

(* An entry read from the store says what its record says. *)
LEMMA EntryRead ==
    ASSUME log \in Seq(LogRecord), Len(log) \in Ids, NEW id \in 1..Len(log), NEW e \in read_entry(id)
    PROVE  e \in Entry /\ e.id = id /\ Recorded(e)
<1>1. log[id] \in LogRecord
  BY ElementOfSeq
<1>2. e = [id |-> id, type |-> IF log[id].cond = "intact" THEN log[id].kind ELSE "UNKNOWN"]
  BY DEF read_entry
<1>3. id \in 1..MaxId
  BY CollectAssumption DEF Ids
<1>4. (IF log[id].cond = "intact" THEN log[id].kind ELSE "UNKNOWN") \in EntryType
  BY <1>1 DEF LogRecord, EntryType
<1>. QED
  BY <1>2, <1>3, <1>4 DEF Entry, Recorded

-------------------------------------------------------------------------------
(***************************************************************************)
(* Every step keeps the parts.                                             *)
(***************************************************************************)

(* The log grows; the host does not notice. *)
LEMMA HostGrows ==
    ASSUME IInv, can_append, Len(log) < MaxId, NEW r \in LogRecord, log' = Append(log, r),
           UNCHANGED <<acked, hostVars>>
    PROVE  /\ log' \in Seq(LogRecord) /\ Len(log') \in Ids /\ acked' \in 0..Len(log')
           /\ HostInv'
<1>1. /\ log' \in Seq(LogRecord)
      /\ Len(log') = Len(log) + 1
      /\ \A id \in 1..Len(log) : log'[id] = log[id]
  BY Appended DEF IInv, TypeInv
<1>2. Len(log) \in Nat /\ acked \in Nat /\ acked <= Len(log) /\ Capacity \in Nat /\ MaxId \in Nat
  BY CollectAssumption DEF IInv, TypeInv, Ids
<1>3. newest \in Nat /\ last \in Nat /\ newest <= Len(log) /\ last <= Len(log)
  BY CollectAssumption DEF IInv, TypeInv, HostInv, Ids
<1>4. ASSUME NEW id \in 1..Len(log), Has(id) PROVE Has(id)'
  BY <1>1, <1>4, HasKept
<1>5. /\ \A id \in 1..last : Has(id)'
      /\ \A id \in 1..acked : Has(id)'
  BY <1>2, <1>3, <1>4 DEF IInv, HostInv
<1>6. Len(log') - acked <= Capacity
  BY <1>1, <1>2 DEF can_append, protect_unacked
<1>7. Len(log') \in Ids /\ acked' \in 0..Len(log')
  BY <1>1, <1>2 DEF Ids
<1>. QED
  BY <1>1, <1>2, <1>3, <1>5, <1>6, <1>7 DEF IInv, HostInv

(* The log grows under the feet of the service and the host. *)
LEMMA GrowStep ==
    ASSUME IInv, can_append, Len(log) < MaxId, NEW r \in LogRecord, log' = Append(log, r),
           UNCHANGED <<acked, conn, req, readVars, ans, hostVars>>
    PROVE  /\ log' \in Seq(LogRecord) /\ Len(log') \in Ids /\ acked' \in 0..Len(log')
           /\ ReqInv' /\ PageInv' /\ AnsInv' /\ HostInv'
<1>1. /\ log' \in Seq(LogRecord)
      /\ Len(log') = Len(log) + 1
      /\ \A id \in 1..Len(log) : log'[id] = log[id]
  BY Appended DEF IInv, TypeInv
<1>2. Len(log) \in Nat /\ acked \in Nat /\ acked <= Len(log) /\ Capacity \in Nat /\ MaxId \in Nat
  BY CollectAssumption DEF IInv, TypeInv, Ids
<1>3. Len(log') \in Ids /\ acked' \in 0..Len(log') /\ Len(log') \in Nat /\ Len(log) <= Len(log')
  BY <1>1, <1>2 DEF Ids
<1>4. req.op = "LOG_READ" => req.arg \in Nat
  BY CollectAssumption DEF IInv, TypeInv, Request, None, Ids
<1>5. ReqInv'
  BY <1>1, <1>2, <1>4 DEF IInv, ReqInv
<1>6. PageInv'
  <2> SUFFICES ASSUME reading
               PROVE  /\ after_id = req.arg + Len(page)
                      /\ Continues(page, req.arg)'
                      /\ page = <<>> => written = 0
    BY DEF PageInv
  <2>1. /\ page \in Seq(Entry) /\ req.arg \in Nat
        /\ Continues(page, req.arg) /\ after_id = req.arg + Len(page) /\ (page = <<>> => written = 0)
    BY <1>4 DEF IInv, TypeInv, ReqInv, PageInv
  <2>2. /\ req.arg + Len(page) <= Len(log')
        /\ \A i \in 1..Len(page) : /\ page[i].id = req.arg + i
                                  /\ log'[page[i].id].cond = "intact" => page[i].type = log'[page[i].id].kind
    BY <1>1, <1>2, <1>3, <2>1, ContinuesKept
  <2>. QED
    BY <2>1, <2>2 DEF Continues, Recorded
<1>7. AnsInv'
  <2>1. CASE ans.op = "LOG_READ"
    <3>1. /\ ans.entries \in Seq(Entry) /\ last \in Nat /\ Continues(ans.entries, last)
      BY <2>1, CollectAssumption DEF IInv, TypeInv, AnsInv, Ids
    <3>2. /\ last + Len(ans.entries) <= Len(log')
          /\ \A i \in 1..Len(ans.entries) :
                /\ ans.entries[i].id = last + i
                /\ log'[ans.entries[i].id].cond = "intact" => ans.entries[i].type = log'[ans.entries[i].id].kind
      BY <1>1, <1>2, <1>3, <3>1, ContinuesKept
    <3>3. Continues(ans.entries, last)'
      BY <3>2 DEF Continues, Recorded
    <3>. QED
      BY <2>1, <3>3 DEF IInv, AnsInv
  <2>2. CASE ans.op # "LOG_READ"
    BY <1>1, <1>2, <2>2 DEF IInv, AnsInv
  <2>. QED
    BY <2>1, <2>2
<1>8. HostInv'
  BY HostGrows
<1>. QED
  BY <1>1, <1>3, <1>5, <1>6, <1>7, <1>8

(* What the programming task does. *)
LEMMA ProgrammingStep == IInv /\ Programming => IInv'
<1> SUFFICES ASSUME IInv, Programming PROVE IInv'
  OBVIOUS
<1>1. CASE StartRun
  BY <1>1 DEF StartRun, IInv, TypeInv, ReqInv, PageInv, AnsInv, HostInv, Continues, Has, Recorded
<1>2. CASE AddRun
  <2>1. PICK cond \in Condition : log' = Append(log, [kind |-> "RUN", cond |-> cond])
    BY <1>2 DEF AddRun, AppendEntry
  <2>2. [kind |-> "RUN", cond |-> cond] \in LogRecord
    BY DEF LogRecord, Kind, Condition
  <2>3. /\ log' \in Seq(LogRecord) /\ Len(log') \in Ids /\ acked' \in 0..Len(log')
        /\ ReqInv' /\ PageInv' /\ AnsInv' /\ HostInv'
    BY <1>2, <2>1, <2>2, GrowStep DEF AddRun
  <2>4. TypeInv'
    BY <1>2, <2>3 DEF AddRun, IInv, TypeInv
  <2>. QED
    BY <2>3, <2>4 DEF IInv
<1>3. CASE AddRunFail
  <2>1. CASE UNCHANGED log
    BY <1>3, <2>1 DEF AddRunFail, IInv, TypeInv, ReqInv, PageInv, AnsInv, HostInv, Continues, Has, Recorded
  <2>2. CASE can_append /\ Len(log) < MaxId /\ \E cond \in Condition \ {"intact"} : AppendEntry("RUN", cond)
    <3>1. PICK r \in LogRecord : log' = Append(log, r)
      <4>1. \A cond \in Condition : [kind |-> "RUN", cond |-> cond] \in LogRecord
        BY DEF LogRecord, Kind
      <4>. QED
        BY <2>2, <4>1 DEF AppendEntry
    <3>2. /\ log' \in Seq(LogRecord) /\ Len(log') \in Ids /\ acked' \in 0..Len(log')
          /\ ReqInv' /\ PageInv' /\ AnsInv' /\ HostInv'
      BY <1>3, <2>2, <3>1, GrowStep DEF AddRunFail
    <3>3. TypeInv'
      BY <1>3, <3>2 DEF AddRunFail, IInv, TypeInv
    <3>. QED
      BY <3>2, <3>3 DEF IInv
  <2>. QED
    BY <1>3, <2>1, <2>2 DEF AddRunFail
<1>. QED
  BY <1>1, <1>2, <1>3 DEF Programming

(* A request that is not a read is served with the host still waiting for it. *)
LEMMA AskedNow ==
    ASSUME IInv, req.op # "NONE", req.op # "LOG_READ"
    PROVE  conn /\ ~reading /\ ans.op = "NONE"
  BY DEF IInv, ReqInv, AnsInv, None

(* op_device_info(): the acknowledged id of the answer stays true until the host has it. *)
LEMMA DeviceInfoStep == IInv /\ OpDeviceInfo => IInv'
<1> SUFFICES ASSUME IInv, OpDeviceInfo PROVE IInv'
  OBVIOUS
<1>1. conn /\ ~reading
  BY AskedNow DEF OpDeviceInfo
<1>2. req' = None /\ ans' = [op |-> "DEVICE_INFO", status |-> "OK", newest |-> Len(log), acked |-> acked]
  BY <1>1 DEF OpDeviceInfo, send_response
<1>3. TypeInv'
  BY <1>2 DEF OpDeviceInfo, IInv, TypeInv
<1>4. AnsInv'
  <2>1. Len(log) \in 0..Len(log)
    BY CollectAssumption DEF IInv, TypeInv, Ids
  <2>. QED
    BY <1>1, <1>2, <2>1 DEF OpDeviceInfo, IInv, AnsInv, ReqInv, None
<1>5. ReqInv' /\ PageInv' /\ HostInv'
  BY <1>1, <1>2 DEF OpDeviceInfo, IInv, ReqInv, PageInv, HostInv, Has, Recorded, None
<1>. QED
  BY <1>3, <1>4, <1>5 DEF IInv

(* op_set_time(): at most one anchor in a boot. *)
LEMMA SetTimeStep == IInv /\ OpSetTime => IInv'
<1> SUFFICES ASSUME IInv, OpSetTime PROVE IInv'
  OBVIOUS
<1>1. conn /\ ~reading
  BY AskedNow DEF OpSetTime
<1>2. req' = None /\ ans' = [op |-> "SET_TIME", status |-> IF time_set' THEN "OK" ELSE "ERROR"]
  BY <1>1 DEF OpSetTime, send_response
<1>3. time_set' \in BOOLEAN /\ anchors' \in 0..1 /\ (~time_set' => anchors' = 0)
  <2>1. anchors \in 0..1 /\ (~time_set => anchors = 0) /\ time_set \in BOOLEAN
    BY DEF IInv, TypeInv
  <2>2. CASE UNCHANGED <<time_set, anchors>>
    BY <2>1, <2>2
  <2>3. CASE ~time_set /\ time_set' = TRUE /\ anchors' = anchors + 1
    <3>1. anchors' = 1
      BY <2>1, <2>3
    <3>2. anchors' \in 0..1
      BY <3>1
    <3>. QED
      BY <2>3, <3>2, Zenon
  <2>. QED
    BY <2>2, <2>3 DEF OpSetTime, set_time
<1>4. TypeInv'
  BY <1>2, <1>3 DEF OpSetTime, IInv, TypeInv
<1>5. AnsInv'
  BY <1>1, <1>2 DEF OpSetTime, IInv, AnsInv, ReqInv, None
<1>6. ReqInv' /\ PageInv' /\ HostInv'
  BY <1>1, <1>2 DEF OpSetTime, IInv, ReqInv, PageInv, HostInv, Has, Recorded, None
<1>. QED
  BY <1>4, <1>5, <1>6 DEF IInv

(* op_log_ack(): the host has everything up to the id it acknowledges. *)
LEMMA LogAckStep == IInv /\ OpLogAck => IInv'
<1> SUFFICES ASSUME IInv, OpLogAck PROVE IInv'
  OBVIOUS
<1>1. conn /\ ~reading /\ pull = "ack" /\ req.arg = last
  BY AskedNow DEF OpLogAck, IInv, ReqInv
<1>2. /\ req' = None
      /\ ans'.op = "LOG_ACK"
  BY <1>1 DEF OpLogAck, send_response
<1>3. acked' \in {acked, last} /\ acked <= acked' /\ acked' <= last
  BY <1>1, CollectAssumption DEF OpLogAck, IInv, TypeInv, HostInv, Ids
<1>4. acked' \in 0..Len(log)
  BY <1>3, CollectAssumption DEF IInv, TypeInv, HostInv, Ids
<1>5. faults' \in 0..MaxFaults
  BY CollectAssumption DEF OpLogAck, Fault, IInv, TypeInv
<1>6. TypeInv'
  BY <1>2, <1>4, <1>5 DEF OpLogAck, IInv, TypeInv
<1>7. AnsInv'
  BY <1>1, <1>2 DEF OpLogAck, AnsInv
<1>8. ReqInv' /\ PageInv'
  BY <1>1, <1>2 DEF OpLogAck, ReqInv, PageInv, None
<1>9. HostInv'
  <2>1. UNCHANGED <<log, file, last, newest, pull>>
    BY DEF OpLogAck
  <2>2. Len(log) \in Nat /\ acked \in Nat /\ last \in Nat /\ Capacity \in Nat
    BY CollectAssumption DEF IInv, TypeInv, Ids
  <2>3. (\A id \in 1..last : Has(id)') /\ (\A id \in 1..acked' : Has(id)')
    BY <1>3, <2>1 DEF IInv, HostInv, Has, Recorded
  <2>4. Len(log) - acked' <= Capacity
    BY <1>3, <2>2 DEF IInv, HostInv
  <2>. QED
    BY <1>1, <1>3, <2>1, <2>3, <2>4 DEF IInv, HostInv
<1>. QED
  BY <1>6, <1>7, <1>8, <1>9 DEF IInv

(* op_log_read(): nothing is read yet. *)
LEMMA LogReadStep == IInv /\ OpLogRead => IInv'
<1> SUFFICES ASSUME IInv, OpLogRead PROVE IInv'
  OBVIOUS
<1>1. req.arg \in Ids /\ req.op = "LOG_READ"
  BY DEF OpLogRead, IInv, TypeInv, Request, None
<1>2. <<>> \in Seq(Entry) /\ Len(<<>>) = 0
  BY EmptySeq
<1>3. TypeInv'
  BY <1>1, <1>2, CollectAssumption DEF OpLogRead, IInv, TypeInv, Ids
<1>4. PageInv'
  BY <1>1, <1>2, CollectAssumption DEF OpLogRead, IInv, ReqInv, PageInv, Continues, Ids
<1>5. ReqInv' /\ AnsInv' /\ HostInv'
  BY <1>1 DEF OpLogRead, IInv, ReqInv, AnsInv, HostInv, Has, Recorded, Continues
<1>. QED
  BY <1>3, <1>4, <1>5 DEF IInv

(* While the service reads, the acknowledged id is at or before the one it read last. *)
LEMMA ReadingFacts ==
    ASSUME IInv, reading
    PROVE  /\ req.op = "LOG_READ" /\ req.arg \in Ids
           /\ Len(log) \in Nat /\ after_id \in Nat /\ acked \in Nat /\ acked <= after_id
           /\ page \in Seq(Entry) /\ Len(page) \in Nat
           /\ after_id = req.arg + Len(page) /\ after_id <= Len(log)
           /\ Continues(page, req.arg)
           /\ Len(log) - acked <= Capacity
<1>1. req.op = "LOG_READ" /\ req.arg \in Ids
  BY DEF IInv, ReqInv, TypeInv, Request, None
<1>2. page \in Seq(Entry) /\ Len(page) \in Nat
  BY LenProperties DEF IInv, TypeInv
<1>3. Len(log) \in Nat /\ after_id \in Nat /\ acked \in Nat /\ req.arg \in Nat
  BY <1>1, CollectAssumption DEF IInv, TypeInv, Ids
<1>4. after_id = req.arg + Len(page) /\ Continues(page, req.arg)
  BY DEF IInv, PageInv
<1>5. after_id <= Len(log) /\ acked <= after_id
  BY <1>1, <1>2, <1>3, <1>4 DEF IInv, ReqInv, Continues
<1>. QED
  BY <1>1, <1>2, <1>3, <1>4, <1>5 DEF IInv, HostInv

(* read(): the entry added is the one after the last. *)
LEMMA ReadEntryStep == IInv /\ ReadEntry => IInv'
<1> SUFFICES ASSUME IInv, ReadEntry PROVE IInv'
  OBVIOUS
<1>1. reading
  BY DEF ReadEntry
<1>2. after_id < Len(log) /\ First(Following(after_id)) = after_id + 1
  BY <1>1, ReadingFacts, NextEntry DEF ReadEntry
<1>3. PICK e \in read_entry(after_id + 1) :
          /\ written + EntrySize[e.type] <= Room
          /\ page' = Append(page, e)
          /\ written' = written + EntrySize[e.type]
          /\ after_id' = e.id
  BY <1>2 DEF ReadEntry
<1>4. after_id + 1 \in 1..Len(log)
  BY <1>1, <1>2, ReadingFacts
<1>5. e \in Entry /\ e.id = after_id + 1 /\ Recorded(e)
  BY <1>3, <1>4, EntryRead DEF IInv, TypeInv
<1>6. /\ page' \in Seq(Entry) /\ Len(page') = Len(page) + 1
      /\ page'[Len(page) + 1] = e /\ \A i \in 1..Len(page) : page'[i] = page[i]
  BY <1>1, <1>3, <1>5, ReadingFacts, AppendProperties
<1>7. EntrySize[e.type] \in 1..Room /\ written \in 0..Room /\ Room \in Nat
  BY <1>5, CollectAssumption DEF Entry, IInv, TypeInv
<1>8. written' \in 0..Room
  BY <1>3, <1>7
<1>9. after_id' \in Ids
  BY <1>1, <1>3, <1>4, <1>5, ReadingFacts, CollectAssumption DEF IInv, TypeInv, Ids
<1>10. TypeInv'
  BY <1>6, <1>8, <1>9 DEF ReadEntry, IInv, TypeInv
<1>11. PageInv'
  <2>1. after_id' = req.arg + Len(page') /\ after_id' <= Len(log)
    BY <1>1, <1>3, <1>4, <1>5, <1>6, ReadingFacts DEF Ids
  <2>2. ASSUME NEW i \in 1..Len(page') PROVE page'[i].id = req.arg + i /\ Recorded(page'[i])
    <3>1. CASE i \in 1..Len(page)
      BY <1>1, <1>6, <3>1, ReadingFacts DEF Continues
    <3>2. CASE i = Len(page) + 1
      <4>1. page'[i] = e
        BY <1>6, <3>2
      <4>2. req.arg \in Nat /\ Len(page) \in Nat /\ after_id = req.arg + Len(page)
        BY <1>1, ReadingFacts, CollectAssumption DEF Ids
      <4>3. e.id = req.arg + i
        BY <1>5, <3>2, <4>2
      <4>. QED
        BY <1>5, <4>1, <4>3
    <3>. QED
      BY <1>1, <1>6, <3>1, <3>2, ReadingFacts
  <2>3. page' # <<>>
    BY <1>1, <1>6, ReadingFacts, EmptySeq
  <2>4. UNCHANGED <<log, req, reading>>
    BY DEF ReadEntry
  <2>5. Continues(page, req.arg)'
    BY <2>1, <2>2, <2>4 DEF Continues, Recorded
  <2>. QED
    BY <2>1, <2>3, <2>4, <2>5 DEF PageInv
<1>12. ReqInv' /\ AnsInv' /\ HostInv'
  BY DEF ReadEntry, IInv, ReqInv, AnsInv, HostInv, Has, Recorded, Continues
<1>. QED
  BY <1>10, <1>11, <1>12 DEF IInv

(* read() returns; an empty answer with status OK only at the end of the log. *)
LEMMA ReturnStep ==
    ASSUME IInv, NEW status \in {"OK", "ERROR"}, ReadReturns(status),
           faults' \in 0..MaxFaults, status = "OK" /\ page = <<>> => after_id = Len(log)
    PROVE  IInv'
<1>1. reading /\ req' = None /\ ~reading'
  BY Zenon DEF ReadReturns, send_response
<1>2. UNCHANGED <<log, acked, write_failed, time_set, anchors, running, conn, pull, newest, last, file>>
  BY DEF ReadReturns
<1>3. <<>> \in Seq(Entry) /\ Len(<<>>) = 0
  BY EmptySeq
<1>4. after_id' \in Ids /\ page' \in Seq(Entry) /\ written' \in 0..Room /\ reading' \in BOOLEAN
  <2>1. after_id' \in Ids /\ page' \in Seq(Entry) /\ written' \in 0..Room
    BY <1>3, CollectAssumption DEF ReadReturns, Ids
  <2>2. reading' \in BOOLEAN
    BY Zenon DEF ReadReturns
  <2>. QED
    BY <2>1, <2>2
<1>5. CASE ~conn
  <2>1. ans' = ans /\ ans.op = "NONE"
    BY <1>5 DEF ReadReturns, send_response, IInv, AnsInv
  <2>2. AnsInv'
    BY <1>2, <2>1 DEF AnsInv
  <2>3. TypeInv'
    BY <1>1, <1>2, <1>4, <2>1 DEF IInv, TypeInv
  <2>4. ReqInv' /\ PageInv' /\ HostInv'
    BY <1>1, <1>2 DEF IInv, ReqInv, PageInv, HostInv, Has, Recorded, None
  <2>. QED
    BY <2>2, <2>3, <2>4 DEF IInv
<1>6. CASE conn
  <2> DEFINE entries == IF status = "OK" THEN page ELSE <<>>
  <2>1. ans' = [op |-> "LOG_READ", status |-> status, entries |-> entries]
    BY <1>6 DEF ReadReturns, send_response
  <2>2. pull = "read" /\ req.arg = last
    BY <1>1, <1>6, ReadingFacts DEF IInv, ReqInv
  <2>3. /\ newest \in Nat /\ last \in Nat /\ newest <= Len(log) /\ last <= Len(log)
    BY CollectAssumption DEF IInv, TypeInv, HostInv, Ids
  <2>4. entries \in Seq(Entry) /\ Continues(entries, last)
    <3>1. CASE status = "OK"
      BY <1>1, <2>2, <3>1, ReadingFacts
    <3>2. CASE status # "OK"
      BY <1>3, <2>3, <3>2 DEF Continues
    <3>. QED
      BY <3>1, <3>2
  <2>5. status = "OK" /\ entries = <<>> => newest <= last
    <3>1. SUFFICES ASSUME status = "OK", page = <<>> PROVE newest <= last
      OBVIOUS
    <3>2. last = Len(log)
      BY <1>1, <1>3, <2>2, <2>3, <3>1, ReadingFacts
    <3>. QED
      BY <2>3, <3>2
  <2> HIDE DEF entries
  <2>6. AnsInv'
    <3>1. Continues(ans.entries, last)'
      BY <1>2, <2>1, <2>4 DEF Continues, Recorded
    <3>. QED
      BY <1>1, <1>2, <1>6, <2>1, <2>2, <2>4, <2>5, <3>1 DEF AnsInv
  <2>7. TypeInv'
    BY <1>1, <1>2, <1>4, <2>1 DEF IInv, TypeInv
  <2>8. ReqInv' /\ PageInv' /\ HostInv'
    BY <1>1, <1>2 DEF IInv, ReqInv, PageInv, HostInv, Has, Recorded, None
  <2>. QED
    BY <2>6, <2>7, <2>8 DEF IInv
<1>. QED
  BY <1>5, <1>6 DEF IInv, TypeInv

(* The end of the log, a full page, or an error. *)
LEMMA ReadEndStep == IInv /\ (ReadEnd \/ ReadError) => IInv'
<1> SUFFICES ASSUME IInv, ReadEnd \/ ReadError PROVE IInv'
  OBVIOUS
<1>1. CASE ReadEnd
  <2>1. reading /\ ReadReturns("OK") /\ faults' \in 0..MaxFaults
    BY <1>1 DEF ReadEnd, ReadReturns, IInv, TypeInv
  <2>2. ASSUME page = <<>> PROVE after_id = Len(log)
    <3>1. SUFFICES ASSUME after_id < Len(log) PROVE FALSE
      BY <2>1, ReadingFacts
    <3>2. First(Following(after_id)) = after_id + 1 /\ Following(after_id) # {}
      BY <2>1, <3>1, ReadingFacts, NextEntry
    <3>3. after_id + 1 \in Following(after_id) /\ after_id + 1 \in 1..Len(log)
      BY <2>1, <3>1, ReadingFacts, CollectAssumption DEF Following, Stored
    <3>4. PICK e \in read_entry(after_id + 1) : written + EntrySize[e.type] > Room
      BY <1>1, <3>2, <3>3 DEF ReadEnd
    <3>5. EntrySize[e.type] \in 1..Room /\ Room \in Nat
      BY <3>3, <3>4, EntryRead, CollectAssumption DEF Entry, IInv, TypeInv
    <3>6. written = 0
      BY <2>1, <2>2 DEF IInv, PageInv
    <3>. QED
      BY <3>4, <3>5, <3>6
  <2>. QED
    BY <2>1, <2>2, ReturnStep
<1>2. CASE ReadError
  <2>1. reading /\ ReadReturns(read_status)
    BY <1>2 DEF ReadError, ReadReturns
  <2>2. faults' \in 0..MaxFaults
    BY <1>2, CollectAssumption DEF ReadError, Fault, IInv, TypeInv
  <2>3. CASE written > 0
    <3>1. ReadReturns("OK")
      BY <2>1, <2>3 DEF read_status
    <3>2. page # <<>>
      BY <2>1, <2>3 DEF IInv, PageInv
    <3>. QED
      BY <2>2, <3>1, <3>2, ReturnStep
  <2>4. CASE ~(written > 0)
    <3>1. ReadReturns("ERROR")
      BY <2>1, <2>4 DEF read_status
    <3>. QED
      BY <2>2, <3>1, ReturnStep
  <2>. QED
    BY <2>3, <2>4
<1>. QED
  BY <1>1, <1>2

(* The host opens a connection. *)
LEMMA PullBeginStep == IInv /\ PullBegin => IInv'
<1> SUFFICES ASSUME IInv, PullBegin PROVE IInv'
  OBVIOUS
<1>1. req' = [op |-> "DEVICE_INFO", arg |-> 0] /\ ans' = None /\ ~reading
  BY DEF PullBegin, Ask
<1>2. req' \in Request /\ conn' \in BOOLEAN
  <2>1. req' \in Request
    BY <1>1, CollectAssumption DEF Request, Ids
  <2>2. conn' \in BOOLEAN
    BY Zenon DEF PullBegin
  <2>. QED
    BY <2>1, <2>2
<1>3. TypeInv'
  BY <1>1, <1>2 DEF PullBegin, IInv, TypeInv, None
<1>4. ReqInv' /\ PageInv' /\ AnsInv' /\ HostInv'
  BY <1>1 DEF PullBegin, IInv, ReqInv, PageInv, AnsInv, HostInv, Has, Recorded, None
<1>. QED
  BY <1>3, <1>4 DEF IInv

(* The pull starts at the acknowledged id. *)
LEMMA GotInfoStep == IInv /\ GotInfo => IInv'
<1> SUFFICES ASSUME IInv, GotInfo PROVE IInv'
  OBVIOUS
<1>1. /\ req' = [op |-> "SET_TIME", arg |-> 0] /\ ans' = None /\ pull' = "time"
      /\ newest' = ans.newest /\ last' = acked /\ ans.newest \in 0..Len(log)
      /\ conn /\ ~reading
  BY DEF GotInfo, Ask, IInv, AnsInv, ReqInv, None
<1>2. Len(log) \in Nat /\ MaxId \in Nat /\ Len(log) <= MaxId /\ acked \in 0..Len(log)
  BY CollectAssumption DEF IInv, TypeInv, Ids
<1>3. req' \in Request /\ newest' \in Ids /\ last' \in Ids
  BY <1>1, <1>2 DEF Request, Ids
<1>4. TypeInv'
  BY <1>1, <1>3 DEF GotInfo, IInv, TypeInv, None
<1>5. HostInv'
  BY <1>1, <1>2 DEF GotInfo, IInv, HostInv, Has, Recorded
<1>6. ReqInv' /\ PageInv' /\ AnsInv'
  BY <1>1 DEF GotInfo, IInv, ReqInv, PageInv, AnsInv, None
<1>. QED
  BY <1>4, <1>5, <1>6 DEF IInv

(* The host asks for the first page, or acknowledges what it has. *)
LEMMA GotTimeOrEndStep == IInv /\ (GotTime \/ GotEnd) => IInv'
<1> SUFFICES ASSUME IInv, GotTime \/ GotEnd PROVE IInv'
  OBVIOUS
<1>1. /\ ans' = None /\ conn /\ ~reading /\ req.op = "NONE"
      /\ pull \in {"time", "read"}
      /\ UNCHANGED <<storeVars, bootVars, running, conn, readVars, newest, last, file, faults>>
      /\ \/ pull' = "read" /\ req' = [op |-> "LOG_READ", arg |-> last]
         \/ pull' = "ack" /\ req' = [op |-> "LOG_ACK", arg |-> last] /\ newest <= last
  BY DEF GotTime, GotEnd, Ask, IInv, AnsInv, ReqInv, None
<1>2. req' \in Request
  BY <1>1 DEF Request, IInv, TypeInv
<1>3. TypeInv'
  BY <1>1, <1>2 DEF IInv, TypeInv, None
<1>4. HostInv'
  BY <1>1 DEF IInv, HostInv, Has, Recorded
<1>5. ReqInv' /\ PageInv' /\ AnsInv'
  BY <1>1 DEF IInv, ReqInv, PageInv, AnsInv, HostInv, None
<1>. QED
  BY <1>3, <1>4, <1>5 DEF IInv

(* A page fills the file without a gap. *)
LEMMA GotPageStep == IInv /\ GotPage => IInv'
<1> SUFFICES ASSUME IInv, GotPage PROVE IInv'
  OBVIOUS
<1> DEFINE n == Len(ans.entries)
<1>1. /\ pull = "read" /\ ~reading /\ conn /\ req.op = "NONE"
      /\ ans.entries \in Seq(Entry) /\ ans.entries # <<>> /\ Continues(ans.entries, last)
  BY DEF GotPage, IInv, AnsInv, ReqInv, None
<1>2. n \in Nat /\ n > 0
  BY <1>1, LenProperties, EmptySeq
<1>3. /\ last \in Nat /\ newest \in Nat /\ acked \in Nat /\ Len(log) \in Nat /\ MaxId \in Nat
      /\ Len(log) <= MaxId
  BY CollectAssumption DEF IInv, TypeInv, Ids
<1>4. \A i \in 1..n : ans.entries[i] \in Entry /\ ans.entries[i].id = last + i /\ Recorded(ans.entries[i])
  BY <1>1, ElementOfSeq DEF Continues
<1>5. last' = last + n /\ last' <= Len(log) /\ last' \in Ids
  <2>1. last' = ans.entries[n].id
    BY DEF GotPage
  <2>2. last' = last + n
    BY <1>2, <1>4, <2>1
  <2>3. last + n <= Len(log)
    BY <1>1 DEF Continues
  <2>. QED
    BY <1>2, <1>3, <2>2, <2>3 DEF Ids
<1>6. file' = file \cup {ans.entries[i] : i \in 1..n}
  BY <1>1, LenProperties DEF GotPage
<1>7. req' = [op |-> "LOG_READ", arg |-> last'] /\ ans' = None /\ pull' = "read"
  BY <1>1 DEF GotPage, Ask
<1>8. req' \in Request
  BY <1>5, <1>7 DEF Request
<1>9. TypeInv'
  <2>1. file' \subseteq Entry
    BY <1>4, <1>6 DEF IInv, TypeInv
  <2>. QED
    BY <1>5, <1>7, <1>8, <2>1 DEF GotPage, IInv, TypeInv, None
<1>10. HostInv'
  <2>1. ASSUME NEW id \in 1..last' PROVE Has(id)'
    <3>1. CASE id \in 1..last
      BY <1>6, <3>1 DEF GotPage, IInv, HostInv, Has, Recorded
    <3>2. CASE id \notin 1..last
      <4>1. PICK i \in 1..n : id = last + i
        <5>1. id - last \in 1..n /\ id = last + (id - last)
          BY <1>2, <1>3, <1>5, <3>2
        <5>. QED
          BY <5>1
      <4>2. ans.entries[i] \in file'
        BY <1>6
      <4>. QED
        BY <1>4, <4>1, <4>2 DEF GotPage, Has, Recorded
    <3>. QED
      BY <3>1, <3>2
  <2>2. ASSUME NEW id \in 1..acked' PROVE Has(id)'
    BY <1>6 DEF GotPage, IInv, HostInv, Has, Recorded
  <2>3. acked <= last'
    BY <1>1, <1>2, <1>3, <1>5 DEF IInv, HostInv
  <2>. QED
    BY <1>5, <1>7, <2>1, <2>2, <2>3 DEF GotPage, IInv, HostInv
<1>11. ReqInv'
  <2>1. acked <= last'
    BY <1>1, <1>2, <1>3, <1>5 DEF IInv, HostInv
  <2>. QED
    BY <1>1, <1>5, <1>7, <2>1 DEF GotPage, ReqInv, None
<1>12. PageInv' /\ AnsInv'
  BY <1>1, <1>7 DEF GotPage, PageInv, AnsInv, None
<1>. QED
  BY <1>9, <1>10, <1>11, <1>12 DEF IInv

(* A pull that is over leaves a read behind at most, which answers nobody. *)
LEMMA PullEndStep == IInv /\ PullEnd => IInv'
<1> SUFFICES ASSUME IInv, PullEnd PROVE IInv'
  OBVIOUS
<1>1. /\ ~conn' /\ ans' = None /\ pull' = "idle" /\ newest' = 0 /\ last' = 0
      /\ UNCHANGED <<log, acked, req, readVars, file>>
  BY Zenon DEF PullEnd
<1>2. conn' \in BOOLEAN
  BY Zenon DEF PullEnd
<1>3. req.op \in {"NONE", "LOG_READ"} /\ (~reading => req = None)
  <2>1. CASE conn /\ ans.op \in {"LOG_ACK", "LOG_READ"}
    BY <2>1 DEF IInv, AnsInv, None
  <2>2. CASE ~conn
    BY <2>2 DEF IInv, ReqInv, None
  <2>. QED
    BY <2>1, <2>2 DEF PullEnd
<1>4. TypeInv'
  BY <1>1, <1>2, CollectAssumption DEF PullEnd, IInv, TypeInv, None, Ids
<1>5. ReqInv'
  BY <1>1, <1>3 DEF IInv, ReqInv, None
<1>6. PageInv' /\ AnsInv'
  BY <1>1 DEF IInv, PageInv, AnsInv, Continues, Recorded, None
<1>7. HostInv'
  <2>1. 0 <= Len(log)
    BY CollectAssumption DEF IInv, TypeInv, Ids
  <2>. QED
    BY <1>1, <2>1 DEF IInv, HostInv, Has, Recorded
<1>. QED
  BY <1>4, <1>5, <1>6, <1>7 DEF IInv

(* A lost connection takes the request and the answer with it. *)
LEMMA ConnectionLostStep == IInv /\ ConnectionLost => IInv'
<1> SUFFICES ASSUME IInv, ConnectionLost PROVE IInv'
  OBVIOUS
<1>1. /\ ~conn' /\ ans' = None
      /\ req' = IF reading THEN req ELSE None
      /\ UNCHANGED <<storeVars, bootVars, running, readVars, hostVars>>
  BY Zenon DEF ConnectionLost
<1>2. conn' \in BOOLEAN
  BY Zenon DEF ConnectionLost
<1>3. faults' \in 0..MaxFaults
  BY CollectAssumption DEF ConnectionLost, Fault, IInv, TypeInv
<1>4. TypeInv'
  BY <1>1, <1>2, <1>3 DEF IInv, TypeInv, None
<1>5. ReqInv' /\ PageInv' /\ AnsInv' /\ HostInv'
  BY <1>1 DEF IInv, ReqInv, PageInv, AnsInv, HostInv, Continues, Has, Recorded, None
<1>. QED
  BY <1>4, <1>5 DEF IInv

(* A restart forgets the read, keeps the log, and may add a boot record. *)
LEMMA RestartStep == IInv /\ Restart => IInv'
<1> SUFFICES ASSUME IInv, Restart PROVE IInv'
  OBVIOUS
<1>1. /\ ~conn' /\ ~reading' /\ req' = None /\ ans' = None
      /\ page' = <<>> /\ after_id' = 0 /\ written' = 0 /\ anchors' = 0
      /\ UNCHANGED <<acked, hostVars>>
  BY Zenon DEF Restart, Boot
<1>2. conn' \in BOOLEAN /\ reading' \in BOOLEAN /\ running' \in BOOLEAN
      /\ write_failed' \in BOOLEAN /\ time_set' \in BOOLEAN
  BY Zenon DEF Restart, Boot
<1>3. faults' \in 0..MaxFaults
  BY CollectAssumption DEF Restart, Fault, IInv, TypeInv
<1>4. /\ log' \in Seq(LogRecord) /\ Len(log') \in Ids /\ acked' \in 0..Len(log')
      /\ HostInv'
  <2>1. CASE can_append /\ Len(log) < MaxId
    <3>1. PICK cond \in Condition : log' = Append(log, [kind |-> "BOOT", cond |-> cond])
      BY <2>1 DEF Restart, AppendEntry
    <3>2. [kind |-> "BOOT", cond |-> cond] \in LogRecord
      BY DEF LogRecord, Kind, Condition
    <3>. QED
      BY <1>1, <2>1, <3>1, <3>2, HostGrows
  <2>2. CASE ~(can_append /\ Len(log) < MaxId)
    <3>1. UNCHANGED log
      BY <2>2 DEF Restart
    <3>. QED
      BY <1>1, <3>1 DEF IInv, TypeInv, HostInv, Has, Recorded
  <2>. QED
    BY <2>1, <2>2
<1>5. page' \in Seq(Entry) /\ after_id' \in Ids /\ written' \in 0..Room /\ anchors' \in 0..1
  BY <1>1, EmptySeq, CollectAssumption DEF Ids
<1>6. TypeInv'
  BY <1>1, <1>2, <1>3, <1>4, <1>5 DEF IInv, TypeInv, None
<1>7. ReqInv' /\ PageInv' /\ AnsInv'
  BY <1>1 DEF ReqInv, PageInv, AnsInv, None
<1>. QED
  BY <1>4, <1>6, <1>7 DEF IInv

(* A format starts log and host over: nothing acknowledged, nothing missing. *)
LEMMA RestartFormattedStep == IInv /\ RestartFormatted => IInv'
<1> SUFFICES ASSUME IInv, RestartFormatted PROVE IInv'
  OBVIOUS
<1>1. /\ ~conn' /\ ~reading' /\ req' = None /\ ans' = None
      /\ page' = <<>> /\ after_id' = 0 /\ written' = 0 /\ anchors' = 0
      /\ acked' = 0 /\ pull' = "idle" /\ newest' = 0 /\ last' = 0 /\ file' = {}
  BY Zenon DEF RestartFormatted, Boot
<1>2. conn' \in BOOLEAN /\ reading' \in BOOLEAN /\ running' \in BOOLEAN
      /\ write_failed' \in BOOLEAN /\ time_set' \in BOOLEAN
  BY Zenon DEF RestartFormatted, Boot
<1>3. faults' \in 0..MaxFaults
  BY CollectAssumption DEF RestartFormatted, Fault, IInv, TypeInv
<1>4. log' \in Seq(LogRecord) /\ Len(log') = 1
  <2>1. PICK cond \in Condition : log' = <<[kind |-> "BOOT", cond |-> cond]>>
    BY DEF RestartFormatted
  <2>2. [kind |-> "BOOT", cond |-> cond] \in LogRecord
    BY DEF LogRecord, Kind
  <2>. QED
    BY <2>1, <2>2
<1>5. /\ page' \in Seq(Entry) /\ after_id' \in Ids /\ written' \in 0..Room /\ anchors' \in 0..1
      /\ Len(log') \in Ids /\ acked' \in 0..Len(log') /\ newest' \in Ids /\ last' \in Ids
      /\ file' \subseteq Entry
  BY <1>1, <1>4, EmptySeq, CollectAssumption DEF Ids
<1>6. TypeInv'
  BY <1>1, <1>2, <1>3, <1>4, <1>5 DEF TypeInv, None
<1>7. ReqInv' /\ PageInv' /\ AnsInv'
  BY <1>1 DEF ReqInv, PageInv, AnsInv, None
<1>8. HostInv'
  BY <1>1, <1>4, CollectAssumption DEF HostInv
<1>. QED
  BY <1>6, <1>7, <1>8 DEF IInv

-------------------------------------------------------------------------------
(***************************************************************************)
(* The theorems.                                                           *)
(***************************************************************************)
LEMMA Initial == Init => IInv
<1> SUFFICES ASSUME Init PROVE IInv
  OBVIOUS
<1> DEFINE boot == [kind |-> "BOOT", cond |-> "intact"]
<1>1. boot \in LogRecord
  BY DEF LogRecord, Kind, Condition
<1>2. log \in Seq(LogRecord) /\ Len(log) = 1
  BY <1>1 DEF Init
<1>3. Capacity >= 1 /\ Capacity \in Nat /\ MaxId >= 1 /\ MaxId \in Nat /\ Room \in Nat /\ MaxFaults \in Nat
  BY CollectAssumption
<1>4. /\ Len(log) \in Ids /\ acked \in 0..Len(log) /\ anchors \in 0..1
      /\ after_id \in Ids /\ written \in 0..Room /\ newest \in Ids /\ last \in Ids /\ faults \in 0..MaxFaults
  BY <1>2, <1>3 DEF Init, Ids
<1>5. /\ write_failed \in BOOLEAN /\ time_set \in BOOLEAN /\ running \in BOOLEAN
      /\ conn \in BOOLEAN /\ reading \in BOOLEAN
  BY Zenon DEF Init
<1>6. page \in Seq(Entry) /\ file \subseteq Entry
  BY EmptySeq DEF Init
<1>7. TypeInv
  BY <1>2, <1>4, <1>5, <1>6 DEF Init, TypeInv, None
<1>8. ReqInv /\ PageInv /\ AnsInv
  BY DEF Init, ReqInv, PageInv, AnsInv, None
<1>9. HostInv
  BY <1>2, <1>3 DEF Init, HostInv
<1>. QED
  BY <1>7, <1>8, <1>9 DEF IInv

LEMMA NextStep == IInv /\ [Next]_vars => IInv'
<1> SUFFICES ASSUME IInv, [Next]_vars PROVE IInv'
  OBVIOUS
<1>1. CASE Service
  BY <1>1, DeviceInfoStep, SetTimeStep, LogAckStep, LogReadStep, ReadEntryStep, ReadEndStep DEF Service
<1>2. CASE Host
  BY <1>2, PullBeginStep, GotInfoStep, GotTimeOrEndStep, GotPageStep, PullEndStep DEF Host
<1>3. CASE UNCHANGED vars
  BY <1>3 DEF vars, IInv, TypeInv, ReqInv, PageInv, AnsInv, HostInv, Continues, Has, Recorded
<1>. QED
  BY <1>1, <1>2, <1>3, ProgrammingStep, ConnectionLostStep, RestartStep, RestartFormattedStep DEF Next

(* IInv holds in every reachable state. *)
THEOREM Invariance == Spec => []IInv
  BY Initial, NextStep, PTL DEF Spec

(* Log, service and host stay within their types; a boot has one time anchor at most. *)
THEOREM TypeCorrect == Spec => []CollectTypeOK
<1>1. IInv => CollectTypeOK
  <2> SUFFICES ASSUME IInv PROVE CollectTypeOK
    OBVIOUS
  <2>1. \A id \in DOMAIN log : log[id] \in [kind : Kind, cond : Condition]
    <3>1. \A id \in DOMAIN log : log[id] \in LogRecord
      BY ElementOfSeq, LenProperties DEF IInv, TypeInv
    <3>. QED
      BY <3>1 DEF LogRecord
  <2>2. \A i \in DOMAIN page : page[i] \in Entry
    BY ElementOfSeq, LenProperties DEF IInv, TypeInv
  <2>. QED
    BY <2>1, <2>2 DEF IInv, TypeInv, CollectTypeOK
<1>. QED
  BY <1>1, Invariance, PTL

(***************************************************************************)
(* No record is acknowledged or overwritten before the host has it in its  *)
(* file, whatever is appended, lost or restarted in between: what is       *)
(* overwritten has been acknowledged, and what is acknowledged the host    *)
(* has.                                                                    *)
(***************************************************************************)
THEOREM LogIsKept == Spec => []NothingLost
<1>1. IInv => NothingLost
  <2> SUFFICES ASSUME IInv, NEW id \in 1..Len(log), id <= acked \/ id \notin Stored
               PROVE  \E e \in file : e.id = id /\ (log[id].cond = "intact" => e.type = log[id].kind)
    BY DEF NothingLost
  <2>1. Len(log) \in Nat /\ acked \in Nat /\ Capacity \in Nat /\ Len(log) - acked <= Capacity
    BY CollectAssumption DEF IInv, TypeInv, HostInv, Ids
  <2>2. id \in 1..acked
    BY <2>1 DEF Stored
  <2>. QED
    BY <2>2 DEF IInv, HostInv, Has, Recorded
<1>. QED
  BY <1>1, Invariance, PTL

(* A pull that acknowledges has everything that was in the log when it started. *)
THEOREM PullIsComplete == Spec => []PullComplete
<1>1. IInv => PullComplete
  <2> SUFFICES ASSUME IInv, pull = "ack", NEW id \in 1..newest PROVE \E e \in file : e.id = id
    BY DEF PullComplete
  <2>1. newest \in Nat /\ last \in Nat /\ newest <= last
    BY CollectAssumption DEF IInv, TypeInv, HostInv, Ids
  <2>2. id \in 1..last
    BY <2>1
  <2>. QED
    BY <2>2 DEF IInv, HostInv, Has
<1>. QED
  BY <1>1, Invariance, PTL

(***************************************************************************)
(* The log with its entries implements the counter SoulInjector uses for   *)
(* it: every step of LogCollect is a step of ProgLog or leaves it alone.   *)
(***************************************************************************)
THEOREM CollectImplementsProgLog == Spec => ImplementsProgLog
<1>1. Init => Counted!LogInit
  BY CollectAssumption DEF Init, Counted!LogInit
<1>2. IInv /\ [Next]_vars => [Counted!LogNext]_(Counted!logVars)
  <2> SUFFICES ASSUME IInv, [Next]_vars PROVE [Counted!LogNext]_(Counted!logVars)
    OBVIOUS
  <2> USE DEF Counted!logVars
  <2>1. /\ Len(log) \in Nat /\ acked \in Nat /\ acked <= Len(log)
        /\ Capacity \in Nat /\ Len(log) - acked <= Capacity
    BY CollectAssumption DEF IInv, TypeInv, HostInv, Ids
  <2>2. ASSUME NEW r \in LogRecord, log' = Append(log, r) PROVE Len(log') = Len(log) + 1
    BY <2>2, Appended DEF IInv, TypeInv
  <2>3. CASE AddRun
    <3>1. PICK cond \in Condition : log' = Append(log, [kind |-> "RUN", cond |-> cond])
      BY <2>3 DEF AddRun, AppendEntry
    <3>2. [kind |-> "RUN", cond |-> cond] \in LogRecord
      BY DEF LogRecord, Kind, Condition
    <3>3. Len(log') = Len(log) + 1
      BY <2>2, <3>1, <3>2
    <3>4. Counted!AddRunOk
      BY <2>1, <2>3, <3>3 DEF AddRun, can_append, protect_unacked, Counted!AddRunOk, Counted!can_append
    <3>. QED
      BY <3>4 DEF Counted!LogNext
  <2>4. CASE AddRunFail
    <3>1. Len(log') = Len(log) \/ (Len(log') = Len(log) + 1 /\ Len(log) - acked < Capacity)
      <4>1. \A cond \in Condition : [kind |-> "RUN", cond |-> cond] \in LogRecord
        BY DEF LogRecord, Kind, Condition
      <4>. QED
        BY <2>2, <2>4, <4>1 DEF AddRunFail, AppendEntry, can_append, protect_unacked
    <3>2. Len(log') - acked' \in {Len(log) - acked, (Len(log) - acked) + 1} \cap 0..Capacity
      BY <2>1, <2>4, <3>1 DEF AddRunFail
    <3>3. write_failed' = TRUE
      BY <2>4 DEF AddRunFail
    <3>. QED
      BY <3>2, <3>3 DEF Counted!LogNext, Counted!AddRunFail
  <2>5. CASE OpLogAck
    <3>1. UNCHANGED <<log, write_failed>>
      BY <2>5 DEF OpLogAck
    <3>2. req.arg = last /\ last \in Nat /\ last <= Len(log)
      BY <2>5, CollectAssumption DEF OpLogAck, IInv, ReqInv, TypeInv, HostInv, Ids
    <3>3. CASE acked' = acked
      BY <3>1, <3>3
    <3>4. CASE acked' # acked
      <4>1. acked' = last /\ acked < last
        BY <2>1, <2>5, <3>2, <3>4 DEF OpLogAck
      <4>2. Len(log) - last \in 0..Capacity /\ Len(log) - last < Len(log) - acked
        BY <2>1, <3>2, <4>1
      <4>. QED
        BY <3>1, <4>1, <4>2 DEF Counted!LogNext, Counted!Ack
    <3>. QED
      BY <3>3, <3>4
  <2>6. CASE Restart
    <3>1. Len(log') = Len(log) \/ (Len(log') = Len(log) + 1 /\ Len(log) - acked < Capacity)
      <4>1. \A cond \in Condition : [kind |-> "BOOT", cond |-> cond] \in LogRecord
        BY DEF LogRecord, Kind, Condition
      <4>. QED
        BY <2>2, <2>6, <4>1 DEF Restart, AppendEntry, can_append, protect_unacked
    <3>2. Len(log') - acked' \in {Len(log) - acked, (Len(log) - acked) + 1, 0, 1} \cap 0..Capacity
      BY <2>1, <2>6, <3>1 DEF Restart
    <3>3. write_failed' = FALSE
      BY <2>6 DEF Restart, Boot
    <3>. QED
      BY <3>2, <3>3 DEF Counted!LogNext, Counted!LogRestart
  <2>7. CASE RestartFormatted
    <3>1. Len(log') = 1 /\ acked' = 0 /\ write_failed' = FALSE
      BY <2>7 DEF RestartFormatted, Boot
    <3>2. Len(log') - acked' \in {Len(log) - acked, (Len(log) - acked) + 1, 0, 1} \cap 0..Capacity
      BY <3>1, CollectAssumption
    <3>. QED
      BY <3>1, <3>2 DEF Counted!LogNext, Counted!LogRestart
  <2>8. CASE ~(AddRun \/ AddRunFail \/ OpLogAck \/ Restart \/ RestartFormatted)
    <3>1. UNCHANGED <<log, acked, write_failed>>
      BY <2>8
      DEF Next, vars, Programming, Service, Host, StartRun, OpDeviceInfo, OpSetTime, OpLogRead, ReadEntry,
          ReadEnd, ReadError, ReadReturns, PullBegin, GotInfo, GotTime, GotPage, GotEnd, PullEnd,
          ConnectionLost
    <3>. QED
      BY <3>1
  <2>. QED
    BY <2>3, <2>4, <2>5, <2>6, <2>7, <2>8
<1>. QED
  BY <1>1, <1>2, Invariance, PTL DEF Spec, ImplementsProgLog, Counted!LogSpec

===============================================================================
