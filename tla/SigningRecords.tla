--------------------------- MODULE SigningRecords ---------------------------
(***************************************************************************)
(* Consensus signing of a validator node: sign_validator_message reserves  *)
(* a durable signing record for the message's domain and height before it  *)
(* signs, and refuses a message that conflicts with the record there.      *)
(*                                                                         *)
(* commit_consensus_signing_record_if_absent is several file operations:   *)
(* exists, create_new, write.  Processes on one data directory (threads,   *)
(* or a restarted node beside a hung one) interleave between them and may  *)
(* crash at any point.  A record that was created but not written in full  *)
(* cannot be read.                                                         *)
(***************************************************************************)
EXTENDS Integers, FiniteSets

CONSTANTS
    Validators,
    Processes,  \* the signing processes
    Owner,      \* the validator whose data directory and key a process uses
    Domains,    \* ValidatorSignatureDomain: "BlockProposal", "Vote", ...
    Heights,
    Hashes,     \* block hashes
    Absent,     \* no record file
    Torn        \* a record file created but not completely written

ASSUME SigningAssumption ==
    /\ Owner \in [Processes -> Validators]
    /\ Absent \notin Hashes
    /\ Torn \notin Hashes \cup {Absent}

Slots == Domains \X Heights
Messages == [slot: Slots, hash: Hashes]

VARIABLES
    record,   \* the record file of each validator and slot
    pc,       \* the next file operation of each process
    message,  \* the message a process is signing
    signed    \* every signed message sent: validator, slot, hash

signingVars == <<record, pc, message, signed>>

Record(p) == record[Owner[p]][message[p].slot]

-----------------------------------------------------------------------------

(* Mutant: an existing record is not compared with the message.            *)
ReserveUncompared(p, m) ==
    LET found == record[Owner[p]][m.slot]
    IN  /\ pc[p] = "Idle"
        /\ found # Torn
        /\ message' = [message EXCEPT ![p] = m]
        /\ pc' = [pc EXCEPT ![p] = IF found = Absent THEN "Create" ELSE "Sign"]
        /\ UNCHANGED <<record, signed>>

(* reserve_consensus_signing_record up to path.exists(): an existing       *)
(* record is read and must name the same hash, any other is an error.      *)
Reserve(p, m) ==
    LET found == record[Owner[p]][m.slot]
    IN  /\ pc[p] = "Idle"
        /\ found \in {Absent, m.hash}
        /\ message' = [message EXCEPT ![p] = m]
        /\ pc' = [pc EXCEPT ![p] = IF found = Absent THEN "Create" ELSE "Sign"]
        /\ UNCHANGED <<record, signed>>

(* Mutant: the file is opened with create, which truncates it.             *)
CreateOver(p) ==
    /\ pc[p] = "Create"
    /\ record' = [record EXCEPT ![Owner[p]][message[p].slot] = Torn]
    /\ pc' = [pc EXCEPT ![p] = "Write"]
    /\ UNCHANGED <<message, signed>>

(* write_json_create_new opens the file with create_new.                   *)
Create(p) ==
    /\ pc[p] = "Create"
    /\ Record(p) = Absent
    /\ record' = [record EXCEPT ![Owner[p]][message[p].slot] = Torn]
    /\ pc' = [pc EXCEPT ![p] = "Write"]
    /\ UNCHANGED <<message, signed>>

(* Another process created the file first: its record is read instead.     *)
CreateLost(p) ==
    /\ pc[p] = "Create"
    /\ Record(p) # Absent
    /\ pc' = [pc EXCEPT ![p] = IF Record(p) = message[p].hash THEN "Sign" ELSE "Idle"]
    /\ UNCHANGED <<record, message, signed>>

(* write_all.  If sync_all fails afterwards the record is read back and    *)
(* the message is signed all the same.                                     *)
Write(p) ==
    /\ pc[p] = "Write"
    /\ record' = [record EXCEPT ![Owner[p]][message[p].slot] = message[p].hash]
    /\ pc' = [pc EXCEPT ![p] = "Sign"]
    /\ UNCHANGED <<message, signed>>

Sign(p) ==
    /\ pc[p] = "Sign"
    /\ signed' = signed \cup {<<Owner[p], message[p].slot, message[p].hash>>}
    /\ pc' = [pc EXCEPT ![p] = "Idle"]
    /\ UNCHANGED <<record, message>>

(* The process dies, or a write fails and the error is returned.           *)
Crash(p) ==
    /\ pc[p] # "Idle"
    /\ pc' = [pc EXCEPT ![p] = "Idle"]
    /\ UNCHANGED <<record, message, signed>>

SigningInit ==
    /\ record = [v \in Validators |-> [s \in Slots |-> Absent]]
    /\ pc = [p \in Processes |-> "Idle"]
    /\ message \in [Processes -> Messages]
    /\ signed = {}

SigningNext ==
    \E p \in Processes :
        \/ \E m \in Messages : Reserve(p, m)
        \/ Create(p)
        \/ CreateLost(p)
        \/ Write(p)
        \/ Sign(p)
        \/ Crash(p)

-----------------------------------------------------------------------------
(* Properties.                                                             *)

SigningTypeOK ==
    /\ record \in [Validators -> [Slots -> Hashes \cup {Absent, Torn}]]
    /\ pc \in [Processes -> {"Idle", "Create", "Write", "Sign"}]
    /\ message \in [Processes -> Messages]
    /\ signed \subseteq Validators \X Slots \X Hashes

=============================================================================
