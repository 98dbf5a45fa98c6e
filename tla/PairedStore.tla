----------------------------- MODULE PairedStore -----------------------------
(***************************************************************************)
(* The host's files (host/src/pairing.rs): the certificate, made by the    *)
(* first run and loaded by every later one, and the list of paired         *)
(* devices, which the running host keeps in memory and saves after every   *)
(* change by writing a temporary file and renaming it over the old one.    *)
(*                                                                         *)
(* Host processes start (main.rs, run_webrtc), may overlap, and may end    *)
(* between any two steps; only one of them holds the host page's port.     *)
(* Calls to the file system may fail.  What a call has written survives    *)
(* the end of the process; the loss of power is left out.                  *)
(*                                                                         *)
(* A definition that stands right before the one it is a variant of, with  *)
(* the same parameters, is a deliberate mistake no action uses.  Put in    *)
(* the place of the other it makes TLC report the property it breaks.      *)
(***************************************************************************)
EXTENDS Naturals

CONSTANTS
    Process,        \* host processes
    Device,         \* fingerprints
    Name,           \* names the user gives
    Unpaired,       \* marks a device that is not on the list
    Absent, Torn,   \* a file that is not there, or not completely written
    MaxStarts       \* bound: starts of the host

ASSUME StoreAssumption ==
    /\ Unpaired \notin Name
    /\ Absent # Torn
    /\ Absent \notin Nat /\ Torn \notin Nat
    /\ MaxStarts \in Nat

List == [Device -> Name \cup {Unpaired}]
Empty == [d \in Device |-> Unpaired]

ASSUME FileAssumption == Absent \notin List /\ Torn \notin List

VARIABLES
    certFile,   \* host-cert.pem: Absent, Torn, or the start that made it
    json, tmp,  \* paired.json and paired.json.tmp
    phase,      \* where each process is
    cert,       \* the certificate each process has, or makes if there is none
    devices,    \* the list each process has in memory
    unsaved,    \* whether a save of this process has failed
    starts,     \* number of starts
    overtaken,  \* history: the list was saved by another after this one loaded it
    promised    \* history: the list the user was last told is saved

files == <<certFile, json, tmp>>
memory == <<cert, devices, unsaved>>
history == <<overtaken, promised>>
vars == <<files, phase, memory, starts, history>>

Starting == {"certificate", "creating", "writing", "loading", "binding"}
Running == {"running", "saving", "renaming", "saved"}

StoreTypeOK ==
    /\ certFile \in {Absent, Torn} \cup 0..MaxStarts
    /\ json \in {Absent} \cup List
    /\ tmp \in {Absent, Torn} \cup List
    /\ phase \in [Process -> {"off"} \cup Starting \cup Running]
    /\ cert \in [Process -> 0..MaxStarts]
    /\ devices \in [Process -> List]
    /\ unsaved \in [Process -> BOOLEAN]
    /\ starts \in 0..MaxStarts
    /\ overtaken \in [Process -> BOOLEAN]
    /\ promised \in List

Init ==
    /\ certFile = Absent /\ json = Absent /\ tmp = Absent
    /\ phase = [p \in Process |-> "off"]
    /\ cert = [p \in Process |-> 0]
    /\ devices = [p \in Process |-> Empty]
    /\ unsaved = [p \in Process |-> FALSE]
    /\ starts = 0
    /\ overtaken = [p \in Process |-> FALSE]
    /\ promised = Empty

Goes(p, from, to) == phase[p] = from /\ phase' = [phase EXCEPT ![p] = to]

-----------------------------------------------------------------------------
\* load_or_create_certificate.

Start(p) ==
    /\ starts < MaxStarts
    /\ Goes(p, "off", "certificate")
    /\ starts' = starts + 1
    /\ cert' = [cert EXCEPT ![p] = starts + 1]
    /\ unsaved' = [unsaved EXCEPT ![p] = FALSE]
    /\ overtaken' = [overtaken EXCEPT ![p] = FALSE]
    /\ UNCHANGED <<files, devices, promised>>

\* The file is there and parses, or is there and does not, or is made.
LoadCertificate(p) ==
    /\ certFile # Absent /\ certFile # Torn
    /\ Goes(p, "certificate", "loading")
    /\ cert' = [cert EXCEPT ![p] = certFile]
    /\ UNCHANGED <<files, devices, unsaved, starts, history>>

CertificateUnreadable(p) ==
    /\ certFile = Torn
    /\ Goes(p, "certificate", "off")
    /\ UNCHANGED <<files, memory, starts, history>>

NoCertificate(p) ==
    /\ certFile = Absent
    /\ Goes(p, "certificate", "creating")
    /\ UNCHANGED <<files, memory, starts, history>>

\* create_new: fails if the file has come into being meanwhile.
Truncatable == TRUE
Creatable == certFile = Absent

CreateCertificate(p) ==
    \/ /\ Creatable
       /\ Goes(p, "creating", "writing")
       /\ certFile' = Torn
       /\ UNCHANGED <<json, tmp, memory, starts, history>>
    \/ /\ ~Creatable
       /\ Goes(p, "creating", "off")
       /\ UNCHANGED <<files, memory, starts, history>>

WriteCertificate(p) ==
    /\ Goes(p, "writing", "loading")
    /\ certFile' = cert[p]
    /\ UNCHANGED <<json, tmp, memory, starts, history>>

-----------------------------------------------------------------------------
\* PairedDevices::load, then admin::start, which binds the host page's port.

LoadList(p) ==
    /\ json # Torn
    /\ Goes(p, "loading", "binding")
    /\ devices' = [devices EXCEPT ![p] = IF json = Absent THEN Empty ELSE json]
    /\ UNCHANGED <<files, cert, unsaved, starts, history>>

AnyPort == TRUE
PortFree == \A p \in Process : phase[p] \notin Running

Bind(p) ==
    /\ Goes(p, "binding", IF PortFree THEN "running" ELSE "off")
    /\ UNCHANGED <<files, memory, starts, history>>

-----------------------------------------------------------------------------
\* add, remove, rename and touch, under the lock: the list in memory changes
\* first, then it is saved.

Changed(p, list) ==
    /\ Goes(p, "running", "saving")
    /\ devices' = [devices EXCEPT ![p] = list]
    /\ UNCHANGED <<files, cert, unsaved, starts, history>>

Add(p, d, n) ==
    /\ devices[p][d] = Unpaired
    /\ Changed(p, [devices[p] EXCEPT ![d] = n])

Remove(p, d) ==
    /\ devices[p][d] # Unpaired
    /\ Changed(p, [devices[p] EXCEPT ![d] = Unpaired])

Rename(p, d, n) ==
    /\ devices[p][d] # Unpaired
    /\ Changed(p, [devices[p] EXCEPT ![d] = n])

\* The time a device was last seen is left out; saving it is not.
Touch(p, d) ==
    /\ devices[p][d] # Unpaired
    /\ Changed(p, devices[p])

\* fs::write of the temporary file: it is truncated, then complete.
WritesInPlace(list) == json' = list /\ UNCHANGED tmp
WritesBeside(list) == tmp' = list /\ UNCHANGED json

BeginWrite(p) ==
    /\ phase[p] = "saving" /\ tmp # Torn
    /\ WritesBeside(Torn)
    /\ UNCHANGED <<certFile, phase, memory, starts, history>>

EndWrite(p) ==
    /\ Goes(p, "saving", "renaming")
    /\ WritesBeside(devices[p])
    /\ UNCHANGED <<certFile, memory, starts, history>>

RenameOver(p) ==
    /\ Goes(p, "renaming", "saved")
    /\ json' = tmp /\ tmp' = Absent
    /\ overtaken' = [q \in Process |-> overtaken[q] \/ (q # p /\ phase[q] = "binding")]
    /\ UNCHANGED <<certFile, memory, starts, promised>>

\* The change is answered, or has failed.
Answered(p) ==
    /\ Goes(p, "saved", "running")
    /\ promised' = devices[p]
    /\ unsaved' = [unsaved EXCEPT ![p] = FALSE]
    /\ UNCHANGED <<files, cert, devices, starts, overtaken>>

SaveFails(p) ==
    /\ Goes(p, "saving", "running") \/ Goes(p, "renaming", "running")
    /\ unsaved' = [unsaved EXCEPT ![p] = TRUE]
    /\ UNCHANGED <<files, cert, devices, starts, history>>

\* The process ends, by a failure or for good.  A change that was saved but not
\* answered counts as made.
Ends(p) ==
    /\ phase[p] # "off"
    /\ phase' = [phase EXCEPT ![p] = "off"]
    /\ promised' = IF phase[p] = "saved" THEN devices[p] ELSE promised
    /\ UNCHANGED <<files, memory, starts, overtaken>>

Next ==
    \E p \in Process :
        \/ Start(p) \/ LoadCertificate(p) \/ CertificateUnreadable(p) \/ NoCertificate(p)
        \/ CreateCertificate(p) \/ WriteCertificate(p) \/ LoadList(p) \/ Bind(p)
        \/ \E d \in Device : \/ Remove(p, d) \/ Touch(p, d)
                             \/ \E n \in Name : Add(p, d, n) \/ Rename(p, d, n)
        \/ BeginWrite(p) \/ EndWrite(p) \/ RenameOver(p)
        \/ Answered(p) \/ SaveFails(p) \/ Ends(p)

Spec == Init /\ [][Next]_vars

-----------------------------------------------------------------------------
\* Properties.

Saved == IF json = Absent THEN Empty ELSE json

\* Wherever a process ends, also in the middle of a save, paired.json is a whole
\* list: the one the user was last told is saved, or the change just being made.
ListSurvives ==
    /\ json # Torn
    /\ Saved # promised =>
          \E p \in Process : phase[p] = "saved" /\ Saved = devices[p]

\* The list a running process has in memory is the one on disk, although others
\* may be starting, except while it is being saved or after a save has failed, and
\* unless the process loaded it just before another one saved its last change and
\* ended.
MemoryIsTruth ==
    \A p \in Process :
        (phase[p] \in {"running", "saved"} /\ ~overtaken[p] /\ ~unsaved[p])
        => devices[p] = Saved

\* Every process that gets past the certificate has the one in the file, so later
\* runs have it too: a fingerprint that devices know never changes, and once any
\* process got past it the file is never torn, however many start at once.
CertificateKept ==
    \A p \in Process :
        phase[p] \in {"loading", "binding"} \cup Running => certFile = cert[p]
=============================================================================
