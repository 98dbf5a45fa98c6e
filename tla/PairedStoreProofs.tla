-------------------------- MODULE PairedStoreProofs --------------------------
(* Proofs about PairedStore: its types, and that the files stay whole and     *)
(* agree with the memory of the host that runs.                               *)
EXTENDS PairedStore, TLAPS

-----------------------------------------------------------------------------
\* The inductive invariant.

\* The port admits one process.
OneRuns == \A p, q \in Process : phase[p] \in Running /\ phase[q] \in Running => p = q

\* The file is torn as long as its maker writes it, and has one maker.
MakerAlone ==
    /\ \A p \in Process : phase[p] = "writing" => certFile = Torn
    /\ \A p, q \in Process : phase[p] = "writing" /\ phase[q] = "writing" => p = q

\* What a save has come to.
SaveSteps ==
    \A p \in Process :
        /\ phase[p] = "renaming" => tmp = devices[p]
        /\ phase[p] = "saved" => json = devices[p]

\* What is in memory before the port is bound, and after.
LoadedIsSaved ==
    \A p \in Process :
        (phase[p] \in {"binding", "running"} /\ ~overtaken[p] /\ ~unsaved[p])
        => devices[p] = Saved

\* A process that has begun to make a certificate has saved nothing yet.
NothingFailed ==
    \A p \in Process : phase[p] \in Starting => ~unsaved[p]

StoreInv ==
    /\ StoreTypeOK /\ OneRuns /\ MakerAlone /\ SaveSteps /\ NothingFailed /\ LoadedIsSaved
    /\ CertificateKept /\ ListSurvives

-----------------------------------------------------------------------------
\* The list of a host that has no file is a list.
LEMMA EmptyIsList == Empty \in List
BY DEF Empty, List

\* Files that are not there or not written are no lists and no certificates.
LEMMA Distinct == Absent # Torn /\ Absent \notin Nat /\ Torn \notin Nat
                  /\ Absent \notin List /\ Torn \notin List
BY StoreAssumption, FileAssumption

\* Before any start there are no files.
LEMMA InitStoreInv == Init => StoreInv
<1> SUFFICES ASSUME Init PROVE StoreInv
  OBVIOUS
<1> USE DEF Init
<1>1. StoreTypeOK
  BY EmptyIsList, StoreAssumption DEF StoreTypeOK
<1>2. OneRuns /\ MakerAlone /\ SaveSteps /\ NothingFailed /\ LoadedIsSaved /\
     CertificateKept
  BY DEF OneRuns, MakerAlone, SaveSteps, NothingFailed, LoadedIsSaved, CertificateKept,
         Running, Starting
<1>3. ListSurvives
  BY Distinct DEF ListSurvives, Saved
<1> QED
  BY <1>1, <1>2, <1>3 DEF StoreInv

\* A list changed in one place is a list.
LEMMA ChangedList ==
    ASSUME NEW l \in List, NEW d \in Device, NEW n \in Name \cup {Unpaired}
    PROVE  [l EXCEPT ![d] = n] \in List
BY DEF List

\* A change of the list in memory.
LEMMA ChangeStep ==
    ASSUME StoreInv, NEW p \in Process, NEW list \in List, Changed(p, list)
    PROVE  StoreInv'
<1> USE DEF StoreInv, files, memory, history, Goes, Changed
<1>1. StoreTypeOK'
  BY Distinct, EmptyIsList, StoreAssumption DEF StoreTypeOK, Starting, Running, SaveSteps
<1>2. OneRuns'
  BY DEF StoreTypeOK, OneRuns, Running
<1>3. MakerAlone'
  BY Distinct DEF StoreTypeOK, MakerAlone
<1>4. SaveSteps'
  BY DEF StoreTypeOK, SaveSteps, OneRuns, Running
<1>5. NothingFailed'
  BY DEF StoreTypeOK, NothingFailed, Starting
<1>6. LoadedIsSaved'
  BY Distinct DEF StoreTypeOK, LoadedIsSaved, Saved, NothingFailed, Starting, SaveSteps,
       OneRuns, Running
<1>7. CertificateKept'
  BY Distinct, StoreAssumption DEF StoreTypeOK, CertificateKept, Running, MakerAlone
<1>8. ListSurvives'
  BY Distinct DEF StoreTypeOK, ListSurvives, Saved, SaveSteps
<1> QED
  BY <1>1, <1>2, <1>3, <1>4, <1>5, <1>6, <1>7, <1>8

\* Every step keeps the invariant.
LEMMA StoreInvStep == StoreInv /\ [Next]_vars => StoreInv'
<1> SUFFICES ASSUME StoreInv, [Next]_vars PROVE StoreInv'
  OBVIOUS
<1> USE DEF StoreInv, files, memory, history, Goes
<1>1. CASE UNCHANGED vars
  BY <1>1 DEF vars, StoreTypeOK, OneRuns, MakerAlone, SaveSteps, NothingFailed,
       LoadedIsSaved,
              CertificateKept, ListSurvives, Saved
<1>2. ASSUME NEW p \in Process, Start(p) PROVE StoreInv'
  <2>1. StoreTypeOK'
    BY <1>2, Distinct, EmptyIsList, StoreAssumption DEF StoreTypeOK, Starting, Running,
         SaveSteps, Start
  <2>2. OneRuns'
    BY <1>2 DEF StoreTypeOK, OneRuns, Running, Start
  <2>3. MakerAlone'
    BY <1>2, Distinct DEF StoreTypeOK, MakerAlone, Start
  <2>4. SaveSteps'
    BY <1>2 DEF StoreTypeOK, SaveSteps, OneRuns, Running, Start
  <2>5. NothingFailed'
    BY <1>2 DEF StoreTypeOK, NothingFailed, Starting, Start
  <2>6. LoadedIsSaved'
    BY <1>2, Distinct DEF StoreTypeOK, LoadedIsSaved, Saved, NothingFailed, Starting,
         SaveSteps, OneRuns, Running, Start
  <2>7. CertificateKept'
    BY <1>2, Distinct, StoreAssumption DEF StoreTypeOK, CertificateKept, Running,
         MakerAlone, Start
  <2>8. ListSurvives'
    BY <1>2, Distinct DEF StoreTypeOK, ListSurvives, Saved, SaveSteps, Start
  <2> QED
    BY <2>1, <2>2, <2>3, <2>4, <2>5, <2>6, <2>7, <2>8
<1>3. ASSUME NEW p \in Process, LoadCertificate(p) PROVE StoreInv'
  <2>1. StoreTypeOK'
    BY <1>3, Distinct, EmptyIsList, StoreAssumption DEF StoreTypeOK, Starting, Running,
         SaveSteps, LoadCertificate
  <2>2. OneRuns'
    BY <1>3 DEF StoreTypeOK, OneRuns, Running, LoadCertificate
  <2>3. MakerAlone'
    BY <1>3, Distinct DEF StoreTypeOK, MakerAlone, LoadCertificate
  <2>4. SaveSteps'
    BY <1>3 DEF StoreTypeOK, SaveSteps, OneRuns, Running, LoadCertificate
  <2>5. NothingFailed'
    BY <1>3 DEF StoreTypeOK, NothingFailed, Starting, LoadCertificate
  <2>6. LoadedIsSaved'
    BY <1>3, Distinct DEF StoreTypeOK, LoadedIsSaved, Saved, NothingFailed, Starting,
         SaveSteps, OneRuns, Running, LoadCertificate
  <2>7. CertificateKept'
    BY <1>3, Distinct, StoreAssumption DEF StoreTypeOK, CertificateKept, Running,
         MakerAlone, LoadCertificate
  <2>8. ListSurvives'
    BY <1>3, Distinct DEF StoreTypeOK, ListSurvives, Saved, SaveSteps, LoadCertificate
  <2> QED
    BY <2>1, <2>2, <2>3, <2>4, <2>5, <2>6, <2>7, <2>8
<1>4. ASSUME NEW p \in Process, CertificateUnreadable(p) PROVE StoreInv'
  <2>1. StoreTypeOK'
    BY <1>4, Distinct, EmptyIsList, StoreAssumption DEF StoreTypeOK, Starting, Running,
         SaveSteps, CertificateUnreadable
  <2>2. OneRuns'
    BY <1>4 DEF StoreTypeOK, OneRuns, Running, CertificateUnreadable
  <2>3. MakerAlone'
    BY <1>4, Distinct DEF StoreTypeOK, MakerAlone, CertificateUnreadable
  <2>4. SaveSteps'
    BY <1>4 DEF StoreTypeOK, SaveSteps, OneRuns, Running, CertificateUnreadable
  <2>5. NothingFailed'
    BY <1>4 DEF StoreTypeOK, NothingFailed, Starting, CertificateUnreadable
  <2>6. LoadedIsSaved'
    BY <1>4, Distinct DEF StoreTypeOK, LoadedIsSaved, Saved, NothingFailed, Starting,
         SaveSteps, OneRuns, Running, CertificateUnreadable
  <2>7. CertificateKept'
    BY <1>4, Distinct, StoreAssumption DEF StoreTypeOK, CertificateKept, Running,
         MakerAlone, CertificateUnreadable
  <2>8. ListSurvives'
    BY <1>4, Distinct DEF StoreTypeOK, ListSurvives, Saved, SaveSteps, CertificateUnreadable
  <2> QED
    BY <2>1, <2>2, <2>3, <2>4, <2>5, <2>6, <2>7, <2>8
<1>5. ASSUME NEW p \in Process, NoCertificate(p) PROVE StoreInv'
  <2>1. StoreTypeOK'
    BY <1>5, Distinct, EmptyIsList, StoreAssumption DEF StoreTypeOK, Starting, Running,
         SaveSteps, NoCertificate
  <2>2. OneRuns'
    BY <1>5 DEF StoreTypeOK, OneRuns, Running, NoCertificate
  <2>3. MakerAlone'
    BY <1>5, Distinct DEF StoreTypeOK, MakerAlone, NoCertificate
  <2>4. SaveSteps'
    BY <1>5 DEF StoreTypeOK, SaveSteps, OneRuns, Running, NoCertificate
  <2>5. NothingFailed'
    BY <1>5 DEF StoreTypeOK, NothingFailed, Starting, NoCertificate
  <2>6. LoadedIsSaved'
    BY <1>5, Distinct DEF StoreTypeOK, LoadedIsSaved, Saved, NothingFailed, Starting,
         SaveSteps, OneRuns, Running, NoCertificate
  <2>7. CertificateKept'
    BY <1>5, Distinct, StoreAssumption DEF StoreTypeOK, CertificateKept, Running,
         MakerAlone, NoCertificate
  <2>8. ListSurvives'
    BY <1>5, Distinct DEF StoreTypeOK, ListSurvives, Saved, SaveSteps, NoCertificate
  <2> QED
    BY <2>1, <2>2, <2>3, <2>4, <2>5, <2>6, <2>7, <2>8
<1>6. ASSUME NEW p \in Process, CreateCertificate(p) PROVE StoreInv'
  <2>1. StoreTypeOK'
    BY <1>6, Distinct, EmptyIsList, StoreAssumption DEF StoreTypeOK, Starting, Running,
         SaveSteps, CreateCertificate, Creatable
  <2>2. OneRuns'
    BY <1>6 DEF StoreTypeOK, OneRuns, Running, CreateCertificate, Creatable
  <2>3. MakerAlone'
    BY <1>6, Distinct DEF StoreTypeOK, MakerAlone, CreateCertificate, Creatable
  <2>4. SaveSteps'
    BY <1>6 DEF StoreTypeOK, SaveSteps, OneRuns, Running, CreateCertificate, Creatable
  <2>5. NothingFailed'
    BY <1>6 DEF StoreTypeOK, NothingFailed, Starting, CreateCertificate, Creatable
  <2>6. LoadedIsSaved'
    BY <1>6, Distinct DEF StoreTypeOK, LoadedIsSaved, Saved, NothingFailed, Starting,
         SaveSteps, OneRuns, Running, CreateCertificate, Creatable
  <2>7. CertificateKept'
    BY <1>6, Distinct, StoreAssumption DEF StoreTypeOK, CertificateKept, Running,
         MakerAlone, CreateCertificate, Creatable
  <2>8. ListSurvives'
    BY <1>6, Distinct DEF StoreTypeOK, ListSurvives, Saved, SaveSteps, CreateCertificate,
         Creatable
  <2> QED
    BY <2>1, <2>2, <2>3, <2>4, <2>5, <2>6, <2>7, <2>8
<1>7. ASSUME NEW p \in Process, WriteCertificate(p) PROVE StoreInv'
  <2>1. StoreTypeOK'
    BY <1>7, Distinct, EmptyIsList, StoreAssumption DEF StoreTypeOK, Starting, Running,
         SaveSteps, WriteCertificate
  <2>2. OneRuns'
    BY <1>7 DEF StoreTypeOK, OneRuns, Running, WriteCertificate
  <2>3. MakerAlone'
    BY <1>7, Distinct DEF StoreTypeOK, MakerAlone, WriteCertificate
  <2>4. SaveSteps'
    BY <1>7 DEF StoreTypeOK, SaveSteps, OneRuns, Running, WriteCertificate
  <2>5. NothingFailed'
    BY <1>7 DEF StoreTypeOK, NothingFailed, Starting, WriteCertificate
  <2>6. LoadedIsSaved'
    BY <1>7, Distinct DEF StoreTypeOK, LoadedIsSaved, Saved, NothingFailed, Starting,
         SaveSteps, OneRuns, Running, WriteCertificate
  <2>7. CertificateKept'
    BY <1>7, Distinct, StoreAssumption DEF StoreTypeOK, CertificateKept, Running,
         MakerAlone, WriteCertificate
  <2>8. ListSurvives'
    BY <1>7, Distinct DEF StoreTypeOK, ListSurvives, Saved, SaveSteps, WriteCertificate
  <2> QED
    BY <2>1, <2>2, <2>3, <2>4, <2>5, <2>6, <2>7, <2>8
<1>8. ASSUME NEW p \in Process, LoadList(p) PROVE StoreInv'
  <2>1. StoreTypeOK'
    BY <1>8, Distinct, EmptyIsList, StoreAssumption DEF StoreTypeOK, Starting, Running,
         SaveSteps, LoadList
  <2>2. OneRuns'
    BY <1>8 DEF StoreTypeOK, OneRuns, Running, LoadList
  <2>3. MakerAlone'
    BY <1>8, Distinct DEF StoreTypeOK, MakerAlone, LoadList
  <2>4. SaveSteps'
    BY <1>8 DEF StoreTypeOK, SaveSteps, OneRuns, Running, LoadList
  <2>5. NothingFailed'
    BY <1>8 DEF StoreTypeOK, NothingFailed, Starting, LoadList
  <2>6. LoadedIsSaved'
    BY <1>8, Distinct DEF StoreTypeOK, LoadedIsSaved, Saved, NothingFailed, Starting,
         SaveSteps, OneRuns, Running, LoadList
  <2>7. CertificateKept'
    BY <1>8, Distinct, StoreAssumption DEF StoreTypeOK, CertificateKept, Running,
         MakerAlone, LoadList
  <2>8. ListSurvives'
    BY <1>8, Distinct DEF StoreTypeOK, ListSurvives, Saved, SaveSteps, LoadList
  <2> QED
    BY <2>1, <2>2, <2>3, <2>4, <2>5, <2>6, <2>7, <2>8
<1>9. ASSUME NEW p \in Process, Bind(p) PROVE StoreInv'
  <2>1. StoreTypeOK'
    BY <1>9, Distinct, EmptyIsList, StoreAssumption DEF StoreTypeOK, Starting, Running,
         SaveSteps, Bind, PortFree
  <2>2. OneRuns'
    BY <1>9 DEF StoreTypeOK, OneRuns, Running, Bind, PortFree
  <2>3. MakerAlone'
    BY <1>9, Distinct DEF StoreTypeOK, MakerAlone, Bind, PortFree
  <2>4. SaveSteps'
    BY <1>9 DEF StoreTypeOK, SaveSteps, OneRuns, Running, Bind, PortFree
  <2>5. NothingFailed'
    BY <1>9 DEF StoreTypeOK, NothingFailed, Starting, Bind, PortFree
  <2>6. LoadedIsSaved'
    BY <1>9, Distinct DEF StoreTypeOK, LoadedIsSaved, Saved, NothingFailed, Starting,
         SaveSteps, OneRuns, Running, Bind, PortFree
  <2>7. CertificateKept'
    BY <1>9, Distinct, StoreAssumption DEF StoreTypeOK, CertificateKept, Running,
         MakerAlone, Bind, PortFree
  <2>8. ListSurvives'
    BY <1>9, Distinct DEF StoreTypeOK, ListSurvives, Saved, SaveSteps, Bind, PortFree
  <2> QED
    BY <2>1, <2>2, <2>3, <2>4, <2>5, <2>6, <2>7, <2>8
<1>10. ASSUME NEW p \in Process, BeginWrite(p) PROVE StoreInv'
  <2>1. StoreTypeOK'
    BY <1>10, Distinct, EmptyIsList, StoreAssumption DEF StoreTypeOK, Starting, Running,
         SaveSteps, BeginWrite, WritesBeside
  <2>2. OneRuns'
    BY <1>10 DEF StoreTypeOK, OneRuns, Running, BeginWrite, WritesBeside
  <2>3. MakerAlone'
    BY <1>10, Distinct DEF StoreTypeOK, MakerAlone, BeginWrite, WritesBeside
  <2>4. SaveSteps'
    BY <1>10 DEF StoreTypeOK, SaveSteps, OneRuns, Running, BeginWrite, WritesBeside
  <2>5. NothingFailed'
    BY <1>10 DEF StoreTypeOK, NothingFailed, Starting, BeginWrite, WritesBeside
  <2>6. LoadedIsSaved'
    BY <1>10, Distinct DEF StoreTypeOK, LoadedIsSaved, Saved, NothingFailed, Starting,
         SaveSteps, OneRuns, Running, BeginWrite, WritesBeside
  <2>7. CertificateKept'
    BY <1>10, Distinct, StoreAssumption DEF StoreTypeOK, CertificateKept, Running,
         MakerAlone, BeginWrite, WritesBeside
  <2>8. ListSurvives'
    BY <1>10, Distinct DEF StoreTypeOK, ListSurvives, Saved, SaveSteps, BeginWrite,
         WritesBeside
  <2> QED
    BY <2>1, <2>2, <2>3, <2>4, <2>5, <2>6, <2>7, <2>8
<1>11. ASSUME NEW p \in Process, EndWrite(p) PROVE StoreInv'
  <2>1. StoreTypeOK'
    BY <1>11, Distinct, EmptyIsList, StoreAssumption DEF StoreTypeOK, Starting, Running,
         SaveSteps, EndWrite, WritesBeside
  <2>2. OneRuns'
    BY <1>11 DEF StoreTypeOK, OneRuns, Running, EndWrite, WritesBeside
  <2>3. MakerAlone'
    BY <1>11, Distinct DEF StoreTypeOK, MakerAlone, EndWrite, WritesBeside
  <2>4. SaveSteps'
    BY <1>11 DEF StoreTypeOK, SaveSteps, OneRuns, Running, EndWrite, WritesBeside
  <2>5. NothingFailed'
    BY <1>11 DEF StoreTypeOK, NothingFailed, Starting, EndWrite, WritesBeside
  <2>6. LoadedIsSaved'
    BY <1>11, Distinct DEF StoreTypeOK, LoadedIsSaved, Saved, NothingFailed, Starting,
         SaveSteps, OneRuns, Running, EndWrite, WritesBeside
  <2>7. CertificateKept'
    BY <1>11, Distinct, StoreAssumption DEF StoreTypeOK, CertificateKept, Running,
         MakerAlone, EndWrite, WritesBeside
  <2>8. ListSurvives'
    BY <1>11, Distinct DEF StoreTypeOK, ListSurvives, Saved, SaveSteps, EndWrite,
         WritesBeside
  <2> QED
    BY <2>1, <2>2, <2>3, <2>4, <2>5, <2>6, <2>7, <2>8
<1>12. ASSUME NEW p \in Process, RenameOver(p) PROVE StoreInv'
  <2>1. StoreTypeOK'
    BY <1>12, Distinct, EmptyIsList, StoreAssumption DEF StoreTypeOK, Starting, Running,
         SaveSteps, RenameOver
  <2>2. OneRuns'
    BY <1>12 DEF StoreTypeOK, OneRuns, Running, RenameOver
  <2>3. MakerAlone'
    BY <1>12, Distinct DEF StoreTypeOK, MakerAlone, RenameOver
  <2>4. SaveSteps'
    BY <1>12 DEF StoreTypeOK, SaveSteps, OneRuns, Running, RenameOver
  <2>5. NothingFailed'
    BY <1>12 DEF StoreTypeOK, NothingFailed, Starting, RenameOver
  <2>6. LoadedIsSaved'
    BY <1>12, Distinct DEF StoreTypeOK, LoadedIsSaved, Saved, NothingFailed, Starting,
         SaveSteps, OneRuns, Running, RenameOver
  <2>7. CertificateKept'
    BY <1>12, Distinct, StoreAssumption DEF StoreTypeOK, CertificateKept, Running,
         MakerAlone, RenameOver
  <2>8. ListSurvives'
    BY <1>12, Distinct DEF StoreTypeOK, ListSurvives, Saved, SaveSteps, RenameOver
  <2> QED
    BY <2>1, <2>2, <2>3, <2>4, <2>5, <2>6, <2>7, <2>8
<1>13. ASSUME NEW p \in Process, Answered(p) PROVE StoreInv'
  <2>1. StoreTypeOK'
    BY <1>13, Distinct, EmptyIsList, StoreAssumption DEF StoreTypeOK, Starting, Running,
         SaveSteps, Answered
  <2>2. OneRuns'
    BY <1>13 DEF StoreTypeOK, OneRuns, Running, Answered
  <2>3. MakerAlone'
    BY <1>13, Distinct DEF StoreTypeOK, MakerAlone, Answered
  <2>4. SaveSteps'
    BY <1>13 DEF StoreTypeOK, SaveSteps, OneRuns, Running, Answered
  <2>5. NothingFailed'
    BY <1>13 DEF StoreTypeOK, NothingFailed, Starting, Answered
  <2>6. LoadedIsSaved'
    BY <1>13, Distinct DEF StoreTypeOK, LoadedIsSaved, Saved, NothingFailed, Starting,
         SaveSteps, OneRuns, Running, Answered
  <2>7. CertificateKept'
    BY <1>13, Distinct, StoreAssumption DEF StoreTypeOK, CertificateKept, Running,
         MakerAlone, Answered
  <2>8. ListSurvives'
    BY <1>13, Distinct DEF StoreTypeOK, ListSurvives, Saved, SaveSteps, Answered
  <2> QED
    BY <2>1, <2>2, <2>3, <2>4, <2>5, <2>6, <2>7, <2>8
<1>14. ASSUME NEW p \in Process, SaveFails(p) PROVE StoreInv'
  <2>1. StoreTypeOK'
    BY <1>14, Distinct, EmptyIsList, StoreAssumption DEF StoreTypeOK, Starting, Running,
         SaveSteps, SaveFails
  <2>2. OneRuns'
    BY <1>14 DEF StoreTypeOK, OneRuns, Running, SaveFails
  <2>3. MakerAlone'
    BY <1>14, Distinct DEF StoreTypeOK, MakerAlone, SaveFails
  <2>4. SaveSteps'
    BY <1>14 DEF StoreTypeOK, SaveSteps, OneRuns, Running, SaveFails
  <2>5. NothingFailed'
    BY <1>14 DEF StoreTypeOK, NothingFailed, Starting, SaveFails
  <2>6. LoadedIsSaved'
    BY <1>14, Distinct DEF StoreTypeOK, LoadedIsSaved, Saved, NothingFailed, Starting,
         SaveSteps, OneRuns, Running, SaveFails
  <2>7. CertificateKept'
    BY <1>14, Distinct, StoreAssumption DEF StoreTypeOK, CertificateKept, Running,
         MakerAlone, SaveFails
  <2>8. ListSurvives'
    BY <1>14, Distinct DEF StoreTypeOK, ListSurvives, Saved, SaveSteps, SaveFails
  <2> QED
    BY <2>1, <2>2, <2>3, <2>4, <2>5, <2>6, <2>7, <2>8
<1>15. ASSUME NEW p \in Process, Ends(p) PROVE StoreInv'
  <2>1. StoreTypeOK'
    BY <1>15, Distinct, EmptyIsList, StoreAssumption DEF StoreTypeOK, Starting, Running,
         SaveSteps, Ends
  <2>2. OneRuns'
    BY <1>15 DEF StoreTypeOK, OneRuns, Running, Ends
  <2>3. MakerAlone'
    BY <1>15, Distinct DEF StoreTypeOK, MakerAlone, Ends
  <2>4. SaveSteps'
    BY <1>15 DEF StoreTypeOK, SaveSteps, OneRuns, Running, Ends
  <2>5. NothingFailed'
    BY <1>15 DEF StoreTypeOK, NothingFailed, Starting, Ends
  <2>6. LoadedIsSaved'
    BY <1>15, Distinct DEF StoreTypeOK, LoadedIsSaved, Saved, NothingFailed, Starting,
         SaveSteps, OneRuns, Running, Ends
  <2>7. CertificateKept'
    BY <1>15, Distinct, StoreAssumption DEF StoreTypeOK, CertificateKept, Running,
         MakerAlone, Ends
  <2>8. ListSurvives'
    BY <1>15, Distinct DEF StoreTypeOK, ListSurvives, Saved, SaveSteps, Ends
  <2> QED
    BY <2>1, <2>2, <2>3, <2>4, <2>5, <2>6, <2>7, <2>8
<1>16. ASSUME NEW p \in Process, NEW d \in Device, Remove(p, d) PROVE StoreInv'
  <2>1. [devices[p] EXCEPT ![d] = Unpaired] \in List
    BY ChangedList DEF StoreTypeOK
  <2> QED
    BY <1>16, <2>1, ChangeStep DEF Remove
<1>17. ASSUME NEW p \in Process, NEW d \in Device, Touch(p, d) PROVE StoreInv'
  <2>1. devices[p] \in List
    BY ChangedList DEF StoreTypeOK
  <2> QED
    BY <1>17, <2>1, ChangeStep DEF Touch
<1>18. ASSUME NEW p \in Process, NEW d \in Device, NEW n \in Name, Add(p, d, n) PROVE
     StoreInv'
  <2>1. [devices[p] EXCEPT ![d] = n] \in List
    BY ChangedList DEF StoreTypeOK
  <2> QED
    BY <1>18, <2>1, ChangeStep DEF Add
<1>19. ASSUME NEW p \in Process, NEW d \in Device, NEW n \in Name, Rename(p, d, n) PROVE
     StoreInv'
  <2>1. [devices[p] EXCEPT ![d] = n] \in List
    BY ChangedList DEF StoreTypeOK
  <2> QED
    BY <1>19, <2>1, ChangeStep DEF Rename
<1> QED
  BY <1>1, <1>2, <1>3, <1>4, <1>5, <1>6, <1>7, <1>8, <1>9, <1>10, <1>11, <1>12, <1>13,
       <1>14, <1>15, <1>16, <1>17, <1>18, <1>19 DEF Next

\* Whatever processes start, overlap, fail and end, and wherever they end, the files
\* are those the invariant describes (pairing.rs, load_or_create_certificate and save).
THEOREM StoreInvariance == Spec => []StoreInv
<1>1. Init => StoreInv
  BY InitStoreInv
<1>2. StoreInv /\ [Next]_vars => StoreInv'
  BY StoreInvStep
<1> QED
  BY <1>1, <1>2, PTL DEF Spec

\* Every file, and every list in memory, is one the code can write: the certificate
\* comes from one of the starts, paired.json is never a torn file.
THEOREM StoreTypeCorrect == Spec => []StoreTypeOK
<1>1. StoreInv => StoreTypeOK
  BY DEF StoreInv
<1> QED
  BY <1>1, StoreInvariance, PTL

\* paired.json is a whole list at every moment, and the last one answered or the one
\* a process has just renamed into place (pairing.rs, save).
THEOREM ListSurvivesHolds == Spec => []ListSurvives
<1>1. StoreInv => ListSurvives
  BY DEF StoreInv
<1> QED
  BY <1>1, StoreInvariance, PTL

\* The list in the memory of the host that runs is the list on disk, unless its last
\* save failed or it loaded the list before another process's last save.
THEOREM MemoryIsTruthHolds == Spec => []MemoryIsTruth
<1>1. ASSUME StoreInv PROVE MemoryIsTruth
  <2> SUFFICES ASSUME NEW p \in Process, phase[p] \in {"running", "saved"},
                      ~overtaken[p], ~unsaved[p]
               PROVE  devices[p] = Saved
    BY DEF MemoryIsTruth
  <2>1. CASE phase[p] = "running"
    BY <1>1, <2>1 DEF StoreInv, LoadedIsSaved
  <2>2. CASE phase[p] = "saved"
    <3>1. json = devices[p] /\ devices[p] \in List
      BY <1>1, <2>2 DEF StoreInv, SaveSteps, StoreTypeOK
    <3> QED
      BY <3>1, Distinct DEF Saved
  <2> QED
    BY <2>1, <2>2
<1> QED
  BY <1>1, StoreInvariance, PTL

\* All processes past load_or_create_certificate use the certificate in the file: the
\* fingerprint that devices pinned never changes.
THEOREM CertificateKeptHolds == Spec => []CertificateKept
<1>1. StoreInv => CertificateKept
  BY DEF StoreInv
<1> QED
  BY <1>1, StoreInvariance, PTL
=============================================================================
