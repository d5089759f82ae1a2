-------------------------- MODULE PrefixUpdateProofs --------------------------
(***************************************************************************)
(* Proofs about PrefixUpdate and the ConfFile in it, for every set of      *)
(* files, names and runs of nlsrc.                                         *)
(*                                                                         *)
(* NameLsaFollowsList needs that the number of the installed Name LSA is   *)
(* never ahead of the SequencingManager's (LsaInv), SavedSurvives that an  *)
(* edit keeps a file a file (FileInv) and a saved name written somewhere,  *)
(* be it before a brace (SavedInv), AcceptedIsUsable holds of the          *)
(* parameters after every section (ReadInv), and ReadAsWritten is          *)
(* inductive with the fields every section leaves in place (FieldsInv).    *)
(***************************************************************************)
EXTENDS PrefixUpdate, WellFoundedInduction, TLAPS

IsParameters(c) == c = [f \in DOMAIN c |-> c[f]] /\ {"names", "num"} \subseteq DOMAIN c

FileInv == IsFile(static) /\ IsFile(dynamic)

LsaInv ==
    /\ IsParameters(conf)
    /\ seq \in Nat /\ lsa.seq \in Nat
    /\ lsa = [seq |-> lsa.seq, names |-> lsa.names]
    /\ phase \in {"stopped", "reading", "running"}
    /\ phase = "running" => lsa.seq <= seq /\ lsa.names = conf.names

ClientInv ==
    /\ client \in [Clients -> [waiting : BOOLEAN, answer : Answers]]
    /\ received \subseteq Commands

(* nlsrd finds a heading to write a name after. *)
HasHeading(file) == \E i \in Advertisings(file) : file[i].heading # "inline"

WrittenIn(file) == UNION {{l.name : l \in Written(file[i])} : i \in Advertisings(file)}

SavedInv == HasHeading(dynamic) => saved \subseteq WrittenIn(dynamic)

Inv == FileInv /\ LsaInv /\ ClientInv /\ SavedInv

-----------------------------------------------------------------------------
(* Every section leaves the parameters a record with the same fields. *)
LEMMA ReadersKeepParameters ==
    ASSUME IsParameters(conf), NEW s
    PROVE  /\ IsParameters(ReadGeneral(s)) /\ IsParameters(ReadNeighbors(s))
           /\ IsParameters(ReadHyperbolic(s)) /\ IsParameters(ReadFib(s))
           /\ IsParameters(ReadAdvertising(s)) /\ IsParameters(ReadSecurity(s))
<1>1. IsParameters(ReadGeneral(s))
  BY DEF IsParameters, ReadGeneral
<1>2. IsParameters(ReadNeighbors(s))
  BY DEF IsParameters, ReadNeighbors
<1>3. IsParameters(ReadHyperbolic(s))
  BY DEF IsParameters, ReadHyperbolic
<1>4. IsParameters(ReadFib(s))
  BY DEF IsParameters, ReadFib
<1>5. IsParameters(ReadAdvertising(s))
  BY DEF IsParameters, ReadAdvertising
<1>6. IsParameters(ReadSecurity(s))
  BY DEF IsParameters, ReadSecurity
<1> QED BY <1>1, <1>2, <1>3, <1>4, <1>5, <1>6

LEMMA SectionKeepsParameters ==
    ASSUME IsParameters(conf), ProcessSection
    PROVE  /\ IsParameters(conf') /\ phase' \in {"stopped", "reading"}
           /\ static' = static /\ dynamic' \in {static, dynamic}
           /\ writable' = writable
<1>1. CASE ProcessConfSectionGeneral
  BY <1>1, ReadersKeepParameters DEF ProcessConfSectionGeneral, Continue, Reading
<1>2. CASE ProcessConfSectionNeighbors
  BY <1>2, ReadersKeepParameters DEF ProcessConfSectionNeighbors, Continue, Reading
<1>3. CASE ProcessConfSectionHyperbolic
  BY <1>3, ReadersKeepParameters DEF ProcessConfSectionHyperbolic, Continue, Reading
<1>4. CASE ProcessConfSectionFib
  BY <1>4, ReadersKeepParameters DEF ProcessConfSectionFib, Continue, Reading
<1>5. CASE ProcessConfSectionAdvertising
  BY <1>5, ReadersKeepParameters DEF ProcessConfSectionAdvertising, Continue, Reading
<1>6. CASE ProcessConfSectionSecurity
  BY <1>6, ReadersKeepParameters DEF ProcessConfSectionSecurity, Continue, Reading
<1>7. CASE UnknownSection
  BY <1>7 DEF UnknownSection, Continue, Reading
<1> QED
  BY <1>1, <1>2, <1>3, <1>4, <1>5, <1>6, <1>7 DEF ProcessSection

LEMMA InitialParameters == \A t : IsParameters(InitialConf(t)) /\ InitialConf(t).names = {}
  BY DEF IsParameters, InitialConf

-----------------------------------------------------------------------------
(* What a save or a delete does to a file. *)
IsAdvertising(s) ==
    s = [kind |-> "advertising", heading |-> s.heading, outside |-> s.outside, lines |-> s.lines]

LEMMA EditedSections ==
    ASSUME IsFile(dynamic), NEW n, NEW i \in DOMAIN dynamic
    PROVE  LET d == dynamic[i]
               f == WithPrefix(n)[i]
               g == WithoutPrefix(n)[i]
           IN  /\ d.kind # "advertising" => f = d /\ g = d
               /\ d.kind = "advertising" =>
                     /\ IsAdvertising(f) /\ IsAdvertising(g)
                     /\ f.heading = d.heading
                     /\ d.heading # "inline" => Exact(n) \in Written(f)
                     /\ IsOpen(d) => Exact(n) \in f.lines
                     /\ d.outside = {} /\ d.heading \in {"alone", "inline"} => f.outside = {}
                     /\ Written(d) \subseteq Written(f)
                     /\ g.heading = "inline" => d.heading = "inline"
                     /\ d.heading = "inline" => g.heading = "inline"
                     /\ g.outside = {l \in d.outside : IsKept(l, n)}
                     /\ g.lines = {l \in d.lines : IsKept(l, n)}
<1> DEFINE d == dynamic[i]
           f == WithPrefix(n)[i]
           g == WithoutPrefix(n)[i]
<1>1. CASE d.kind # "advertising"
  BY <1>1 DEF WithPrefix, WithoutPrefix, Advertisings
<1>2. CASE d.kind = "advertising"
  <2>1. IsAdvertising(d)
    BY <1>2 DEF IsFile, IsSection, IsAdvertising
  <2>2. /\ f = AddLine(d, Exact(n))
        /\ g = [d EXCEPT !.heading = Unblanked(@),
                         !.outside = {l \in @ : IsKept(l, n)},
                         !.lines = {l \in @ : IsKept(l, n)}]
    BY <1>2 DEF WithPrefix, WithoutPrefix, Advertisings
  <2> HIDE DEF d, f, g
  <2>3. /\ IsAdvertising(f) /\ f.heading = d.heading
        /\ d.heading # "inline" => Exact(n) \in f.lines \cup f.outside
        /\ IsOpen(d) => Exact(n) \in f.lines
        /\ d.outside = {} /\ d.heading \in {"alone", "inline"} => f.outside = {}
        /\ d.lines \cup d.outside \subseteq f.lines \cup f.outside
    BY <2>1, <2>2 DEF AddLine, IsOpen, IsAdvertising
  <2>4. /\ IsAdvertising(g) /\ g.heading = Unblanked(d.heading)
        /\ g.outside = {l \in d.outside : IsKept(l, n)}
        /\ g.lines = {l \in d.lines : IsKept(l, n)}
    <3> DEFINE o == {l \in d.outside : IsKept(l, n)}
               k == {l \in d.lines : IsKept(l, n)}
               h == Unblanked(d.heading)
    <3>1. g = [d EXCEPT !.heading = h, !.outside = o, !.lines = k]
      BY <2>2
    <3> HIDE DEF o, k, h
    <3>2. DOMAIN d = {"kind", "heading", "outside", "lines"} /\ d.kind = "advertising"
      BY <2>1 DEF IsAdvertising
    <3>3. g.kind = "advertising" /\ g.heading = h /\ g.outside = o /\ g.lines = k
      BY <3>1, <3>2
    <3>4. g = [kind |-> "advertising", heading |-> h, outside |-> o, lines |-> k]
      BY <3>1, <3>2
    <3>5. IsAdvertising(g)
      BY <3>3, <3>4 DEF IsAdvertising
    <3> QED BY <3>3, <3>5 DEF o, k, h
  <2>5. Unblanked(d.heading) = "inline" <=> d.heading = "inline"
    BY DEF Unblanked
  <2> QED BY <1>2, <2>3, <2>4, <2>5 DEF Written, d, f, g
<1> QED BY <1>1, <1>2

LEMMA EditsKeepFiles ==
    ASSUME IsFile(dynamic), NEW n
    PROVE  IsFile(WithPrefix(n)) /\ IsFile(WithoutPrefix(n))
<1>1. PICK k \in Nat : DOMAIN dynamic = 1..k
  BY DEF IsFile, IsSequence
<1>2. ASSUME NEW f, f = [i \in DOMAIN dynamic |-> f[i]],
             \A i \in DOMAIN dynamic : IF dynamic[i].kind = "advertising" THEN IsAdvertising(f[i])
                                      ELSE f[i] = dynamic[i]
      PROVE  IsFile(f)
  <2>1. DOMAIN f = 1..k
    BY <1>1, <1>2
  <2>2. IsSequence(f)
    BY <1>2, <2>1 DEF IsSequence
  <2>3. ASSUME NEW i \in DOMAIN f PROVE IsSection(f[i])
    <3>1. CASE dynamic[i].kind = "advertising"
      <4>1. IsAdvertising(f[i]) /\ f[i].kind = "advertising"
        BY <1>2, <3>1 DEF IsAdvertising
      <4> QED BY <4>1 DEF IsSection, IsAdvertising
    <3>2. CASE dynamic[i].kind # "advertising"
      BY <1>2, <3>2 DEF IsFile
    <3> QED BY <3>1, <3>2
  <2> QED BY <2>2, <2>3 DEF IsFile
<1>3. /\ WithPrefix(n) = [i \in DOMAIN dynamic |-> WithPrefix(n)[i]]
      /\ WithoutPrefix(n) = [i \in DOMAIN dynamic |-> WithoutPrefix(n)[i]]
  BY DEF WithPrefix, WithoutPrefix
<1> QED BY <1>2, <1>3, EditedSections

(* A save writes its name after a heading it can find and loses no other;  *)
(* a delete loses no name but its own, and leaves only commented lines of  *)
(* that.                                                                   *)
LEMMA EditsKeepNames ==
    ASSUME IsFile(dynamic), NEW n
    PROVE  LET f == WithPrefix(n)
               g == WithoutPrefix(n)
           IN  /\ HasHeading(f) => HasHeading(dynamic)
               /\ HasHeading(g) => HasHeading(dynamic)
               /\ WrittenIn(dynamic) \subseteq WrittenIn(f)
               /\ HasHeading(dynamic) => n \in WrittenIn(f)
               /\ WrittenIn(dynamic) \ {n} \subseteq WrittenIn(g)
               /\ CanSave(dynamic) => n \in NamesIn(f)
               /\ n \in NamesIn(g) =>
                     \E i \in Advertisings(dynamic) : \E l \in Written(dynamic[i]) :
                        l.name = n /\ l.layout = "commented"
<1> DEFINE f == WithPrefix(n)
           g == WithoutPrefix(n)
<1>1. /\ DOMAIN f = DOMAIN dynamic /\ DOMAIN g = DOMAIN dynamic
  BY DEF WithPrefix, WithoutPrefix
<1>2. /\ Advertisings(f) = Advertisings(dynamic) /\ Advertisings(g) = Advertisings(dynamic)
      /\ \A i \in Advertisings(dynamic) :
            /\ f[i].heading = dynamic[i].heading
            /\ dynamic[i].heading # "inline" => Exact(n) \in Written(f[i])
            /\ IsOpen(dynamic[i]) => Exact(n) \in f[i].lines
            /\ dynamic[i].outside = {} /\ dynamic[i].heading \in {"alone", "inline"} => f[i].outside = {}
            /\ Written(dynamic[i]) \subseteq Written(f[i])
            /\ g[i].heading = "inline" <=> dynamic[i].heading = "inline"
            /\ g[i].outside = {l \in dynamic[i].outside : IsKept(l, n)}
            /\ g[i].lines = {l \in dynamic[i].lines : IsKept(l, n)}
  <2>1. ASSUME NEW i \in DOMAIN dynamic PROVE f[i].kind = dynamic[i].kind /\ g[i].kind = dynamic[i].kind
    <3>1. CASE dynamic[i].kind = "advertising"
      <4>1. IsAdvertising(f[i]) /\ IsAdvertising(g[i])
        BY <3>1, EditedSections
      <4>2. f[i].kind = "advertising" /\ g[i].kind = "advertising"
        BY <4>1 DEF IsAdvertising
      <4> QED BY <3>1, <4>2
    <3>2. CASE dynamic[i].kind # "advertising"
      BY <3>2, EditedSections
    <3> QED BY <3>1, <3>2
  <2>2. Advertisings(f) = Advertisings(dynamic) /\ Advertisings(g) = Advertisings(dynamic)
    BY <1>1, <2>1 DEF Advertisings
  <2>3. \A i \in Advertisings(dynamic) : i \in DOMAIN dynamic /\ dynamic[i].kind = "advertising"
    BY DEF Advertisings
  <2> QED BY <2>2, <2>3, EditedSections
<1> HIDE DEF f, g
<1>3. Exact(n).name = n
  BY DEF Exact
<1>4. HasHeading(f) => HasHeading(dynamic)
  BY <1>2 DEF HasHeading
<1>5. HasHeading(g) => HasHeading(dynamic)
  BY <1>2 DEF HasHeading
<1>6. WrittenIn(dynamic) \subseteq WrittenIn(f)
  BY <1>2 DEF WrittenIn
<1>7. HasHeading(dynamic) => n \in WrittenIn(f)
  BY <1>2, <1>3 DEF HasHeading, WrittenIn
<1>8. WrittenIn(dynamic) \ {n} \subseteq WrittenIn(g)
  <2> SUFFICES ASSUME NEW i \in Advertisings(dynamic), NEW l \in Written(dynamic[i]), l.name # n
               PROVE  l.name \in WrittenIn(g)
    BY DEF WrittenIn
  <2>1. l \in Written(g[i])
    BY <1>2 DEF Written, IsKept
  <2> QED BY <1>2, <2>1 DEF WrittenIn
<1>9. CanSave(dynamic) => n \in NamesIn(f)
  <2> SUFFICES ASSUME CanSave(dynamic) PROVE n \in NamesIn(f)
    OBVIOUS
  <2>1. PICK i \in Advertisings(dynamic) : IsOpen(dynamic[i])
    BY DEF CanSave, IsOpen
  <2>2. f[i].outside = {} /\ Exact(n) \in f[i].lines
    BY <1>2, <2>1 DEF IsOpen
  <2> QED BY <1>2, <1>3, <2>2 DEF NamesIn, LinesRead
<1>10. ASSUME n \in NamesIn(g)
       PROVE  \E i \in Advertisings(dynamic) : \E l \in Written(dynamic[i]) :
                 l.name = n /\ l.layout = "commented"
  <2>1. PICK i \in Advertisings(dynamic) : \E l \in g[i].lines : l.name = n
    BY <1>2, <1>10 DEF NamesIn, LinesRead
  <2> QED BY <1>2, <2>1 DEF Written, IsKept
<1> QED BY <1>4, <1>5, <1>6, <1>7, <1>8, <1>9, <1>10 DEF f, g

(* What the next start reads is written, and all that is written is read   *)
(* if no line has come before a brace.                                     *)
LEMMA ReadIsWritten ==
    ASSUME NEW file
    PROVE  /\ NamesIn(file) \subseteq WrittenIn(file)
           /\ CanSave(file) => HasHeading(file) /\ WrittenIn(file) \subseteq NamesIn(file)
<1>1. NamesIn(file) \subseteq WrittenIn(file)
  BY DEF NamesIn, WrittenIn, LinesRead, Written
<1>2. ASSUME CanSave(file) PROVE HasHeading(file)
  BY <1>2 DEF CanSave, HasHeading
<1>3. ASSUME CanSave(file) PROVE WrittenIn(file) \subseteq NamesIn(file)
  <2>1. \A i \in Advertisings(file) : Written(file[i]) = LinesRead(file[i])
    BY <1>3 DEF CanSave, Written, LinesRead
  <2> QED BY <2>1 DEF WrittenIn, NamesIn
<1> QED BY <1>1, <1>2, <1>3

-----------------------------------------------------------------------------
(* insert or erase, and the Name LSA after it: the list and the LSA agree, *)
(* and hold the name if and only if it was to be advertised.               *)
LEMMA UpdateListLemma ==
    ASSUME LsaInv, phase = "running", NEW verb \in {"advertise", "withdraw"}, NEW n,
           UpdateList(verb, n)
    PROVE  /\ IsParameters(conf') /\ seq' \in Nat /\ lsa'.seq \in Nat
           /\ lsa' = [seq |-> lsa'.seq, names |-> lsa'.names]
           /\ lsa'.seq <= seq' /\ lsa'.names = conf'.names
           /\ n \in lsa'.names <=> verb = "advertise"
<1>1. /\ IsParameters(conf) /\ seq \in Nat /\ lsa.seq \in Nat
      /\ lsa = [seq |-> lsa.seq, names |-> lsa.names]
      /\ lsa.seq <= seq /\ lsa.names = conf.names
  BY DEF LsaInv
<1>2. IsParameters(conf') /\ conf'.names = NamesAfter(verb, n)
  BY <1>1 DEF UpdateList, IsParameters
<1>3. CASE Changed(verb, n)
  <2>1. /\ seq' = seq + 1
        /\ lsa' = Installed([seq |-> seq + 1, names |-> NamesAfter(verb, n)], lsa)
    BY <1>3 DEF UpdateList, BuildAndInstallOwnNameLsa
  <2>2. lsa' = [seq |-> seq + 1, names |-> NamesAfter(verb, n)]
    BY <1>1, <2>1 DEF Installed
  <2>3. lsa'.seq = seq + 1 /\ lsa'.names = NamesAfter(verb, n)
    BY <2>2
  <2>4. n \in NamesAfter(verb, n) <=> verb = "advertise"
    BY DEF NamesAfter
  <2>5. seq + 1 \in Nat /\ seq + 1 <= seq + 1
    BY <1>1
  <2> QED BY <1>2, <2>1, <2>2, <2>3, <2>4, <2>5
<1>4. CASE ~Changed(verb, n)
  <2>1. seq' = seq /\ lsa' = lsa
    BY <1>4 DEF UpdateList
  <2>2. NamesAfter(verb, n) = conf.names /\ (n \in conf.names <=> verb = "advertise")
    BY <1>4 DEF Changed, NamesAfter
  <2> QED BY <1>1, <1>2, <2>1, <2>2
<1> QED BY <1>3, <1>4

(* An answer to a run of nlsrc. *)
LEMMA ReplyLemma ==
    ASSUME ClientInv, NEW m, NEW answer \in Answers, Reply(m, answer), received' \subseteq received
    PROVE  ClientInv'
<1>1. /\ client \in [Clients -> [waiting : BOOLEAN, answer : Answers]]
      /\ received' \subseteq Commands
  BY DEF ClientInv
<1>2. CASE client' = client
  BY <1>1, <1>2 DEF ClientInv
<1>3. CASE /\ m.client \in Clients
           /\ client' = [client EXCEPT ![m.client] = [waiting |-> FALSE, answer |-> answer]]
  BY <1>1, <1>3 DEF ClientInv
<1> QED BY <1>2, <1>3 DEF Reply

(* What a command does to the file, as far as SavedInv sees it. *)
LEMMA EditLemma ==
    ASSUME FileInv, SavedInv, NEW m \in Commands,
           dynamic' = IF Code(m) = "205" THEN Edited(m.verb, m.name) ELSE dynamic,
           saved' = IF Code(m) # "205" THEN saved
                    ELSE IF m.verb = "advertise" THEN saved \cup {m.name} ELSE saved \ {m.name},
           static' = static
    PROVE  FileInv' /\ SavedInv'
<1>0. IsFile(dynamic) /\ m.verb \in {"advertise", "withdraw"}
  BY DEF FileInv, Commands
<1>1. CASE Code(m) # "205"
  <2>1. dynamic' = dynamic /\ saved' = saved
    BY <1>1
  <2> QED BY <2>1 DEF FileInv, SavedInv
<1>2. CASE Code(m) = "205" /\ m.verb = "advertise"
  <2>1. writable
    <3>1. EditSucceeds(m.verb, m.name)
      BY <1>2 DEF Code
    <3>2. CheckForPrefixInFile(m.name) = FALSE
      BY <1>2, <3>1 DEF EditSucceeds
    <3> QED BY <3>2, Zenon DEF CheckForPrefixInFile
  <2>2. dynamic' = WithPrefix(m.name) /\ saved' = saved \cup {m.name}
    BY <1>2, <2>1 DEF Edited
  <2>3. IsFile(dynamic')
    BY <1>0, <2>2, EditsKeepFiles
  <2>4. HasHeading(dynamic') => saved' \subseteq WrittenIn(dynamic')
    BY <1>0, <2>2, EditsKeepNames DEF SavedInv
  <2> QED BY <2>3, <2>4 DEF FileInv, SavedInv
<1>3. CASE Code(m) = "205" /\ m.verb = "withdraw"
  <2>1. dynamic' \in {dynamic, WithoutPrefix(m.name)} /\ saved' = saved \ {m.name}
    BY <1>3 DEF Edited
  <2>2. IsFile(dynamic')
    BY <1>0, <2>1, EditsKeepFiles
  <2>3. HasHeading(dynamic') => saved' \subseteq WrittenIn(dynamic')
    BY <1>0, <2>1, EditsKeepNames DEF SavedInv
  <2> QED BY <2>2, <2>3 DEF FileInv, SavedInv
<1> QED BY <1>0, <1>1, <1>2, <1>3

-----------------------------------------------------------------------------
(* Init. *)
LEMMA InitInv == Init => Inv
<1> SUFFICES ASSUME Init PROVE Inv
  OBVIOUS
<1>1. FileInv
  <2>1. IsFile(<< >>)
    BY DEF IsFile, IsSequence
  <2> QED BY <2>1, FilesAssumption DEF Init, InitConf, FileInv
<1>2. LsaInv
  BY InitialParameters DEF Init, InitConf, LsaInv, NoLsa
<1>3. ClientInv
  BY DEF Init, ClientInv, Answers
<1>4. SavedInv
  BY DEF Init, SavedInv
<1> QED BY <1>1, <1>2, <1>3, <1>4 DEF Inv

LEMMA NextInv == ASSUME Inv, [Next]_vars PROVE Inv'
<1>0. FileInv /\ LsaInv /\ ClientInv /\ SavedInv
  BY DEF Inv
<1> USE DEF confVars
<1>f. ASSUME UNCHANGED <<static, dynamic, saved>> PROVE FileInv' /\ SavedInv'
  BY <1>0, <1>f DEF FileInv, SavedInv
<1>1. CASE Start
  <2>1. LsaInv'
    BY <1>0, <1>1, InitialParameters DEF Start, ProcessConfFile, LsaInv
  <2>2. FileInv' /\ SavedInv'
    BY <1>1, <1>f DEF Start, ProcessConfFile
  <2>3. ClientInv'
    BY <1>0, <1>1 DEF Start, ClientInv
  <2> QED BY <2>1, <2>2, <2>3 DEF Inv
<1>2. CASE ReadSection
  <2>1. /\ IsParameters(conf') /\ phase' \in {"stopped", "reading"}
        /\ static' = static /\ dynamic' \in {static, dynamic}
    BY <1>0, <1>2, SectionKeepsParameters DEF ReadSection, LsaInv
  <2>2. LsaInv'
    BY <1>0, <1>2, <2>1 DEF ReadSection, LsaInv, IsParameters
  <2>3. ClientInv'
    BY <1>0, <1>2 DEF ReadSection, ClientInv
  <2>4. CASE dynamic' = dynamic
    <3>1. UNCHANGED <<static, dynamic, saved>>
      BY <1>2, <2>1, <2>4 DEF ReadSection
    <3> QED BY <1>f, <2>2, <2>3, <3>1 DEF Inv
  <2>5. CASE dynamic' # dynamic
    <3>1. saved' \subseteq NamesIn(dynamic')
      BY <1>2, <2>5 DEF ReadSection
    <3>2. SavedInv'
      BY <3>1, ReadIsWritten DEF SavedInv
    <3>3. FileInv'
      BY <1>0, <2>1, <2>5 DEF FileInv
    <3> QED BY <2>2, <2>3, <3>2, <3>3 DEF Inv
  <2> QED BY <2>4, <2>5
<1>3. CASE Accept
  <2>1. LsaInv'
    BY <1>0, <1>3 DEF Accept, LsaInv, IsParameters
  <2>2. FileInv' /\ SavedInv'
    BY <1>3, <1>f DEF Accept
  <2>3. ClientInv'
    BY <1>0, <1>3 DEF Accept, ClientInv
  <2> QED BY <2>1, <2>2, <2>3 DEF Inv
<1>4. CASE Stop
  <2>1. LsaInv'
    BY <1>0, <1>4 DEF Stop, LsaInv, IsParameters
  <2>2. FileInv' /\ SavedInv'
    BY <1>4, <1>f DEF Stop
  <2>3. ClientInv'
    BY <1>0, <1>4 DEF Stop, ClientInv
  <2> QED BY <2>1, <2>2, <2>3 DEF Inv
<1>5. CASE CopyDynamic
  <2>1. static' = dynamic /\ dynamic' = dynamic /\ saved' = saved
    BY <1>5 DEF CopyDynamic
  <2>2. FileInv'
    BY <1>0, <2>1 DEF FileInv
  <2>3. SavedInv'
    BY <1>0, <2>1 DEF SavedInv
  <2>4. LsaInv' /\ ClientInv'
    BY <1>0, <1>5 DEF CopyDynamic, LsaInv, IsParameters, ClientInv
  <2> QED BY <2>2, <2>3, <2>4 DEF Inv
<1>6. CASE ChangeAccess
  <2>1. LsaInv' /\ ClientInv'
    BY <1>0, <1>6 DEF ChangeAccess, LsaInv, IsParameters, ClientInv
  <2>2. FileInv' /\ SavedInv'
    BY <1>6, <1>f DEF ChangeAccess
  <2> QED BY <2>1, <2>2 DEF Inv
<1>7. CASE RefreshNameLsa
  <2>1. LsaInv'
    BY <1>0, <1>7 DEF RefreshNameLsa, LsaInv, IsParameters
  <2>2. FileInv' /\ SavedInv'
    BY <1>7, <1>f DEF RefreshNameLsa
  <2>3. ClientInv'
    BY <1>0, <1>7 DEF RefreshNameLsa, ClientInv
  <2> QED BY <2>1, <2>2, <2>3 DEF Inv
<1>8. ASSUME NEW m \in Commands, SendNamePrefixUpdate(m) PROVE Inv'
  <2>1. LsaInv'
    BY <1>0, <1>8 DEF SendNamePrefixUpdate, LsaInv, IsParameters
  <2>2. FileInv' /\ SavedInv'
    BY <1>8, <1>f DEF SendNamePrefixUpdate
  <2>3. ClientInv'
    BY <1>0, <1>8 DEF SendNamePrefixUpdate, ClientInv, Answers
  <2> QED BY <2>1, <2>2, <2>3 DEF Inv
<1>9. ASSUME NEW m \in received, ExecuteCommand(m) PROVE Inv'
  <2>0. m \in Commands /\ m.verb \in {"advertise", "withdraw"}
    BY <1>0 DEF ClientInv, Commands
  <2>1. FileInv' /\ SavedInv'
    BY <1>0, <1>9, <2>0, EditLemma DEF ExecuteCommand
  <2>2. LsaInv'
    BY <1>0, <1>9, <2>0, UpdateListLemma DEF ExecuteCommand, LsaInv
  <2>3. Code(m) \in Answers
    BY DEF Code, Answers
  <2>4. ClientInv'
    BY <1>0, <1>9, <2>3, ReplyLemma DEF ExecuteCommand
  <2> QED BY <2>1, <2>2, <2>4 DEF Inv
<1>10. ASSUME NEW m \in received, CrashWhileSaving(m) PROVE Inv'
  <2>0. m \in Commands /\ m.verb \in {"advertise", "withdraw"}
    BY <1>0 DEF ClientInv, Commands
  <2>1. dynamic' = << >> /\ saved' = {} /\ static' = static
    BY <1>10 DEF CrashWhileSaving
  <2>2. FileInv'
    <3>1. IsFile(<< >>)
      BY DEF IsFile, IsSequence
    <3> QED BY <1>0, <2>1, <3>1 DEF FileInv
  <2>3. SavedInv'
    BY <2>1 DEF SavedInv
  <2>4. LsaInv'
    BY <1>0, <1>10, <2>0, UpdateListLemma DEF CrashWhileSaving, LsaInv
  <2>5. ClientInv'
    BY <1>0, <1>10 DEF CrashWhileSaving, ClientInv
  <2> QED BY <2>2, <2>3, <2>4, <2>5 DEF Inv
<1>11. ASSUME NEW m \in received, RejectCommand(m) PROVE Inv'
  <2>1. LsaInv'
    BY <1>0, <1>11 DEF RejectCommand, LsaInv, IsParameters
  <2>2. FileInv' /\ SavedInv'
    BY <1>11, <1>f DEF RejectCommand
  <2>3. "403" \in Answers
    BY DEF Answers
  <2>4. ClientInv'
    BY <1>0, <1>11, <2>3, ReplyLemma DEF RejectCommand
  <2> QED BY <2>1, <2>2, <2>4 DEF Inv
<1>12. ASSUME NEW verb \in {"advertise", "withdraw"}, NEW n \in Names, RibCommand(verb, n)
       PROVE  Inv'
  <2>1. LsaInv'
    BY <1>0, <1>12, UpdateListLemma DEF RibCommand, LsaInv
  <2>2. FileInv' /\ SavedInv'
    BY <1>12, <1>f DEF RibCommand
  <2>3. ClientInv'
    BY <1>0, <1>12 DEF RibCommand, ClientInv
  <2> QED BY <2>1, <2>2, <2>3 DEF Inv
<1>13. ASSUME NEW c \in Clients, NEW answer \in Answers, DoneWith(c, answer) PROVE Inv'
  <2>1. LsaInv'
    BY <1>0, <1>13 DEF DoneWith, LsaInv, IsParameters
  <2>2. FileInv' /\ SavedInv'
    BY <1>13, <1>f DEF DoneWith
  <2>3. ClientInv'
    BY <1>0, <1>13 DEF DoneWith, ClientInv, Commands
  <2> QED BY <2>1, <2>2, <2>3 DEF Inv
<1>14. ASSUME NEW c \in Clients, OnTimeout(c) \/ OnNackData(c) PROVE Inv'
  BY <1>13, <1>14 DEF OnTimeout, OnNackData, Answers
<1>15. CASE UNCHANGED vars
  <2>1. LsaInv' /\ ClientInv'
    BY <1>0, <1>15 DEF vars, LsaInv, IsParameters, ClientInv
  <2>2. FileInv' /\ SavedInv'
    BY <1>15, <1>f DEF vars
  <2> QED BY <2>1, <2>2 DEF Inv
<1> QED
  BY <1>1, <1>2, <1>3, <1>4, <1>5, <1>6, <1>7, <1>8, <1>9, <1>10, <1>11, <1>12, <1>14, <1>15
  DEF Next

-----------------------------------------------------------------------------
(* A command that is answered with an exit of 0 is done: in the LSA, and   *)
(* in the file where the answer says anything about it.                    *)
LEMMA AnswerLemma ==
    ASSUME Inv, NEW m \in received, ExecuteCommand(m), ExitCode(Code(m)) = "zero"
    PROVE  InLsa(m) /\ (m.flag => InFile(m) \/ SaysNothing(m))
<1>0. FileInv /\ LsaInv /\ phase = "running" /\ m.verb \in {"advertise", "withdraw"}
  BY DEF Inv, ClientInv, Commands, ExecuteCommand
<1>1. InLsa(m)
  BY <1>0, UpdateListLemma DEF ExecuteCommand, InLsa
<1>2. ASSUME m.flag PROVE InFile(m) \/ SaysNothing(m)
  <2>1. EditSucceeds(m.verb, m.name) /\ Code(m) = "205"
    BY <1>2 DEF Code, ExitCode
  <2>2. dynamic' = Edited(m.verb, m.name)
    BY <2>1 DEF ExecuteCommand
  <2>3. CASE m.verb = "advertise"
    <3>1. writable
      <4>1. CheckForPrefixInFile(m.name) = FALSE
        BY <2>1, <2>3 DEF EditSucceeds
      <4> QED BY <4>1, Zenon DEF CheckForPrefixInFile
    <3>2. dynamic' = WithPrefix(m.name)
      BY <2>2, <2>3, <3>1 DEF Edited
    <3>3. CanSave(dynamic) => m.name \in NamesIn(dynamic')
      BY <1>0, <3>2, EditsKeepNames DEF FileInv
    <3> QED BY <2>3, <3>3 DEF InFile, SaysNothing
  <2>4. CASE m.verb = "withdraw" /\ writable
    <3>1. dynamic' = WithoutPrefix(m.name)
      BY <2>2, <2>4 DEF Edited
    <3>2. m.name \in NamesIn(dynamic') =>
             \E i \in Advertisings(dynamic) : \E l \in Written(dynamic[i]) :
                l.name = m.name /\ l.layout = "commented"
      BY <1>0, <3>1, EditsKeepNames DEF FileInv
    <3> QED BY <2>4, <3>2 DEF InFile, SaysNothing
  <2>5. CASE m.verb = "withdraw" /\ ~writable
    BY <2>5 DEF SaysNothing
  <2> QED BY <1>0, <2>3, <2>4, <2>5
<1> QED BY <1>1, <1>2

(* The wait of a run of nlsrc ends with an answer to its command, with     *)
(* Data of the content type Nack, or with neither.                         *)
LEMMA ExitLemma ==
    ASSUME Inv, [Next]_vars, NEW c \in Clients,
           client[c].waiting, ~client'[c].waiting, ExitCode(client'[c].answer) = "zero"
    PROVE  \/ client'[c].answer = "nack"
           \/ \E m \in received :
                 m.client = c /\ InLsa(m) /\ (m.flag => InFile(m) \/ SaysNothing(m))
<1>0. client \in [Clients -> [waiting : BOOLEAN, answer : Answers]]
  BY DEF Inv, ClientInv
<1>1. client'[c] # client[c]
  OBVIOUS
<1>2. ASSUME NEW m \in received, NEW answer, Reply(m, answer)
      PROVE  m.client = c /\ client'[c].answer = answer
  BY <1>0, <1>1, <1>2 DEF Reply
<1>3. ASSUME NEW m \in received, ExecuteCommand(m)
      PROVE  m.client = c /\ InLsa(m) /\ (m.flag => InFile(m) \/ SaysNothing(m))
  <2>1. m.client = c /\ client'[c].answer = Code(m)
    BY <1>2, <1>3 DEF ExecuteCommand
  <2> QED BY <1>3, <2>1, AnswerLemma
<1>4. ASSUME NEW m \in received, RejectCommand(m) PROVE FALSE
  <2>1. client'[c].answer = "403"
    BY <1>2, <1>4 DEF RejectCommand
  <2> QED BY <2>1 DEF ExitCode
<1>5. ASSUME NEW d \in Clients, NEW answer, DoneWith(d, answer)
      PROVE  client'[c].answer = answer
  BY <1>0, <1>1, <1>5 DEF DoneWith
<1>6. ASSUME NEW d \in Clients, OnTimeout(d) PROVE FALSE
  <2>1. client'[c].answer = "neither"
    BY <1>5, <1>6 DEF OnTimeout
  <2> QED BY <2>1 DEF ExitCode
<1>7. ASSUME NEW d \in Clients, OnNackData(d) PROVE client'[c].answer = "nack"
  BY <1>5, <1>7 DEF OnNackData
<1>8. ASSUME NEW o \in Commands, SendNamePrefixUpdate(o) PROVE FALSE
  BY <1>0, <1>8 DEF SendNamePrefixUpdate
<1>9. ASSUME \/ Start \/ ReadSection \/ Accept \/ Stop \/ CopyDynamic \/ ChangeAccess
             \/ RefreshNameLsa \/ UNCHANGED vars
             \/ \E o \in received : CrashWhileSaving(o)
             \/ \E verb \in {"advertise", "withdraw"}, n \in Names : RibCommand(verb, n)
      PROVE  FALSE
  <2>1. client' = client
    BY <1>9 DEF Start, ReadSection, Accept, Stop, CopyDynamic, ChangeAccess, RefreshNameLsa,
                CrashWhileSaving, RibCommand, vars
  <2> QED BY <1>1, <2>1
<1> QED BY <1>3, <1>4, <1>6, <1>7, <1>8, <1>9 DEF Next

-----------------------------------------------------------------------------
(* The invariant holds in every reachable state. *)
THEOREM PrefixInvariant == Spec => []Inv
<1>1. Init => Inv
  BY InitInv
<1>2. Inv /\ [Next]_vars => Inv'
  BY NextInv
<1> QED BY <1>1, <1>2, PTL DEF Spec

(* While nlsrd runs, its Name LSA lists what its name prefix list does,    *)
(* however insertions, withdrawals by nlsrc and by NFD, refreshes and      *)
(* restarts alternate (updateSeqNo, expireOrRefreshLsa, installLsa).       *)
THEOREM NameLsaFollows == Spec => []NameLsaFollowsList
<1>1. Inv => NameLsaFollowsList
  BY DEF Inv, LsaInv, NameLsaFollowsList
<1> QED BY <1>1, PrefixInvariant, PTL

(* No save or delete of another name loses a name that was saved           *)
(* (addOrDeletePrefix).                                                    *)
THEOREM SavedNamesSurvive == Spec => []SavedSurvives
<1>1. Inv => SavedSurvives
  BY ReadIsWritten DEF Inv, SavedInv, SavedSurvives
<1> QED BY <1>1, PrefixInvariant, PTL

(* When nlsrc exits with 0, what it asked for is so, however commands      *)
(* overtake each other, time out or are lost - except that nothing is said *)
(* after Data of the content type Nack, nor of the file when a save finds  *)
(* no section to write to, or a delete may not write or leaves a line that *)
(* carries a comment (onControlResponse, addOrDeletePrefix).               *)
THEOREM ExitIsDone == Spec => ExitMeansDone
<1>1. Inv /\ [Next]_vars =>
        [\A c \in Clients :
            client[c].waiting /\ ~client'[c].waiting /\ ExitCode(client'[c].answer) = "zero" =>
               \/ client'[c].answer = "nack"
               \/ \E m \in received :
                     m.client = c /\ InLsa(m) /\ (m.flag => InFile(m) \/ SaysNothing(m))]_vars
  BY ExitLemma
<1> QED BY <1>1, PrefixInvariant, PTL DEF Spec, ExitMeansDone
-----------------------------------------------------------------------------
(* One section more. *)
LEMMA BeforeStep ==
    ASSUME NEW f, NEW n \in Nat \ {0}, NEW kind
    PROVE  /\ f[n].kind = kind => Before(f, n + 1, kind) = Before(f, n, kind) \cup {n}
           /\ f[n].kind # kind => Before(f, n + 1, kind) = Before(f, n, kind)
<1>1. 1..((n + 1) - 1) = 1..(n - 1) \cup {n}
  OBVIOUS
<1> QED BY <1>1, Zenon DEF Before

LEMMA NoneBefore == ASSUME NEW f, NEW kind PROVE Before(f, 1, kind) = {}
  BY DEF Before

(* The numeric parameters as every section leaves them. *)
UsableNum(num) ==
    /\ num = [k \in DOMAIN Defaults |-> num[k]]
    /\ num.routerDeadInterval > num.lsaRefreshTime
    /\ \A k \in DOMAIN Limits \ {"faceDatasetFetchTries"} : num[k] \in Limits[k]
    /\ \A k \in StrictKeys : num[k] >= 0

TriesSet(c, n) ==
    \/ c.num.faceDatasetFetchTries \in Limits.faceDatasetFetchTries
    \/ Before(static, n, "neighbors") = {}

ReadInv ==
    phase # "stopped" =>
       /\ UsableNum(conf.num)
       /\ next \in Nat \ {0}
       /\ TriesSet(conf, next)
       /\ phase = "running" => next > Len(static)

LEMMA KeyLemma ==
    /\ DOMAIN Limits \subseteq DOMAIN Defaults
    /\ GeneralKeys \cup NeighborKeys \cup FibKeys = DOMAIN Limits
    /\ StrictKeys \subseteq DOMAIN Defaults /\ StrictKeys \cap DOMAIN Limits = {}
    /\ "routerDeadInterval" \in DOMAIN Defaults \ (DOMAIN Limits \cup StrictKeys)
    /\ "lsaRefreshTime" \in GeneralKeys /\ "faceDatasetFetchTries" \in NeighborKeys
    /\ GeneralKeys \cap NeighborKeys = {} /\ GeneralKeys \cap FibKeys = {}
    /\ NeighborKeys \cap FibKeys = {} /\ StrictKeys \subseteq SignedKeys
  BY DEF Limits, Defaults, GeneralKeys, NeighborKeys, FibKeys, StrictKeys, SignedKeys

(* The constructor's values. *)
LEMMA InitialNum ==
    ASSUME NEW t PROVE UsableNum(InitialConf(t).num)
<1>1. InitialConf(t).num = [Defaults EXCEPT !.faceDatasetFetchTries = t]
  BY DEF InitialConf
<1>2. \A k \in DOMAIN Limits \ {"faceDatasetFetchTries"} : Defaults[k] \in Limits[k]
  <2>1. /\ Defaults.lsaRefreshTime \in Limits.lsaRefreshTime
        /\ Defaults.lsaInterestLifetime \in Limits.lsaInterestLifetime
        /\ Defaults.syncInterestLifetime \in Limits.syncInterestLifetime
    BY SMT DEF Limits, Defaults
  <2>2. /\ Defaults.helloRetries \in Limits.helloRetries
        /\ Defaults.helloTimeout \in Limits.helloTimeout
        /\ Defaults.helloInterval \in Limits.helloInterval
        /\ Defaults.adjLsaBuildInterval \in Limits.adjLsaBuildInterval
        /\ Defaults.faceDatasetFetchInterval \in Limits.faceDatasetFetchInterval
    BY SMT DEF Limits, Defaults
  <2>3. /\ Defaults.maxFacesPerPrefix \in Limits.maxFacesPerPrefix
        /\ Defaults.routingCalcInterval \in Limits.routingCalcInterval
    BY SMT DEF Limits, Defaults
  <2>4. \A k \in GeneralKeys : Defaults[k] \in Limits[k]
    BY <2>1 DEF GeneralKeys
  <2>5. \A k \in NeighborKeys \ {"faceDatasetFetchTries"} : Defaults[k] \in Limits[k]
    BY <2>2 DEF NeighborKeys
  <2>6. \A k \in FibKeys : Defaults[k] \in Limits[k]
    BY <2>3 DEF FibKeys
  <2> QED BY <2>4, <2>5, <2>6, KeyLemma
<1>3. /\ Defaults.routerDeadInterval > Defaults.lsaRefreshTime
      /\ \A k \in StrictKeys : Defaults[k] >= 0
      /\ Defaults = [k \in DOMAIN Defaults |-> Defaults[k]]
  BY DEF Defaults, StrictKeys
<1>4. "faceDatasetFetchTries" \notin StrictKeys \cup {"routerDeadInterval", "lsaRefreshTime"}
  BY DEF StrictKeys
<1> QED BY <1>1, <1>2, <1>3, <1>4, KeyLemma DEF UsableNum

LEMMA GeneralNum ==
    ASSUME NEW num, UsableNum(num), NEW s, GeneralOK(s)
    PROVE  LET new == Put(Settings(s, GeneralKeys), [num EXCEPT !.routerDeadInterval = DeadInterval(s)])
           IN  UsableNum(new) /\ new.faceDatasetFetchTries = num.faceDatasetFetchTries
<1> DEFINE new == Put(Settings(s, GeneralKeys), [num EXCEPT !.routerDeadInterval = DeadInterval(s)])
           set == Settings(s, GeneralKeys)
<1>1. DOMAIN set = GeneralKeys /\ (\A k \in GeneralKeys : set[k] \in Limits[k])
      /\ DeadInterval(s) > set.lsaRefreshTime
  BY DEF GeneralOK, AllInLimits, DeadIntervalOK, Settings
<1> HIDE DEF set
<1>2. DOMAIN num = DOMAIN Defaults
  BY DEF UsableNum
<1>3. new = [k \in DOMAIN Defaults |-> IF k \in GeneralKeys THEN set[k]
                                      ELSE IF k = "routerDeadInterval" THEN DeadInterval(s)
                                      ELSE num[k]]
  BY <1>1, <1>2, KeyLemma DEF Put, set
<1> HIDE DEF new
<1> QED BY <1>1, <1>3, KeyLemma DEF UsableNum, new

LEMMA NeighborsNum ==
    ASSUME NEW num, UsableNum(num), NEW s, NeighborsOK(s)
    PROVE  LET new == Put(Settings(s, NeighborKeys \cup StrictKeys), num)
           IN  UsableNum(new) /\ new.faceDatasetFetchTries \in Limits.faceDatasetFetchTries
<1> DEFINE new == Put(Settings(s, NeighborKeys \cup StrictKeys), num)
           set == Settings(s, NeighborKeys \cup StrictKeys)
<1>1. /\ DOMAIN set = NeighborKeys \cup StrictKeys
      /\ \A k \in NeighborKeys : set[k] \in Limits[k]
  BY DEF NeighborsOK, AllInLimits, Settings
<1>2. \A k \in StrictKeys : Defaults[k] >= 0
  BY DEF Defaults, StrictKeys
<1>3. \A k \in StrictKeys : set[k] >= 0
  BY <1>2, KeyLemma DEF NeighborsOK, StrictOK, Settings, Setting
<1> HIDE DEF set
<1>4. new = [k \in DOMAIN Defaults |-> IF k \in NeighborKeys \cup StrictKeys THEN set[k] ELSE num[k]]
  BY <1>1 DEF Put, set, UsableNum
<1> HIDE DEF new
<1> QED BY <1>1, <1>3, <1>4, KeyLemma DEF UsableNum, new

LEMMA FibNum ==
    ASSUME NEW num, UsableNum(num), NEW s, FibOK(s)
    PROVE  LET new == Put(Settings(s, FibKeys), num)
           IN  UsableNum(new) /\ new.faceDatasetFetchTries = num.faceDatasetFetchTries
<1> DEFINE new == Put(Settings(s, FibKeys), num)
           set == Settings(s, FibKeys)
<1>1. DOMAIN set = FibKeys /\ \A k \in FibKeys : set[k] \in Limits[k]
  BY DEF FibOK, AllInLimits, Settings
<1> HIDE DEF set
<1>2. new = [k \in DOMAIN Defaults |-> IF k \in FibKeys THEN set[k] ELSE num[k]]
  BY <1>1 DEF Put, set, UsableNum
<1> HIDE DEF new
<1> QED BY <1>1, <1>2, KeyLemma DEF UsableNum, new
(* A section that is accepted leaves usable numbers. *)
LEMMA SectionNum ==
    ASSUME LsaInv, ReadInv, ProcessSection PROVE ReadInv'
<1>0. /\ phase = "reading" /\ next \in Nat \ {0} /\ UsableNum(conf.num) /\ IsParameters(conf)
      /\ TriesSet(conf, next)
  BY DEF ReadInv, LsaInv, ProcessSection, ProcessConfSectionGeneral, ProcessConfSectionNeighbors,
         ProcessConfSectionHyperbolic, ProcessConfSectionFib, ProcessConfSectionAdvertising,
         ProcessConfSectionSecurity, UnknownSection, Reading
<1> SUFFICES ASSUME phase' # "stopped" PROVE ReadInv'
  BY DEF ReadInv
<1>1. /\ phase' = "reading" /\ next' = next + 1 /\ static' = static
  BY <1>0 DEF ProcessSection, ProcessConfSectionGeneral, ProcessConfSectionNeighbors,
         ProcessConfSectionHyperbolic, ProcessConfSectionFib, ProcessConfSectionAdvertising,
         ProcessConfSectionSecurity, UnknownSection, Continue
<1>2. CASE conf'.num.faceDatasetFetchTries \in Limits.faceDatasetFetchTries /\ UsableNum(conf'.num)
  BY <1>0, <1>1, <1>2 DEF ReadInv, TriesSet
<1>3. ASSUME static[next].kind # "neighbors", UsableNum(conf'.num),
             conf'.num.faceDatasetFetchTries = conf.num.faceDatasetFetchTries
      PROVE  ReadInv'
  <2>1. Before(static, next + 1, "neighbors") = Before(static, next, "neighbors")
    BY <1>0, <1>3, BeforeStep
  <2>2. \/ conf'.num.faceDatasetFetchTries \in Limits.faceDatasetFetchTries
        \/ Before(static', next', "neighbors") = {}
    BY <1>0, <1>1, <1>3, <2>1 DEF TriesSet
  <2> QED BY <1>0, <1>1, <1>3, <2>2 DEF ReadInv, TriesSet
<1>4. CASE ProcessConfSectionGeneral
  <2>1. /\ static[next].kind = "general" /\ GeneralOK(static[next])
        /\ conf' = ReadGeneral(static[next])
    BY <1>4 DEF ProcessConfSectionGeneral, Continue, Reading, StateDirOK, CopyOK
  <2>2. conf'.num = Put(Settings(static[next], GeneralKeys),
                        [conf.num EXCEPT !.routerDeadInterval = DeadInterval(static[next])])
    BY <1>0, <2>1 DEF ReadGeneral, IsParameters
  <2> QED BY <1>0, <1>3, <2>1, <2>2, GeneralNum
<1>5. CASE ProcessConfSectionNeighbors
  <2>1. NeighborsOK(static[next]) /\ conf' = ReadNeighbors(static[next])
    BY <1>5 DEF ProcessConfSectionNeighbors, Continue
  <2>2. conf'.num = Put(Settings(static[next], NeighborKeys \cup StrictKeys), conf.num)
    BY <1>0, <2>1 DEF ReadNeighbors, IsParameters
  <2> QED BY <1>0, <1>2, <2>1, <2>2, NeighborsNum
<1>6. CASE ProcessConfSectionFib
  <2>1. /\ static[next].kind = "fib" /\ FibOK(static[next])
        /\ conf' = ReadFib(static[next])
    BY <1>6 DEF ProcessConfSectionFib, Continue, Reading
  <2>2. conf'.num = Put(Settings(static[next], FibKeys), conf.num)
    BY <1>0, <2>1 DEF ReadFib, IsParameters
  <2> QED BY <1>0, <1>3, <2>1, <2>2, FibNum
<1>7. ASSUME static[next].kind # "neighbors", conf'.num = conf.num PROVE ReadInv'
  BY <1>0, <1>3, <1>7
<1>8. CASE ProcessConfSectionHyperbolic
  BY <1>0, <1>7, <1>8 DEF ProcessConfSectionHyperbolic, Continue, Reading, ReadHyperbolic, IsParameters
<1>9. CASE ProcessConfSectionAdvertising
  BY <1>0, <1>7, <1>9 DEF ProcessConfSectionAdvertising, Continue, Reading, ReadAdvertising, IsParameters
<1>10. CASE ProcessConfSectionSecurity
  BY <1>0, <1>7, <1>10 DEF ProcessConfSectionSecurity, Continue, Reading, ReadSecurity, IsParameters
<1>11. CASE UnknownSection
  BY <1>7, <1>11 DEF UnknownSection, Continue, Reading
<1> QED BY <1>4, <1>5, <1>6, <1>8, <1>9, <1>10, <1>11 DEF ProcessSection

LEMMA NextReadInv == ASSUME Inv, ReadInv, [Next]_vars PROVE ReadInv'
<1>0. FileInv /\ LsaInv
  BY DEF Inv
<1> USE DEF confVars
<1>1. CASE Start
  <2>1. PICK t : conf' = InitialConf(t)
    BY <1>1 DEF Start, ProcessConfFile
  <2>2. next' = 1 /\ phase' # "running" /\ static' = static
    BY <1>1 DEF Start, ProcessConfFile
  <2>3. UsableNum(conf'.num)
    BY <2>1, InitialNum
  <2>4. Before(static', next', "neighbors") = {}
    BY <2>2, NoneBefore
  <2> QED BY <2>2, <2>3, <2>4 DEF ReadInv, TriesSet
<1>2. CASE ReadSection
  BY <1>0, <1>2, SectionNum DEF ReadSection
<1>3. CASE Accept
  BY <1>3 DEF Accept, ReadTo, ReadInv, TriesSet
<1>4. ASSUME Stop \/ CopyDynamic \/ \E m \in received : CrashWhileSaving(m) PROVE ReadInv'
  BY <1>4 DEF Stop, CopyDynamic, CrashWhileSaving, ReadInv
<1>5. ASSUME conf'.num = conf.num, UNCHANGED <<phase, next, static>> PROVE ReadInv'
  BY <1>5 DEF ReadInv, TriesSet
<1>6. ASSUME NEW verb, NEW n, UpdateList(verb, n) PROVE conf'.num = conf.num
  BY <1>0, <1>6 DEF UpdateList, LsaInv, IsParameters
<1>7. ASSUME NEW m \in received, ExecuteCommand(m) PROVE ReadInv'
  BY <1>5, <1>6, <1>7 DEF ExecuteCommand
<1>8. ASSUME NEW verb, NEW n, RibCommand(verb, n) PROVE ReadInv'
  BY <1>5, <1>6, <1>8 DEF RibCommand
<1>9. ASSUME \/ ChangeAccess \/ RefreshNameLsa \/ UNCHANGED vars
             \/ \E m \in Commands : SendNamePrefixUpdate(m)
             \/ \E m \in received : RejectCommand(m)
             \/ \E c \in Clients : OnTimeout(c) \/ OnNackData(c)
      PROVE  ReadInv'
  BY <1>5, <1>9 DEF ChangeAccess, RefreshNameLsa, SendNamePrefixUpdate, RejectCommand, OnTimeout,
              OnNackData, DoneWith, vars
<1> QED BY <1>1, <1>2, <1>3, <1>4, <1>7, <1>8, <1>9 DEF Next

(* Whatever file nlsrd accepts, whatever texts in it wrap around or cannot *)
(* be read and however its sections repeat: LSAs outlive their refresh,    *)
(* Hello Interests end before the next is due, and every ranged setting is *)
(* in its range (the six processConfSection functions).                    *)
THEOREM AcceptedFileIsUsable == Spec => []AcceptedIsUsable
<1>1. Init => ReadInv
  BY DEF Init, InitConf, ReadInv
<1>2. Inv /\ ReadInv /\ [Next]_vars => ReadInv'
  BY NextReadInv
<1>3. FileInv /\ ReadInv => AcceptedIsUsable
  <2> SUFFICES ASSUME FileInv, ReadInv, ReadTo(Len(static)) \/ phase = "running"
               PROVE  /\ conf.num.routerDeadInterval > conf.num.lsaRefreshTime
                      /\ conf.num.helloTimeout < conf.num.helloInterval
                      /\ \A k \in DOMAIN Limits :
                            \/ conf.num[k] \in Limits[k]
                            \/ k = "faceDatasetFetchTries" /\ Before(static, next, "neighbors") = {}
                      /\ \A k \in StrictKeys : conf.num[k] >= 0
    BY DEF AcceptedIsUsable
  <2>1. UsableNum(conf.num) /\ TriesSet(conf, next) /\ next \in Nat \ {0} /\ next > Len(static)
    BY DEF ReadInv, ReadTo
  <2>5. conf.num.helloTimeout \in 1..15 /\ conf.num.helloInterval \in 30..90
    <3>1. /\ Limits.helloTimeout = 1..15 /\ Limits.helloInterval = 30..90
          /\ {"helloTimeout", "helloInterval"} \subseteq DOMAIN Limits \ {"faceDatasetFetchTries"}
      BY DEF Limits
    <3>2. \A k \in DOMAIN Limits \ {"faceDatasetFetchTries"} : conf.num[k] \in Limits[k]
      BY <2>1 DEF UsableNum
    <3> QED BY <3>1, <3>2
  <2>6. conf.num.helloTimeout < conf.num.helloInterval
    <3>1. \A a \in 1..15, b \in 30..90 : a < b
      OBVIOUS
    <3> QED BY <2>5, <3>1, Zenon
  <2>7. \A k \in DOMAIN Limits : \/ conf.num[k] \in Limits[k]
                                 \/ /\ k = "faceDatasetFetchTries"
                                    /\ Before(static, next, "neighbors") = {}
    BY <2>1 DEF UsableNum, TriesSet
  <2> QED BY <2>1, <2>6, <2>7 DEF UsableNum
<1>4. Inv => FileInv
  BY DEF Inv
<1> QED BY <1>1, <1>2, <1>3, <1>4, PrefixInvariant, PTL DEF Spec
-----------------------------------------------------------------------------
(* ReadAsWritten is inductive with the fields of the parameters and with   *)
(* the names of all entries read, which the neighbours have then.          *)
HasFields(c) ==
    /\ c = [g \in DOMAIN c |-> c[g]]
    /\ {"num", "on", "sync", "id", "syncPrefix", "lsaPrefix", "stateDir", "nbrs", "names",
        "hyperbolic", "radius", "angles", "updateValidator", "certs"} \subseteq DOMAIN c

IsNameOf(name, nbrs) == \E m \in nbrs : m.name = name

NamesKept(f, n, c) ==
    \A i \in Before(f, n, "neighbors") : \A j \in DOMAIN f[i].nbrs :
        f[i].nbrs[j].name # NoName => IsNameOf(f[i].nbrs[j].name, c.nbrs)

WrittenInv ==
    phase = "reading" =>
       /\ next \in 1..(Len(static) + 1)
       /\ HasFields(conf)
       /\ AsWritten(static, next, conf)
       /\ NamesKept(static, next, conf)

(* A set of natural numbers that is not empty has a least one. *)
LEMMA LeastOf ==
    ASSUME NEW S, S \subseteq Nat, S # {}
    PROVE  \E x \in S : \A y \in S : x <= y
<1> DEFINE R == OpToRel(<, Nat)
<1>1. IsWellFoundedOn(R, Nat)
  BY NatLessThanWellFounded, Zenon
<1>2. \A x, y \in Nat : ~(<<y, x>> \in R) => x <= y
  BY DEF R, OpToRel
<1> HIDE DEF R
<1>3. PICK x \in S : \A y \in S : ~(<<y, x>> \in R)
  BY <1>1, WFMin
<1> QED BY <1>2, <1>3

(* The section read last is the last of its kind. *)
LEMMA LastIsNew ==
    ASSUME NEW n \in Nat \ {0}, NEW S, S \subseteq 1..(n - 1)
    PROVE  LastOf(S \cup {n}) = {n}
<1>1. \A j \in S : j \in Int /\ j < n
  OBVIOUS
<1>2. n \in LastOf(S \cup {n})
  BY <1>1 DEF LastOf
<1>3. \A i \in LastOf(S \cup {n}) : i = n
  BY <1>1 DEF LastOf
<1> QED BY <1>2, <1>3

LEMMA LastBefore ==
    ASSUME NEW f, NEW n \in Nat \ {0}, NEW kind, f[n].kind = kind
    PROVE  LastOf(Before(f, n + 1, kind)) = {n}
<1>1. Before(f, n + 1, kind) = Before(f, n, kind) \cup {n}
  BY BeforeStep
<1>2. Before(f, n, kind) \subseteq 1..(n - 1)
  BY DEF Before
<1> QED BY <1>1, <1>2, LastIsNew

-----------------------------------------------------------------------------
(* Numbers. *)
HasNumbers(s) == \A k \in DOMAIN s.num : s.num[k] = Bad \/ s.num[k] \in Int

LEMMA NumberStays ==
    ASSUME NEW f, NEW n \in Nat \ {0}, NEW c, NEW d, NEW kind, NEW k, NEW def,
           f[n].kind # kind, d.num[k] = c.num[k], NumberSaid(f, n, c, kind, k, def)
    PROVE  NumberSaid(f, n + 1, d, kind, k, def)
<1>1. Before(f, n + 1, kind) = Before(f, n, kind)
  BY BeforeStep
<1>2. Texts(f, n + 1, kind, k) = Texts(f, n, kind, k)
  BY <1>1, Zenon DEF Texts
<1> QED BY <1>2 DEF NumberSaid

LEMMA NumberSet ==
    ASSUME NEW f, NEW n \in Nat \ {0}, NEW d, NEW kind, NEW k, NEW def,
           f[n].kind = kind, HasNumbers(f[n]), d.num[k] = Setting(f[n], k, def)
    PROVE  NumberSaid(f, n + 1, d, kind, k, def)
<1> DEFINE s == f[n]
           T == Texts(f, n + 1, kind, k)
<1>1. LastOf(Before(f, n + 1, kind)) = {n}
  BY LastBefore
<1>2. T = {f[i].num[k] : i \in {i \in {n} : k \in DOMAIN f[i].num}} \ {Bad}
  BY <1>1, Zenon DEF Texts
<1>3. CASE k \notin DOMAIN s.num \/ s.num[k] = Bad
  <2>1. T = {}
    BY <1>2, <1>3
  <2> QED BY <1>3, <2>1 DEF NumberSaid, Setting
<1>4. CASE k \in DOMAIN s.num /\ s.num[k] # Bad
  <2>1. T = {s.num[k]}
    BY <1>2, <1>4
  <2>2. s.num[k] \in Int
    BY <1>4 DEF HasNumbers
  <2>3. d.num[k] = IF s.num[k] < 0 /\ k \notin SignedKeys THEN s.num[k] + UIntModulus ELSE s.num[k]
    BY <1>4 DEF Setting
  <2>4. UIntModulus \in Int
    BY ModulusAssumption
  <2> HIDE DEF s, T
  <2>5. IF s.num[k] >= 0 \/ k \in SignedKeys THEN d.num[k] = s.num[k]
        ELSE d.num[k] - s.num[k] = UIntModulus
    BY <2>2, <2>3, <2>4
  <2> QED BY <2>1, <2>5 DEF NumberSaid, T
<1> QED BY <1>3, <1>4

(* The settings of a kind change with a section of that kind and no other. *)
NumbersOf(c, s, keys) == \A k \in keys : c.num[k] = Setting(s, k, Defaults[k])

SameNumbers(c, d, keys) == \A k \in keys : d.num[k] = c.num[k]

LEMMA NumbersStep ==
    ASSUME NEW f, NEW n \in Nat \ {0}, IsSection(f[n]), NEW c, NEW d, NumbersSaid(f, n, c),
           IF f[n].kind = "general"
           THEN /\ NumbersOf(d, f[n], GeneralKeys)
                /\ d.num.routerDeadInterval = Setting(f[n], "routerDeadInterval", 2 * d.num.lsaRefreshTime)
           ELSE SameNumbers(c, d, GeneralKeys \cup {"routerDeadInterval"}),
           IF f[n].kind = "neighbors" THEN NumbersOf(d, f[n], NeighborKeys \cup StrictKeys)
           ELSE SameNumbers(c, d, NeighborKeys \cup StrictKeys),
           IF f[n].kind = "fib" THEN NumbersOf(d, f[n], FibKeys) ELSE SameNumbers(c, d, FibKeys)
    PROVE  NumbersSaid(f, n + 1, d)
<1>0. f[n].kind \in {"general", "neighbors", "fib"} => HasNumbers(f[n])
  BY DEF IsSection, HasNumbers
<1>1. ASSUME NEW k \in GeneralKeys PROVE NumberSaid(f, n + 1, d, "general", k, Defaults[k])
  <2>1. CASE f[n].kind = "general"
    BY <1>0, <1>1, <2>1, NumberSet DEF NumbersOf
  <2>2. CASE f[n].kind # "general"
    <3>1. NumberSaid(f, n, c, "general", k, Defaults[k]) /\ d.num[k] = c.num[k]
      BY <1>1, <2>2 DEF NumbersSaid, SameNumbers
    <3> QED BY <2>2, <3>1, NumberStays
  <2> QED BY <2>1, <2>2
<1>2. NumberSaid(f, n + 1, d, "general", "routerDeadInterval", 2 * d.num.lsaRefreshTime)
  <2>1. CASE f[n].kind = "general"
    BY <1>0, <2>1, NumberSet
  <2>2. CASE f[n].kind # "general"
    <3>1. /\ NumberSaid(f, n, c, "general", "routerDeadInterval", 2 * c.num.lsaRefreshTime)
          /\ d.num["routerDeadInterval"] = c.num["routerDeadInterval"]
          /\ d.num.lsaRefreshTime = c.num.lsaRefreshTime
      BY <2>2, KeyLemma DEF NumbersSaid, SameNumbers
    <3> QED BY <2>2, <3>1, NumberStays
  <2> QED BY <2>1, <2>2
<1>3. ASSUME NEW k \in NeighborKeys \cup StrictKeys
      PROVE  \/ NumberSaid(f, n + 1, d, "neighbors", k, Defaults[k])
             \/ k = "faceDatasetFetchTries" /\ Before(f, n + 1, "neighbors") = {}
  <2>1. CASE f[n].kind = "neighbors"
    BY <1>0, <1>3, <2>1, NumberSet DEF NumbersOf
  <2>2. CASE f[n].kind # "neighbors"
    <3>1. d.num[k] = c.num[k]
      BY <1>3, <2>2 DEF SameNumbers
    <3>2. CASE NumberSaid(f, n, c, "neighbors", k, Defaults[k])
      BY <2>2, <3>1, <3>2, NumberStays
    <3>3. CASE k = "faceDatasetFetchTries" /\ Before(f, n, "neighbors") = {}
      BY <2>2, <3>3, BeforeStep
    <3> QED BY <1>3, <3>2, <3>3 DEF NumbersSaid
  <2> QED BY <2>1, <2>2
<1>4. ASSUME NEW k \in FibKeys PROVE NumberSaid(f, n + 1, d, "fib", k, Defaults[k])
  <2>1. CASE f[n].kind = "fib"
    BY <1>0, <1>4, <2>1, NumberSet DEF NumbersOf
  <2>2. CASE f[n].kind # "fib"
    <3>1. NumberSaid(f, n, c, "fib", k, Defaults[k]) /\ d.num[k] = c.num[k]
      BY <1>4, <2>2 DEF NumbersSaid, SameNumbers
    <3> QED BY <2>2, <3>1, NumberStays
  <2> QED BY <2>1, <2>2
<1> QED BY <1>1, <1>2, <1>3, <1>4 DEF NumbersSaid

LEMMA SwitchesStep ==
    ASSUME NEW f, NEW n \in Nat \ {0}, NEW c, NEW d, SwitchesSaid(f, n, c),
           IF f[n].kind = "neighbors"
           THEN d.on = [w \in Switches |-> w \in DOMAIN f[n].on /\ f[n].on[w] = "on"]
           ELSE d.on = c.on
    PROVE  SwitchesSaid(f, n + 1, d)
<1>1. CASE f[n].kind = "neighbors"
  <2>1. LastOf(Before(f, n + 1, "neighbors")) = {n}
    BY <1>1, LastBefore
  <2>2. \A w \in Switches : d.on[w] = (w \in DOMAIN f[n].on /\ f[n].on[w] = "on")
    BY <1>1, Zenon
  <2>3. \A w \in Switches :
           (\E i \in {n} : w \in DOMAIN f[i].on /\ f[i].on[w] = "on")
              <=> (w \in DOMAIN f[n].on /\ f[n].on[w] = "on")
    OBVIOUS
  <2>4. SUFFICES ASSUME NEW w \in Switches
                 PROVE  d.on[w] = (\E i \in {n} : w \in DOMAIN f[i].on /\ f[i].on[w] = "on")
    BY <2>1, Zenon DEF SwitchesSaid
  <2> QED BY <2>2, <2>3, <2>4, Zenon
<1>2. CASE f[n].kind # "neighbors"
  <2>1. Before(f, n + 1, "neighbors") = Before(f, n, "neighbors")
    BY <1>2, BeforeStep
  <2> QED BY <1>2, <2>1, Zenon DEF SwitchesSaid
<1> QED BY <1>1, <1>2

-----------------------------------------------------------------------------
(* Network, neighbours, coordinates, names and certificates. *)
SameNetwork(c, d) ==
    /\ d.stateDir = c.stateDir /\ d.sync = c.sync /\ d.id = c.id
    /\ d.lsaPrefix = c.lsaPrefix /\ d.syncPrefix = c.syncPrefix

(* The network as a general section s sets it. *)
NetworkOf(c, d, s) ==
    /\ d.stateDir = TRUE /\ d.sync = s.sync /\ d.id = s.id
    /\ d.lsaPrefix = c.lsaPrefix \o <<"localhop", s.id[1]>>
    /\ d.syncPrefix = c.syncPrefix \o
          (IF s.sync = "svs" THEN <<s.id[1]>> ELSE <<"localhop", s.id[1]>>)

LEMMA NetworkStep ==
    ASSUME NEW f, NEW n \in Nat \ {0}, NEW c, NEW d, NetworkSaid(f, n, c),
           IF f[n].kind = "general" THEN NetworkOf(c, d, f[n]) ELSE SameNetwork(c, d)
    PROVE  NetworkSaid(f, n + 1, d)
<1>1. CASE f[n].kind = "general"
  <2>0. LastOf(Before(f, n + 1, "general")) = {n}
    BY <1>1, LastBefore
  <2>1. /\ Before(f, n + 1, "general") = Before(f, n, "general") \cup {n}
        /\ LastOf(Before(f, n + 1, "general")) = {n}
    BY <1>1, <2>0, BeforeStep
  <2>2. n \notin Before(f, n, "general")
    BY DEF Before
  <2>3. ASSUME NEW i, Before(f, n + 1, "general") = {i}
        PROVE  /\ d.lsaPrefix = <<"localhop", f[i].id[1]>>
               /\ d.syncPrefix = IF f[i].sync = "svs" THEN <<f[i].id[1]>>
                                 ELSE <<"localhop", f[i].id[1]>>
    <3>1. Before(f, n, "general") = {} /\ i = n
      BY <2>1, <2>2, <2>3
    <3>2. c.lsaPrefix = << >> /\ c.syncPrefix = << >>
      BY <3>1 DEF NetworkSaid
    <3>3. \A x, y : << >> \o <<x>> = <<x>> /\ << >> \o <<x, y>> = <<x, y>>
      OBVIOUS
    <3> QED BY <1>1, <3>1, <3>2, <3>3 DEF NetworkOf
  <2>4. /\ d.stateDir = (Before(f, n + 1, "general") # {})
        /\ \A i \in LastOf(Before(f, n + 1, "general")) : d.sync = f[i].sync /\ d.id = f[i].id
    BY <1>1, <2>1 DEF NetworkOf
  <2>5. Before(f, n + 1, "general") # {}
    BY <2>1
  <2> QED BY <2>3, <2>4, <2>5 DEF NetworkSaid
<1>2. CASE f[n].kind # "general"
  <2>1. Before(f, n + 1, "general") = Before(f, n, "general")
    BY <1>2, BeforeStep
  <2> QED BY <1>2, <2>1, Zenon DEF NetworkSaid, SameNetwork
<1> QED BY <1>1, <1>2

(* AdjacencyList::insert takes the first entries of their names.           *)
LEMMA InsertedAreFirst ==
    ASSUME NEW f, NEW n \in Nat \ {0}, f[n].kind = "neighbors", IsSequence(f[n].nbrs),
           NEW nbrs, nbrs = UNION {FirstEntries(f, i) : i \in Before(f, n, "neighbors")},
           \A i \in Before(f, n, "neighbors") : \A j \in DOMAIN f[i].nbrs :
               f[i].nbrs[j].name # NoName => IsNameOf(f[i].nbrs[j].name, nbrs)
    PROVE  Inserted(nbrs, f[n].nbrs) = FirstEntries(f, n)
<1> DEFINE entries == f[n].nbrs
           IsNew(i) == /\ entries[i].name # NoName
                       /\ \A m \in nbrs : m.name # entries[i].name
                       /\ \A j \in 1..(i - 1) : entries[j].name # entries[i].name
<1>1. PICK k \in Nat : DOMAIN entries = 1..k
  BY DEF IsSequence
<1>2. ASSUME NEW j \in DOMAIN entries, IsNew(j) PROVE IsFirstOfName(f, n, j)
  <2> SUFFICES ASSUME NEW h \in 1..n, f[h].kind = "neighbors", NEW l \in DOMAIN f[h].nbrs,
                      h < n \/ l < j, f[h].nbrs[l].name = entries[j].name
               PROVE  FALSE
    BY <1>2 DEF IsFirstOfName
  <2>1. CASE h < n
    <3>1. h \in Before(f, n, "neighbors")
      BY <2>1 DEF Before
    <3>2. IsNameOf(entries[j].name, nbrs)
      BY <1>2, <3>1
    <3> QED BY <1>2, <3>2 DEF IsNameOf
  <2>2. CASE ~(h < n)
    <3>1. h = n /\ l \in 1..(j - 1)
      BY <1>1, <2>2
    <3> QED BY <1>2, <3>1
  <2> QED BY <2>1, <2>2
<1>3. ASSUME NEW j \in DOMAIN entries, IsFirstOfName(f, n, j) PROVE IsNew(j)
  <2>0. /\ entries[j].name # NoName
        /\ \A h \in 1..n : f[h].kind = "neighbors" =>
              \A l \in DOMAIN f[h].nbrs : h < n \/ l < j => f[h].nbrs[l].name # entries[j].name
    BY <1>3 DEF IsFirstOfName
  <2>1. ASSUME NEW m \in nbrs PROVE m.name # entries[j].name
    <3>1. PICK i \in Before(f, n, "neighbors") : m \in FirstEntries(f, i)
      OBVIOUS
    <3>2. PICK l \in DOMAIN f[i].nbrs : m = f[i].nbrs[l]
      BY <3>1 DEF FirstEntries
    <3>3. i \in 1..n /\ i < n /\ f[i].kind = "neighbors"
      BY DEF Before
    <3> QED BY <2>0, <3>2, <3>3
  <2>2. ASSUME NEW l \in 1..(j - 1) PROVE entries[l].name # entries[j].name
    <3>1. l \in DOMAIN entries /\ l < j /\ n \in 1..n
      BY <1>1
    <3> QED BY <2>0, <3>1
  <2> QED BY <2>0, <2>1, <2>2
<1>4. {i \in DOMAIN entries : IsNew(i)} = {j \in DOMAIN entries : IsFirstOfName(f, n, j)}
  BY <1>2, <1>3
<1> QED BY <1>4, Zenon DEF Inserted, FirstEntries

(* Of every name in the entries there is one among the neighbours then.    *)
LEMMA InsertedNames ==
    ASSUME NEW nbrs, NEW entries, IsSequence(entries), NEW j \in DOMAIN entries,
           entries[j].name # NoName
    PROVE  IsNameOf(entries[j].name, nbrs \cup Inserted(nbrs, entries))
<1> DEFINE name == entries[j].name
           S == {i \in DOMAIN entries : entries[i].name = name}
<1> SUFFICES ASSUME ~IsNameOf(name, nbrs) PROVE IsNameOf(name, Inserted(nbrs, entries))
  BY DEF IsNameOf
<1>1. PICK k \in Nat : DOMAIN entries = 1..k
  BY DEF IsSequence
<1>2. PICK x \in S : \A y \in S : x <= y
  <2>1. S \subseteq Nat /\ j \in S
    BY <1>1
  <2> QED BY <2>1, LeastOf
<1>3. x \in 1..k /\ entries[x].name = name
  BY <1>1, <1>2
<1>4. ASSUME NEW i \in 1..(x - 1) PROVE entries[i].name # name
  <2>1. i \in 1..k /\ ~(x <= i)
    BY <1>3
  <2> QED BY <1>1, <1>2, <2>1
<1>5. \A m \in nbrs : m.name # name
  BY DEF IsNameOf
<1>6. entries[x] \in Inserted(nbrs, entries)
  BY <1>1, <1>3, <1>4, <1>5 DEF Inserted
<1> QED BY <1>3, <1>6 DEF IsNameOf

LEMMA NeighborsStep ==
    ASSUME NEW f, NEW n \in Nat \ {0}, IsSection(f[n]), NEW c, NEW d,
           NeighborsSaid(f, n, c), NamesKept(f, n, c),
           d.nbrs = IF f[n].kind = "neighbors" THEN c.nbrs \cup Inserted(c.nbrs, f[n].nbrs)
                    ELSE c.nbrs
    PROVE  NeighborsSaid(f, n + 1, d) /\ NamesKept(f, n + 1, d)
<1> DEFINE B == Before(f, n, "neighbors")
<1>1. CASE f[n].kind = "neighbors"
  <2>0. Before(f, n + 1, "neighbors") = B \cup {n} /\ IsSequence(f[n].nbrs)
    BY <1>1, BeforeStep DEF IsSection
  <2>1. c.nbrs = UNION {FirstEntries(f, i) : i \in B}
    BY DEF NeighborsSaid
  <2>2. Inserted(c.nbrs, f[n].nbrs) = FirstEntries(f, n)
    BY <1>1, <2>0, <2>1, InsertedAreFirst DEF NamesKept
  <2>3. UNION {FirstEntries(f, i) : i \in B \cup {n}} = (UNION {FirstEntries(f, i) : i \in B}) \cup FirstEntries(f, n)
    <3> HIDE DEF B
    <3> QED OBVIOUS
  <2>4. NeighborsSaid(f, n + 1, d)
    BY <1>1, <2>0, <2>1, <2>2, <2>3 DEF NeighborsSaid
  <2>5. ASSUME NEW i \in B \cup {n}, NEW j \in DOMAIN f[i].nbrs, f[i].nbrs[j].name # NoName
        PROVE  IsNameOf(f[i].nbrs[j].name, d.nbrs)
    <3>1. CASE i = n
      <4>1. j \in DOMAIN f[n].nbrs /\ f[n].nbrs[j].name # NoName
        BY <2>5, <3>1
      <4>2. IsNameOf(f[n].nbrs[j].name, c.nbrs \cup Inserted(c.nbrs, f[n].nbrs))
        BY <2>0, <4>1, InsertedNames
      <4> QED BY <1>1, <3>1, <4>2
    <3>2. CASE i \in B
      <4>1. IsNameOf(f[i].nbrs[j].name, c.nbrs)
        BY <2>5, <3>2 DEF NamesKept
      <4> QED BY <1>1, <4>1 DEF IsNameOf
    <3> QED BY <3>1, <3>2
  <2>6. NamesKept(f, n + 1, d)
    BY <2>0, <2>5 DEF NamesKept
  <2> QED BY <2>4, <2>6
<1>2. CASE f[n].kind # "neighbors"
  <2>1. Before(f, n + 1, "neighbors") = B /\ d.nbrs = c.nbrs
    BY <1>2, BeforeStep
  <2> QED BY <2>1, Zenon DEF NeighborsSaid, NamesKept
<1> QED BY <1>1, <1>2

SameCoordinates(c, d) == d.radius = c.radius /\ d.angles = c.angles

LEMMA HyperbolicStep ==
    ASSUME NEW f, NEW n \in Nat \ {0}, NEW c, NEW d, HyperbolicSaid(f, n, c),
           IF f[n].kind = "hyperbolic"
           THEN /\ d.hyperbolic = f[n].state.word
                /\ IF HasCoordinates(f[n]) THEN d.radius = f[n].radius /\ d.angles = f[n].angle
                   ELSE SameCoordinates(c, d)
           ELSE d.hyperbolic = c.hyperbolic /\ SameCoordinates(c, d)
    PROVE  HyperbolicSaid(f, n + 1, d)
<1> DEFINE H(k) == Before(f, k, "hyperbolic")
           R(k) == {i \in H(k) : f[i].radius # Bad /\ f[i].angle # Bad}
<1>1. /\ H(n) = {} => c.hyperbolic = "off"
      /\ \A i \in LastOf(H(n)) : c.hyperbolic = f[i].state.word
      /\ R(n) = {} => c.radius = 0 /\ c.angles = << >>
      /\ \A i \in LastOf(R(n)) : c.radius = f[i].radius /\ c.angles = f[i].angle
  BY Zenon DEF HyperbolicSaid
<1>2. SUFFICES /\ H(n + 1) = {} => d.hyperbolic = "off"
               /\ \A i \in LastOf(H(n + 1)) : d.hyperbolic = f[i].state.word
               /\ R(n + 1) = {} => d.radius = 0 /\ d.angles = << >>
               /\ \A i \in LastOf(R(n + 1)) : d.radius = f[i].radius /\ d.angles = f[i].angle
  BY Zenon DEF HyperbolicSaid
<1>3. CASE f[n].kind = "hyperbolic"
  <2>0. LastOf(H(n + 1)) = {n}
    BY <1>3, LastBefore
  <2>1. H(n + 1) = H(n) \cup {n} /\ LastOf(H(n + 1)) = {n}
    BY <1>3, <2>0, BeforeStep
  <2>2. H(n) \subseteq 1..(n - 1)
    BY DEF Before
  <2>3. /\ H(n + 1) # {}
        /\ \A i \in LastOf(H(n + 1)) : d.hyperbolic = f[i].state.word
    BY <1>3, <2>1
  <2>4. CASE HasCoordinates(f[n])
    <3>1. R(n + 1) = R(n) \cup {n}
      BY <2>1, <2>4 DEF HasCoordinates
    <3>2. LastOf(R(n) \cup {n}) = {n}
      <4>1. R(n) \subseteq 1..(n - 1)
        BY <2>2
      <4> QED BY <4>1, LastIsNew
    <3>3. d.radius = f[n].radius /\ d.angles = f[n].angle
      BY <1>3, <2>4
    <3> HIDE DEF R, H
    <3> QED BY <2>3, <3>1, <3>2, <3>3
  <2>5. CASE ~HasCoordinates(f[n])
    <3>1. R(n + 1) = R(n)
      BY <2>1, <2>5 DEF HasCoordinates
    <3>2. d.radius = c.radius /\ d.angles = c.angles
      BY <1>3, <2>5 DEF SameCoordinates
    <3> HIDE DEF R, H
    <3> QED BY <1>1, <2>3, <3>1, <3>2
  <2> QED BY <2>4, <2>5
<1>4. CASE f[n].kind # "hyperbolic"
  <2>1. H(n + 1) = H(n)
    BY <1>4, BeforeStep
  <2>2. R(n + 1) = R(n)
    BY <2>1
  <2>3. d.hyperbolic = c.hyperbolic /\ d.radius = c.radius /\ d.angles = c.angles
    BY <1>4 DEF SameCoordinates
  <2> HIDE DEF R, H
  <2> QED BY <1>1, <2>1, <2>2, <2>3
<1> QED BY <1>3, <1>4

LEMMA NamesStep ==
    ASSUME NEW f, NEW n \in Nat \ {0}, NEW c, NEW d, NamesSaid(f, n, c),
           d.names = IF f[n].kind = "advertising" THEN c.names \cup {l.name : l \in LinesRead(f[n])}
                     ELSE c.names
    PROVE  NamesSaid(f, n + 1, d)
<1> DEFINE B(k) == {i \in Before(f, k, "advertising") : f[i].outside = {}}
           L(i) == {l.name : l \in f[i].lines}
<1>1. c.names = UNION {L(i) : i \in B(n)}
  BY Zenon DEF NamesSaid
<1>2. SUFFICES d.names = UNION {L(i) : i \in B(n + 1)}
  BY Zenon DEF NamesSaid
<1>3. CASE f[n].kind = "advertising" /\ f[n].outside = {}
  <2>1. B(n + 1) = B(n) \cup {n}
    BY <1>3, BeforeStep
  <2>2. d.names = c.names \cup L(n)
    BY <1>3 DEF LinesRead
  <2> HIDE DEF B, L
  <2>3. UNION {L(i) : i \in B(n) \cup {n}} = (UNION {L(i) : i \in B(n)}) \cup L(n)
    OBVIOUS
  <2> QED BY <1>1, <2>1, <2>2, <2>3
<1>4. CASE f[n].kind = "advertising" /\ f[n].outside # {}
  <2>1. B(n + 1) = B(n)
    BY <1>4, BeforeStep
  <2>2. d.names = c.names
    BY <1>4 DEF LinesRead
  <2> QED BY <1>1, <2>1, <2>2
<1>5. CASE f[n].kind # "advertising"
  <2>1. B(n + 1) = B(n) /\ d.names = c.names
    BY <1>5, BeforeStep
  <2> QED BY <1>1, <2>1
<1> QED BY <1>3, <1>4, <1>5

SameSecurity(c, d) == d.updateValidator = c.updateValidator /\ d.certs = c.certs

CertsIn(s) == {s.entries[j] : j \in 3..Len(s.entries)}

LEMMA SecurityStep ==
    ASSUME NEW f, NEW n \in Nat \ {0}, IsSection(f[n]), NEW c, NEW d, SecuritySaid(f, n, c),
           IF f[n].kind = "security" /\ HasUpdateValidator(f[n])
           THEN d.updateValidator = TRUE /\ d.certs = c.certs \cup CertsIn(f[n])
           ELSE SameSecurity(c, d)
    PROVE  SecuritySaid(f, n + 1, d)
<1> DEFINE V(k) == {i \in Before(f, k, "security") :
                      Len(f[i].entries) >= 2 /\ f[i].entries[2] = "prefix-update-validator"}
           C(i) == {f[i].entries[j] : j \in 3..Len(f[i].entries)}
<1>1. c.updateValidator = (V(n) # {}) /\ c.certs = UNION {C(i) : i \in V(n)}
  BY Zenon DEF SecuritySaid
<1>2. SUFFICES d.updateValidator = (V(n + 1) # {}) /\ d.certs = UNION {C(i) : i \in V(n + 1)}
  BY Zenon DEF SecuritySaid
<1>3. CASE f[n].kind = "security"
  <2>1. Before(f, n + 1, "security") = Before(f, n, "security") \cup {n}
    BY <1>3, BeforeStep
  <2>2. HasUpdateValidator(f[n])
           <=> Len(f[n].entries) >= 2 /\ f[n].entries[2] = "prefix-update-validator"
    <3>1. Len(f[n].entries) \in Nat
      BY <1>3 DEF IsSection, IsSequence
    <3> QED BY <3>1 DEF HasUpdateValidator
  <2>3. CASE HasUpdateValidator(f[n])
    <3>1. V(n + 1) = V(n) \cup {n}
      BY <2>1, <2>2, <2>3
    <3>2. d.updateValidator = TRUE /\ d.certs = c.certs \cup C(n)
      BY <1>3, <2>3 DEF CertsIn
    <3> HIDE DEF V, C
    <3>3. UNION {C(i) : i \in V(n) \cup {n}} = (UNION {C(i) : i \in V(n)}) \cup C(n)
      OBVIOUS
    <3>4. V(n + 1) # {}
      BY <3>1
    <3>5. d.updateValidator = (V(n + 1) # {})
      BY <3>2, <3>4, Zenon
    <3> QED BY <1>1, <3>1, <3>2, <3>3, <3>5
  <2>4. CASE ~HasUpdateValidator(f[n])
    <3>1. V(n + 1) = V(n)
      BY <2>1, <2>2, <2>4
    <3>2. d.updateValidator = c.updateValidator /\ d.certs = c.certs
      BY <2>4 DEF SameSecurity
    <3> HIDE DEF V, C
    <3> QED BY <1>1, <3>1, <3>2
  <2> QED BY <2>3, <2>4
<1>4. CASE f[n].kind # "security"
  <2>1. V(n + 1) = V(n)
    BY <1>4, BeforeStep
  <2>2. d.updateValidator = c.updateValidator /\ d.certs = c.certs
    BY <1>4 DEF SameSecurity
  <2> HIDE DEF V, C
  <2> QED BY <1>1, <2>1, <2>2
<1> QED BY <1>3, <1>4

-----------------------------------------------------------------------------
(* What each reader sets, and what it leaves alone. *)
LEMMA GeneralFields ==
    ASSUME HasFields(conf), UsableNum(conf.num), NEW s
    PROVE  LET d == ReadGeneral(s)
           IN  /\ HasFields(d)
               /\ NumbersOf(d, s, GeneralKeys)
               /\ d.num.routerDeadInterval = Setting(s, "routerDeadInterval", 2 * d.num.lsaRefreshTime)
               /\ SameNumbers(conf, d, NeighborKeys \cup StrictKeys \cup FibKeys)
               /\ NetworkOf(conf, d, s)
               /\ d.on = conf.on /\ d.nbrs = conf.nbrs /\ d.names = conf.names
               /\ d.hyperbolic = conf.hyperbolic /\ SameCoordinates(conf, d) /\ SameSecurity(conf, d)
<1> DEFINE d == ReadGeneral(s)
           old == [conf.num EXCEPT !.routerDeadInterval = DeadInterval(s)]
<1>1. /\ HasFields(d) /\ d.stateDir = TRUE /\ d.id = s.id /\ d.sync = s.sync
      /\ d.on = conf.on /\ d.names = conf.names /\ d.nbrs = conf.nbrs
      /\ d.hyperbolic = conf.hyperbolic /\ SameCoordinates(conf, d) /\ SameSecurity(conf, d)
  BY DEF HasFields, ReadGeneral, SameCoordinates, SameSecurity
<1>2. /\ d.lsaPrefix = conf.lsaPrefix \o <<"localhop", s.id[1]>>
      /\ d.syncPrefix = conf.syncPrefix \o
            (IF s.sync = "svs" THEN <<s.id[1]>> ELSE <<"localhop", s.id[1]>>)
  BY DEF HasFields, ReadGeneral
<1>3. d.num = Put(Settings(s, GeneralKeys), old)
  BY DEF HasFields, ReadGeneral
<1>4. /\ DOMAIN old = DOMAIN Defaults
      /\ \A k \in DOMAIN Defaults \ {"routerDeadInterval"} : old[k] = conf.num[k]
      /\ old.routerDeadInterval = DeadInterval(s)
  BY KeyLemma DEF UsableNum
<1> HIDE DEF old, d
<1>5. \A k \in DOMAIN Defaults :
         d.num[k] = IF k \in GeneralKeys THEN Setting(s, k, Defaults[k]) ELSE old[k]
  BY <1>3, <1>4 DEF Put, Settings
<1>6. NumbersOf(d, s, GeneralKeys)
  BY <1>5, KeyLemma DEF NumbersOf
<1>7. SameNumbers(conf, d, NeighborKeys \cup StrictKeys \cup FibKeys)
  BY <1>4, <1>5, KeyLemma DEF SameNumbers
<1>8. d.num.routerDeadInterval = Setting(s, "routerDeadInterval", 2 * d.num.lsaRefreshTime)
  <2>1. d.num["routerDeadInterval"] = DeadInterval(s)
    BY <1>4, <1>5, KeyLemma
  <2>2. d.num["lsaRefreshTime"] = Setting(s, "lsaRefreshTime", Defaults["lsaRefreshTime"])
    BY <1>6, KeyLemma DEF NumbersOf
  <2> QED BY <2>1, <2>2 DEF DeadInterval
<1>9. NetworkOf(conf, d, s)
  BY <1>1, <1>2 DEF NetworkOf
<1> QED BY <1>1, <1>6, <1>7, <1>8, <1>9 DEF d

LEMMA NeighborsFields ==
    ASSUME HasFields(conf), UsableNum(conf.num), NEW s
    PROVE  LET d == ReadNeighbors(s)
           IN  /\ HasFields(d)
               /\ NumbersOf(d, s, NeighborKeys \cup StrictKeys)
               /\ SameNumbers(conf, d, GeneralKeys \cup {"routerDeadInterval"} \cup FibKeys)
               /\ d.on = [w \in Switches |-> w \in DOMAIN s.on /\ s.on[w] = "on"]
               /\ d.nbrs = conf.nbrs \cup Inserted(conf.nbrs, s.nbrs)
               /\ SameNetwork(conf, d) /\ d.names = conf.names
               /\ d.hyperbolic = conf.hyperbolic /\ SameCoordinates(conf, d) /\ SameSecurity(conf, d)
<1> DEFINE d == ReadNeighbors(s)
<1>1. /\ HasFields(d) /\ SameNetwork(conf, d) /\ d.names = conf.names
      /\ d.hyperbolic = conf.hyperbolic /\ SameCoordinates(conf, d) /\ SameSecurity(conf, d)
  BY DEF HasFields, ReadNeighbors, SameNetwork, SameCoordinates, SameSecurity
<1>2. /\ d.nbrs = conf.nbrs \cup Inserted(conf.nbrs, s.nbrs)
      /\ d.on = [w \in Switches |-> w \in DOMAIN s.on /\ s.on[w] = "on"]
  BY DEF HasFields, ReadNeighbors
<1>3. d.num = Put(Settings(s, NeighborKeys \cup StrictKeys), conf.num)
  BY DEF HasFields, ReadNeighbors
<1>4. DOMAIN conf.num = DOMAIN Defaults
  BY DEF UsableNum
<1> HIDE DEF d
<1>5. \A k \in DOMAIN Defaults :
         d.num[k] = IF k \in NeighborKeys \cup StrictKeys THEN Setting(s, k, Defaults[k]) ELSE conf.num[k]
  BY <1>3, <1>4 DEF Put, Settings
<1>6. NumbersOf(d, s, NeighborKeys \cup StrictKeys)
  BY <1>5, KeyLemma DEF NumbersOf
<1>7. SameNumbers(conf, d, GeneralKeys \cup {"routerDeadInterval"} \cup FibKeys)
  BY <1>5, KeyLemma DEF SameNumbers
<1> QED BY <1>1, <1>2, <1>6, <1>7, Zenon DEF d

LEMMA FibFields ==
    ASSUME HasFields(conf), UsableNum(conf.num), NEW s
    PROVE  LET d == ReadFib(s)
           IN  /\ HasFields(d)
               /\ NumbersOf(d, s, FibKeys)
               /\ SameNumbers(conf, d, GeneralKeys \cup {"routerDeadInterval"} \cup NeighborKeys \cup StrictKeys)
               /\ d.on = conf.on /\ d.nbrs = conf.nbrs
               /\ SameNetwork(conf, d) /\ d.names = conf.names
               /\ d.hyperbolic = conf.hyperbolic /\ SameCoordinates(conf, d) /\ SameSecurity(conf, d)
<1> DEFINE d == ReadFib(s)
<1>1. /\ HasFields(d) /\ d.on = conf.on /\ d.nbrs = conf.nbrs
      /\ SameNetwork(conf, d) /\ d.names = conf.names
      /\ d.hyperbolic = conf.hyperbolic /\ SameCoordinates(conf, d) /\ SameSecurity(conf, d)
  BY DEF HasFields, ReadFib, SameNetwork, SameCoordinates, SameSecurity
<1>2. d.num = Put(Settings(s, FibKeys), conf.num)
  BY DEF HasFields, ReadFib
<1>3. DOMAIN conf.num = DOMAIN Defaults
  BY DEF UsableNum
<1> HIDE DEF d
<1>4. \A k \in DOMAIN Defaults :
         d.num[k] = IF k \in FibKeys THEN Setting(s, k, Defaults[k]) ELSE conf.num[k]
  BY <1>2, <1>3 DEF Put, Settings
<1>5. NumbersOf(d, s, FibKeys)
  BY <1>4, KeyLemma DEF NumbersOf
<1>6. SameNumbers(conf, d, GeneralKeys \cup {"routerDeadInterval"} \cup NeighborKeys \cup StrictKeys)
  BY <1>4, KeyLemma DEF SameNumbers
<1> QED BY <1>1, <1>5, <1>6 DEF d

LEMMA OtherFields ==
    ASSUME HasFields(conf), NEW s
    PROVE  /\ \A d \in {ReadHyperbolic(s), ReadAdvertising(s), ReadSecurity(s)} :
                /\ HasFields(d) /\ d.num = conf.num
                /\ d.on = conf.on /\ d.nbrs = conf.nbrs /\ SameNetwork(conf, d)
           /\ LET d == ReadHyperbolic(s)
              IN  /\ d.hyperbolic = s.state.word
                  /\ IF HasCoordinates(s) THEN d.radius = s.radius /\ d.angles = s.angle
                     ELSE SameCoordinates(conf, d)
                  /\ d.names = conf.names /\ SameSecurity(conf, d)
           /\ LET d == ReadAdvertising(s)
              IN  /\ d.names = conf.names \cup {l.name : l \in LinesRead(s)}
                  /\ d.hyperbolic = conf.hyperbolic /\ SameCoordinates(conf, d)
                  /\ SameSecurity(conf, d)
           /\ LET d == ReadSecurity(s)
              IN  /\ IF HasUpdateValidator(s)
                     THEN d.updateValidator = TRUE /\ d.certs = conf.certs \cup CertsIn(s)
                     ELSE SameSecurity(conf, d)
                  /\ d.names = conf.names
                  /\ d.hyperbolic = conf.hyperbolic /\ SameCoordinates(conf, d)
<1> DEFINE Same(d) == /\ HasFields(d) /\ d.num = conf.num
                      /\ d.on = conf.on /\ d.nbrs = conf.nbrs /\ SameNetwork(conf, d)
<1> USE DEF SameNetwork, SameCoordinates, SameSecurity
<1>1. Same(ReadHyperbolic(s))
  BY DEF HasFields, ReadHyperbolic
<1>2. Same(ReadAdvertising(s))
  BY DEF HasFields, ReadAdvertising
<1>3. Same(ReadSecurity(s))
  BY DEF HasFields, ReadSecurity
<1>4. LET d == ReadHyperbolic(s)
      IN  /\ d.hyperbolic = s.state.word
          /\ IF HasCoordinates(s) THEN d.radius = s.radius /\ d.angles = s.angle
             ELSE SameCoordinates(conf, d)
          /\ d.names = conf.names /\ SameSecurity(conf, d)
  BY DEF HasFields, ReadHyperbolic
<1>5. LET d == ReadAdvertising(s)
      IN  /\ d.names = conf.names \cup {l.name : l \in LinesRead(s)}
          /\ d.hyperbolic = conf.hyperbolic /\ SameCoordinates(conf, d)
          /\ SameSecurity(conf, d)
  BY DEF HasFields, ReadAdvertising
<1>6. LET d == ReadSecurity(s)
      IN  /\ IF HasUpdateValidator(s)
             THEN d.updateValidator = TRUE /\ d.certs = conf.certs \cup CertsIn(s)
             ELSE SameSecurity(conf, d)
          /\ d.names = conf.names
          /\ d.hyperbolic = conf.hyperbolic /\ SameCoordinates(conf, d)
  BY DEF HasFields, ReadSecurity, CertsIn
<1>7. \A d \in {ReadHyperbolic(s), ReadAdvertising(s), ReadSecurity(s)} : Same(d)
  <2> HIDE DEF Same
  <2> QED BY <1>1, <1>2, <1>3
<1> QED BY <1>4, <1>5, <1>6, <1>7

-----------------------------------------------------------------------------
(* A section that is accepted leaves the parameters as the file up to it   *)
(* says.                                                                   *)
LEMMA SectionWritten ==
    ASSUME FileInv, ReadInv, WrittenInv, ProcessSection PROVE WrittenInv'
<1> DEFINE s == static[next]
<1>0. /\ phase = "reading" /\ next \in 1..Len(static) /\ UsableNum(conf.num)
      /\ static' = static /\ Len(static) \in Nat
  <2>1. phase = "reading" /\ next <= Len(static) /\ static' = static
    BY DEF ProcessSection, ProcessConfSectionGeneral, ProcessConfSectionNeighbors,
           ProcessConfSectionHyperbolic, ProcessConfSectionFib, ProcessConfSectionAdvertising,
           ProcessConfSectionSecurity, UnknownSection, Reading
  <2>2. Len(static) \in Nat
    BY DEF FileInv, IsFile, IsSequence
  <2> QED BY <2>1, <2>2 DEF ReadInv, WrittenInv
<1>1. /\ HasFields(conf)
      /\ NumbersSaid(static, next, conf) /\ SwitchesSaid(static, next, conf)
      /\ NetworkSaid(static, next, conf) /\ NeighborsSaid(static, next, conf)
      /\ HyperbolicSaid(static, next, conf) /\ NamesSaid(static, next, conf)
      /\ SecuritySaid(static, next, conf) /\ NamesKept(static, next, conf)
  BY <1>0 DEF WrittenInv, AsWritten
<1> SUFFICES ASSUME phase' = "reading" PROVE WrittenInv'
  BY DEF WrittenInv
<1>2. next' = next + 1
  BY <1>0 DEF ProcessSection, ProcessConfSectionGeneral, ProcessConfSectionNeighbors,
         ProcessConfSectionHyperbolic, ProcessConfSectionFib, ProcessConfSectionAdvertising,
         ProcessConfSectionSecurity, UnknownSection, Continue
<1>3. next \in Nat \ {0} /\ next + 1 \in 1..(Len(static) + 1)
  BY <1>0
<1>4. IsSection(s)
  <2>1. next \in DOMAIN static
    BY <1>0 DEF FileInv, IsFile, IsSequence
  <2> QED BY <2>1 DEF FileInv, IsFile
<1>5. ASSUME HasFields(conf'),
             IF s.kind = "general"
             THEN /\ NumbersOf(conf', s, GeneralKeys)
                  /\ conf'.num.routerDeadInterval = Setting(s, "routerDeadInterval", 2 * conf'.num.lsaRefreshTime)
             ELSE SameNumbers(conf, conf', GeneralKeys \cup {"routerDeadInterval"}),
             IF s.kind = "neighbors" THEN NumbersOf(conf', s, NeighborKeys \cup StrictKeys)
             ELSE SameNumbers(conf, conf', NeighborKeys \cup StrictKeys),
             IF s.kind = "fib" THEN NumbersOf(conf', s, FibKeys) ELSE SameNumbers(conf, conf', FibKeys),
             IF s.kind = "neighbors"
             THEN conf'.on = [w \in Switches |-> w \in DOMAIN s.on /\ s.on[w] = "on"]
             ELSE conf'.on = conf.on,
             IF s.kind = "general" THEN NetworkOf(conf, conf', s) ELSE SameNetwork(conf, conf'),
             conf'.nbrs = IF s.kind = "neighbors" THEN conf.nbrs \cup Inserted(conf.nbrs, s.nbrs)
                          ELSE conf.nbrs,
             IF s.kind = "hyperbolic"
             THEN /\ conf'.hyperbolic = s.state.word
                  /\ IF HasCoordinates(s) THEN conf'.radius = s.radius /\ conf'.angles = s.angle
                     ELSE SameCoordinates(conf, conf')
             ELSE conf'.hyperbolic = conf.hyperbolic /\ SameCoordinates(conf, conf'),
             conf'.names = IF s.kind = "advertising" THEN conf.names \cup {l.name : l \in LinesRead(s)}
                           ELSE conf.names,
             IF s.kind = "security" /\ HasUpdateValidator(s)
             THEN conf'.updateValidator = TRUE /\ conf'.certs = conf.certs \cup CertsIn(s)
             ELSE SameSecurity(conf, conf')
      PROVE  WrittenInv'
  <2>1. NumbersSaid(static, next + 1, conf')
    BY <1>1, <1>3, <1>4, <1>5, NumbersStep
  <2>2. SwitchesSaid(static, next + 1, conf')
    BY <1>1, <1>3, <1>5, SwitchesStep
  <2>3. NetworkSaid(static, next + 1, conf')
    BY <1>1, <1>3, <1>5, NetworkStep
  <2>4. NeighborsSaid(static, next + 1, conf') /\ NamesKept(static, next + 1, conf')
    BY <1>1, <1>3, <1>4, <1>5, NeighborsStep
  <2>5. HyperbolicSaid(static, next + 1, conf')
    BY <1>1, <1>3, <1>5, HyperbolicStep
  <2>6. NamesSaid(static, next + 1, conf')
    BY <1>1, <1>3, <1>5, NamesStep
  <2>7. SecuritySaid(static, next + 1, conf')
    BY <1>1, <1>3, <1>4, <1>5, SecurityStep
  <2>8. AsWritten(static, next + 1, conf')
    BY <2>1, <2>2, <2>3, <2>4, <2>5, <2>6, <2>7 DEF AsWritten
  <2> QED BY <1>0, <1>2, <1>3, <1>5, <2>4, <2>8 DEF WrittenInv
<1>6. ASSUME NEW keys, NEW more, SameNumbers(conf, conf', keys), more \subseteq keys
      PROVE  SameNumbers(conf, conf', more)
  BY <1>6 DEF SameNumbers
<1>7. CASE ProcessConfSectionGeneral
  <2>1. s.kind = "general" /\ conf' = ReadGeneral(s)
    BY <1>0, <1>7 DEF ProcessConfSectionGeneral, Continue, Reading
  <2>2. /\ SameNumbers(conf, conf', NeighborKeys \cup StrictKeys)
        /\ SameNumbers(conf, conf', FibKeys)
    BY <1>0, <1>1, <1>6, <2>1, GeneralFields
  <2> QED BY <1>0, <1>1, <1>5, <2>1, <2>2, GeneralFields
<1>8. CASE ProcessConfSectionNeighbors
  <2>1. s.kind = "neighbors" /\ conf' = ReadNeighbors(s)
    BY <1>0, <1>8 DEF ProcessConfSectionNeighbors, Continue, Reading
  <2>2. /\ SameNumbers(conf, conf', GeneralKeys \cup {"routerDeadInterval"})
        /\ SameNumbers(conf, conf', FibKeys)
    BY <1>0, <1>1, <1>6, <2>1, NeighborsFields
  <2> QED BY <1>0, <1>1, <1>5, <2>1, <2>2, NeighborsFields
<1>9. CASE ProcessConfSectionFib
  <2>1. s.kind = "fib" /\ conf' = ReadFib(s)
    BY <1>0, <1>9 DEF ProcessConfSectionFib, Continue, Reading
  <2>2. /\ SameNumbers(conf, conf', GeneralKeys \cup {"routerDeadInterval"})
        /\ SameNumbers(conf, conf', NeighborKeys \cup StrictKeys)
    BY <1>0, <1>1, <1>6, <2>1, FibFields
  <2> QED BY <1>0, <1>1, <1>5, <2>1, <2>2, FibFields
<1>10. ASSUME conf'.num = conf.num PROVE \A keys : SameNumbers(conf, conf', keys)
  BY <1>10 DEF SameNumbers
<1>11. CASE ProcessConfSectionHyperbolic
  <2>1. s.kind = "hyperbolic" /\ conf' = ReadHyperbolic(s)
    BY <1>0, <1>11 DEF ProcessConfSectionHyperbolic, Continue, Reading
  <2> QED BY <1>1, <1>5, <1>10, <2>1, OtherFields
<1>12. CASE ProcessConfSectionAdvertising
  <2>1. s.kind = "advertising" /\ conf' = ReadAdvertising(s)
    BY <1>0, <1>12 DEF ProcessConfSectionAdvertising, Continue, Reading
  <2> QED BY <1>1, <1>5, <1>10, <2>1, OtherFields
<1>13. CASE ProcessConfSectionSecurity
  <2>1. s.kind = "security" /\ conf' = ReadSecurity(s)
    BY <1>0, <1>13 DEF ProcessConfSectionSecurity, Continue, Reading
  <2> QED BY <1>1, <1>5, <1>10, <2>1, OtherFields
<1>14. CASE UnknownSection
  <2>1. s.kind = "unknown" /\ conf' = conf
    BY <1>14 DEF UnknownSection, Continue, Reading
  <2> QED BY <1>1, <1>5, <1>10, <2>1 DEF SameNetwork, SameCoordinates, SameSecurity
<1> QED BY <1>7, <1>8, <1>9, <1>11, <1>12, <1>13, <1>14 DEF ProcessSection

(* Before the first section nothing is said. *)
LEMMA InitialWritten ==
    ASSUME NEW f, NEW t
    PROVE  /\ HasFields(InitialConf(t)) /\ AsWritten(f, 1, InitialConf(t))
           /\ NamesKept(f, 1, InitialConf(t))
<1> DEFINE c == InitialConf(t)
<1>0. /\ \A kind : Before(f, 1, kind) = {}
      /\ LastOf({}) = {}
  BY NoneBefore DEF LastOf
<1>1. HasFields(c)
  BY DEF HasFields, InitialConf
<1>2. /\ c.num = [Defaults EXCEPT !.faceDatasetFetchTries = t]
      /\ c.on = [w \in Switches |-> FALSE]
      /\ c.sync = "psync" /\ c.id = <<NoName, NoName, NoName>>
      /\ c.syncPrefix = << >> /\ c.lsaPrefix = << >> /\ c.stateDir = FALSE
      /\ c.nbrs = {} /\ c.names = {}
      /\ c.hyperbolic = "off" /\ c.radius = 0 /\ c.angles = << >>
      /\ c.updateValidator = FALSE /\ c.certs = {}
  BY DEF InitialConf
<1> HIDE DEF c
<1>3. NumbersSaid(f, 1, c)
  <2>1. \A kind, k : Texts(f, 1, kind, k) = {}
    BY <1>0 DEF Texts
  <2>2. ASSUME NEW kind, NEW k \in DOMAIN Defaults \ {"faceDatasetFetchTries"}
        PROVE  NumberSaid(f, 1, c, kind, k, Defaults[k])
    <3>1. c.num[k] = Defaults[k]
      BY <1>2 DEF Defaults
    <3> QED BY <2>1, <3>1 DEF NumberSaid
  <2>3. NumberSaid(f, 1, c, "general", "routerDeadInterval", 2 * c.num.lsaRefreshTime)
    <3>1. c.num.routerDeadInterval = 3600 /\ c.num.lsaRefreshTime = 1800
      BY <1>2 DEF Defaults
    <3> QED BY <2>1, <3>1 DEF NumberSaid
  <2>4. /\ GeneralKeys \cup FibKeys \subseteq DOMAIN Defaults \ {"faceDatasetFetchTries"}
        /\ NeighborKeys \cup StrictKeys \subseteq DOMAIN Defaults
    BY KeyLemma
  <2> QED BY <1>0, <2>2, <2>3, <2>4 DEF NumbersSaid
<1>4. SwitchesSaid(f, 1, c)
  <2>1. \A w \in Switches : c.on[w] = FALSE
    BY <1>2
  <2>2. LastOf(Before(f, 1, "neighbors")) = {}
    BY <1>0
  <2>3. SUFFICES \A w \in Switches :
                    c.on[w] = (\E i \in {} : w \in DOMAIN f[i].on /\ f[i].on[w] = "on")
    BY <2>2, Zenon DEF SwitchesSaid
  <2>4. \A w \in Switches : (\E i \in {} : w \in DOMAIN f[i].on /\ f[i].on[w] = "on") = FALSE
    OBVIOUS
  <2> QED BY <2>1, <2>4, Zenon
<1>5. NetworkSaid(f, 1, c)
  BY <1>0, <1>2 DEF NetworkSaid
<1>6. NeighborsSaid(f, 1, c) /\ NamesKept(f, 1, c) /\ NamesSaid(f, 1, c)
  BY <1>0, <1>2 DEF NeighborsSaid, NamesKept, NamesSaid
<1>7. HyperbolicSaid(f, 1, c)
  <2>1. {i \in Before(f, 1, "hyperbolic") : f[i].radius # Bad /\ f[i].angle # Bad} = {}
    BY <1>0
  <2> QED BY <1>0, <1>2, <2>1 DEF HyperbolicSaid
<1>8. SecuritySaid(f, 1, c)
  BY <1>0, <1>2 DEF SecuritySaid
<1> QED BY <1>1, <1>3, <1>4, <1>5, <1>6, <1>7, <1>8 DEF AsWritten, c

LEMMA NextWritten == ASSUME Inv, ReadInv, WrittenInv, [Next]_vars PROVE WrittenInv'
<1>0. FileInv /\ LsaInv
  BY DEF Inv
<1> USE DEF confVars
<1>1. CASE Start
  <2>1. PICK t : conf' = InitialConf(t)
    BY <1>1 DEF Start, ProcessConfFile
  <2>2. next' = 1 /\ static' = static /\ Len(static) \in Nat
    BY <1>0, <1>1 DEF Start, ProcessConfFile, FileInv, IsFile, IsSequence
  <2>3. HasFields(conf') /\ AsWritten(static, 1, conf') /\ NamesKept(static, 1, conf')
    BY <2>1, InitialWritten
  <2> QED BY <2>2, <2>3 DEF WrittenInv
<1>2. CASE ReadSection
  BY <1>0, <1>2, SectionWritten DEF ReadSection
<1>3. ASSUME \/ Accept \/ Stop \/ CopyDynamic \/ \E m \in received : CrashWhileSaving(m)
             \/ \E m \in received : ExecuteCommand(m)
             \/ \E v \in {"advertise", "withdraw"}, n \in Names : RibCommand(v, n)
      PROVE  WrittenInv'
  <2>1. phase' # "reading"
    BY <1>3 DEF Accept, Stop, CopyDynamic, CrashWhileSaving, ExecuteCommand, RibCommand
  <2> QED BY <2>1 DEF WrittenInv
<1>4. ASSUME \/ ChangeAccess \/ RefreshNameLsa \/ UNCHANGED vars
             \/ \E m \in Commands : SendNamePrefixUpdate(m)
             \/ \E m \in received : RejectCommand(m)
             \/ \E c \in Clients : OnTimeout(c) \/ OnNackData(c)
      PROVE  WrittenInv'
  <2>1. conf' = conf /\ phase' = phase /\ next' = next /\ static' = static
    BY <1>4 DEF ChangeAccess, RefreshNameLsa, SendNamePrefixUpdate, RejectCommand, OnTimeout,
                OnNackData, DoneWith, vars
  <2> QED BY <2>1 DEF WrittenInv
<1> QED BY <1>1, <1>2, <1>3, <1>4 DEF Next

(* After every section the parameters are what the file up to it says as a *)
(* whole, whatever the number and the order of its sections: the last      *)
(* section of a kind decides all its settings, a text that cannot be read  *)
(* counts as absent and a negative one wraps round where it is unsigned,   *)
(* the neighbours are the first entries of their names, names and          *)
(* certificates add up, the last readable coordinates count, and the names *)
(* made from the network's are right if it is given once (processSection   *)
(* and the six functions behind it).                                       *)
THEOREM FileIsReadAsWritten == Spec => []ReadAsWritten
<1>1. Init => WrittenInv
  BY DEF Init, InitConf, WrittenInv
<1>2. Init => ReadInv
  BY DEF Init, InitConf, ReadInv
<1>3. Inv /\ ReadInv /\ [Next]_vars => ReadInv'
  BY NextReadInv
<1>4. Inv /\ ReadInv /\ WrittenInv /\ [Next]_vars => WrittenInv'
  BY NextWritten
<1>5. WrittenInv => ReadAsWritten
  BY DEF WrittenInv, ReadAsWritten
<1> QED BY <1>1, <1>2, <1>3, <1>4, <1>5, PrefixInvariant, PTL DEF Spec
=============================================================================
