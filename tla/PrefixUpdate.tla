----------------------------- MODULE PrefixUpdate -----------------------------
(***************************************************************************)
(* What a router advertises and how that changes at run time: the list of  *)
(* name prefixes (name-prefix-list.cpp) that the configuration fills, the  *)
(* commands of nlsrc (tools/nlsrc.cpp) and of NFD that change it           *)
(* (update/), the own Name LSA built from it (lsdb.cpp), and the copy of   *)
(* the configuration in the state directory that "save" and "delete" edit. *)
(*                                                                         *)
(* ndn-cxx's dispatcher and validators are external: a command is being    *)
(* validated for any length of time, commands overtake each other there,   *)
(* and both the command and its answer can be lost.  nlsrc takes whatever  *)
(* Data has the name of its command, without validation, so an answer need *)
(* not be nlsrd's.  Every command gives the source "", so m_namesSources   *)
(* is a set of names.                                                      *)
(***************************************************************************)
EXTENDS ConfFile

CONSTANTS
    Names,            \* the names that commands are about
    Clients,          \* runs of nlsrc
    Nobody,           \* none of them
    Bound             \* bound: starts, commands, changes of access, given the first file

ASSUME NobodyAssumption == Nobody \notin Clients

VARIABLES
    seq,              \* SequencingManager: the number of the Name LSA, also in its file
    lsa,              \* the own Name LSA in the LSDB
    received,         \* commands that nlsrd is validating
    client,           \* the runs of nlsrc
    saved,            \* history: the names whose saving was confirmed
    left              \* how much of the bounds is left

vars == <<static, dynamic, writable, phase, next, conf,
          seq, lsa, received, client, saved, left>>

NoLsa == [seq |-> 0, names |-> {}]

(* The client of a command is Nobody once its nlsrc has given up waiting;  *)
(* two such commands that say the same count as one.                       *)
Commands == [client : Clients \cup {Nobody}, verb : {"advertise", "withdraw"}, name : Names, flag : BOOLEAN]

(* What a run of nlsrc has got: nothing yet, a response code, Data of the  *)
(* content type Nack, or neither: no answer in time, or Data without a     *)
(* response in it.                                                         *)
Answers == {"none", "200", "204", "205", "403", "406", "nack", "neither"}

Advertisings(file) == {i \in DOMAIN file : file[i].kind = "advertising"}

(* The names the next start reads from the file.                           *)
NamesIn(file) == UNION {{l.name : l \in LinesRead(file[i])} : i \in Advertisings(file)}

TypeOK ==
    /\ writable \in BOOLEAN
    /\ phase \in {"stopped", "reading", "running"}
    /\ next \in Nat \ {0}
    /\ seq \in Nat
    /\ lsa.seq \in Nat
    /\ received \subseteq Commands
    /\ client \in [Clients -> [waiting : BOOLEAN, answer : Answers]]

Init ==
    /\ InitConf
    /\ seq = 0
    /\ lsa = NoLsa
    /\ received = {}
    /\ client = [c \in Clients |-> [waiting |-> FALSE, answer |-> "none"]]
    /\ saved = {}
    /\ left = Bound[static]

-----------------------------------------------------------------------------
(* The own Name LSA *)

(* installLsa *)
Installed(new, old) == IF old = NoLsa \/ old.seq < new.seq THEN new ELSE old

(* buildAndInstallOwnNameLsa *)
BuildAndInstallOwnNameLsa(list) ==
    /\ seq' = seq + 1
    /\ lsa' = Installed([seq |-> seq', names |-> list], lsa)

RefreshInLsdb ==
    /\ phase = "running" /\ left.refreshes > 0
    /\ lsa' = [lsa EXCEPT !.seq = @ + 1]
    /\ left' = [left EXCEPT !.refreshes = @ - 1]
    /\ UNCHANGED <<confVars, seq, received, client, saved>>

(* expireOrRefreshLsa *)
RefreshNameLsa ==
    /\ phase = "running" /\ left.refreshes > 0
    /\ lsa' = [lsa EXCEPT !.seq = @ + 1]
    /\ seq' = lsa'.seq
    /\ left' = [left EXCEPT !.refreshes = @ - 1]
    /\ UNCHANGED <<confVars, received, client, saved>>

-----------------------------------------------------------------------------
(* Starting and ending nlsrd *)

Start ==
    /\ left.starts > 0
    /\ left' = [left EXCEPT !.starts = @ - 1]
    /\ ProcessConfFile
    /\ UNCHANGED <<seq, lsa, received, client, saved>>

(* Names saved in an earlier run are gone from the file once the start-up  *)
(* has copied another one over it.                                         *)
ReadSection ==
    /\ ProcessSection
    /\ saved' = IF dynamic' = dynamic THEN saved ELSE saved \cap NamesIn(dynamic')
    /\ UNCHANGED <<seq, lsa, received, client, left>>

(* The number in the state file, if there is one, is continued ten further *)
(* on (SequencingManager), and the LSDB is empty.                          *)
Accept ==
    /\ ReadTo(Len(static))
    /\ phase' = "running"
    /\ seq' = (IF seq = 0 THEN 0 ELSE seq + 10) + 1
    /\ lsa' = [seq |-> seq', names |-> conf.names]
    /\ UNCHANGED <<static, dynamic, writable, next, conf, received, client, saved, left>>

Stop ==
    /\ phase \in {"reading", "running"}
    /\ phase' = "stopped"
    /\ received' = {}
    /\ UNCHANGED <<static, dynamic, writable, next, conf, seq, lsa, client, saved, left>>

(* What an operator does to keep saved names: the next run reads the file  *)
(* of the state directory, or an empty one.                                *)
CopyDynamic ==
    /\ phase = "stopped"
    /\ dynamic # static
    /\ static' = dynamic
    /\ UNCHANGED <<dynamic, writable, phase, next, conf, seq, lsa, received, client, saved, left>>

ChangeAccess ==
    /\ left.accesses > 0
    /\ left' = [left EXCEPT !.accesses = @ - 1]
    /\ writable' = ~writable
    /\ UNCHANGED <<static, dynamic, phase, next, conf, seq, lsa, received, client, saved>>

-----------------------------------------------------------------------------
(* PrefixUpdateProcessor: the file in the state directory *)

Exact(n) == [name |-> n, layout |-> "exact"]

(* The prefix lines in an advertising section or before its brace.         *)
Written(section) == section.lines \cup section.outside

(* checkForPrefixInFile also says yes if it cannot open the file for       *)
(* reading and writing.                                                    *)
CheckForPrefixInFile(n) ==
    \/ ~writable
    \/ \E i \in Advertisings(dynamic) : Exact(n) \in Written(dynamic[i])

(* The brace is on the line after the heading.                             *)
IsOpen(section) == section.heading = "alone" /\ section.outside = {}

(* After the line that follows a heading that is alone on its own,         *)
(* whatever that line is.                                                  *)
AddLine(section, l) ==
    IF section.heading = "inline" THEN section
    ELSE IF IsOpen(section) THEN [section EXCEPT !.lines = @ \cup {l}]
    ELSE [section EXCEPT !.outside = @ \cup {l}]

WithPrefix(n) ==
    [i \in DOMAIN dynamic |->
        IF i \in Advertisings(dynamic) THEN AddLine(dynamic[i], Exact(n)) ELSE dynamic[i]]

(* Lines are compared with the blanks around them trimmed; blank ones are  *)
(* dropped.                                                                *)
IsKept(l, n) == l.name = n => l.layout = "commented"

Unblanked(heading) == IF heading = "blank" THEN "alone" ELSE heading

RemoveAllWritten(n) ==
    [i \in DOMAIN dynamic |->
        IF i \in Advertisings(dynamic)
        THEN [dynamic[i] EXCEPT !.heading = Unblanked(@), !.outside = {}, !.lines = {}]
        ELSE dynamic[i]]
WithoutPrefix(n) ==
    [i \in DOMAIN dynamic |->
        IF i \in Advertisings(dynamic)
        THEN [dynamic[i] EXCEPT !.heading = Unblanked(@),
                                !.outside = {l \in @ : IsKept(l, n)},
                                !.lines = {l \in @ : IsKept(l, n)}]
        ELSE dynamic[i]]

(* The result of addOrDeletePrefix.                                        *)
EditSucceeds(verb, n) ==
    /\ conf.stateDir
    /\ CheckForPrefixInFile(n) = (verb = "withdraw")

(* The file is truncated and written; if it cannot be opened nothing       *)
(* happens and nobody is told.                                             *)
Edited(verb, n) ==
    IF ~writable THEN dynamic
    ELSE IF verb = "advertise" THEN WithPrefix(n) ELSE WithoutPrefix(n)

-----------------------------------------------------------------------------
(* CommandManagerBase *)

Changed(verb, n) == n \in conf.names <=> verb = "withdraw"

NamesAfter(verb, n) == IF verb = "advertise" THEN conf.names \cup {n} ELSE conf.names \ {n}

(* insert or erase, and a new Name LSA if that changed anything.           *)
UpdateList(verb, n) ==
    /\ conf' = [conf EXCEPT !.names = NamesAfter(verb, n)]
    /\ IF Changed(verb, n) THEN BuildAndInstallOwnNameLsa(NamesAfter(verb, n))
       ELSE UNCHANGED <<seq, lsa>>

(* advertiseAndInsertPrefix and withdrawAndRemovePrefix.                   *)
Code(m) ==
    IF m.flag THEN IF EditSucceeds(m.verb, m.name) THEN "205" ELSE "406"
    ELSE IF Changed(m.verb, m.name) THEN "200" ELSE "204"

FailsIfRejected(answer) == IF answer = "403" THEN "one" ELSE "zero"

(* Nlsrc::onControlResponse and onTimeout.  Data of the content type Nack  *)
(* is reported as an error, and m_exitCode left at 0.                      *)
ExitCode(answer) == IF answer \in {"200", "204", "205", "nack"} THEN "zero" ELSE "one"

(* The answer finds nlsrc still waiting, or is lost.                       *)
Reply(m, answer) ==
    \/ client' = client
    \/ /\ m.client \in Clients
       /\ client' = [client EXCEPT ![m.client] = [waiting |-> FALSE, answer |-> answer]]

ExecuteCommand(m) ==
    /\ phase = "running" /\ m \in received
    /\ conf.updateValidator
    /\ received' = received \ {m}
    /\ UpdateList(m.verb, m.name)
    /\ dynamic' = IF Code(m) = "205" THEN Edited(m.verb, m.name) ELSE dynamic
    /\ saved' = IF Code(m) # "205" THEN saved
                ELSE IF m.verb = "advertise" THEN saved \cup {m.name} ELSE saved \ {m.name}
    /\ Reply(m, Code(m))
    /\ UNCHANGED <<static, writable, phase, next, left>>

(* The process dies after it has truncated the file and before it has      *)
(* written it.                                                             *)
CrashWhileSaving(m) ==
    /\ phase = "running" /\ m \in received
    /\ conf.updateValidator
    /\ Code(m) = "205" /\ writable
    /\ UpdateList(m.verb, m.name)
    /\ dynamic' = << >>
    /\ saved' = {}
    /\ phase' = "stopped"
    /\ received' = {}
    /\ UNCHANGED <<static, writable, next, client, left>>

RejectCommand(m) ==
    /\ phase = "running" /\ m \in received
    /\ received' = received \ {m}
    /\ Reply(m, "403")
    /\ UNCHANGED <<confVars, seq, lsa, saved, left>>

(* NfdRibCommandProcessor accepts everybody, and saves nothing.            *)
RibCommand(verb, n) ==
    /\ phase = "running"
    /\ left.ribCommands > 0
    /\ left' = [left EXCEPT !.ribCommands = @ - 1]
    /\ UpdateList(verb, n)
    /\ UNCHANGED <<static, dynamic, writable, phase, next, received, client, saved>>

-----------------------------------------------------------------------------
(* nlsrc *)

(* sendNamePrefixUpdate, by a new run of nlsrc.  It reaches nlsrd or not.  *)
SendNamePrefixUpdate(m) ==
    /\ m.client \in Clients /\ ~client[m.client].waiting
    /\ left.commands > 0
    /\ left' = [left EXCEPT !.commands = @ - 1]
    /\ client' = [client EXCEPT ![m.client] = [waiting |-> TRUE, answer |-> "none"]]
    /\ received' \in {received, IF phase = "running" THEN received \cup {m} ELSE received}
    /\ UNCHANGED <<confVars, seq, lsa, saved>>

(* nlsrc is done without an answer of nlsrd; a command that has reached    *)
(* nlsrd may still be executed.                                            *)
DoneWith(c, answer) ==
    /\ client[c].waiting
    /\ client' = [client EXCEPT ![c] = [waiting |-> FALSE, answer |-> answer]]
    /\ received' = {IF m.client = c THEN [m EXCEPT !.client = Nobody] ELSE m : m \in received}
    /\ UNCHANGED <<confVars, seq, lsa, saved, left>>

OnTimeout(c) == DoneWith(c, "neither")

(* Data of the content type Nack, which nlsrd never sends for a command.   *)
OnNackData(c) == DoneWith(c, "nack")

Next ==
    \/ Start
    \/ ReadSection
    \/ Accept
    \/ Stop
    \/ CopyDynamic
    \/ ChangeAccess
    \/ RefreshNameLsa
    \/ \E m \in Commands : SendNamePrefixUpdate(m)
    \/ \E m \in received : ExecuteCommand(m) \/ CrashWhileSaving(m) \/ RejectCommand(m)
    \/ \E verb \in {"advertise", "withdraw"}, n \in Names : RibCommand(verb, n)
    \/ \E c \in Clients : OnTimeout(c) \/ OnNackData(c)

Spec == Init /\ [][Next]_vars

-----------------------------------------------------------------------------
(* What the network is told is what the list says.  A refresh takes the    *)
(* number from the LSA and a rebuild from the SequencingManager, and an    *)
(* LSA that is not newer than the installed one is dropped silently.       *)
NameLsaFollowsList == phase = "running" => lsa.names = conf.names

(* A save comes where the next start looks for it: there is an advertising *)
(* section nlsrd can open, and none with a line before its brace.  If not, *)
(* a save is confirmed all the same.                                       *)
CanSave(file) ==
    /\ \E i \in Advertisings(file) : file[i].heading = "alone"
    /\ \A i \in Advertisings(file) :
          file[i].outside = {} /\ file[i].heading \in {"alone", "inline"}

(* A name whose saving was confirmed with 205 is in the file until it is   *)
(* deleted, the file is copied over by a start, or the process dies in a   *)
(* save: no save or delete of another name loses it.                       *)
SavedSurvives == CanSave(dynamic) => saved \subseteq NamesIn(dynamic)

(* What nlsrc was asked for (nlsrc.rst: "Add a Name prefix to be           *)
(* advertised", "also save it", "also delete it") is so in the LSA and in  *)
(* the file.                                                               *)
InLsa(m) == m.name \in lsa'.names <=> m.verb = "advertise"

InFile(m) == m.name \in NamesIn(dynamic') <=> m.verb = "advertise"

(* When 205 says nothing about the file: a save finds no section to write  *)
(* to, a delete may not write, or leaves a line that carries a comment.    *)
SaysNothing(m) ==
    IF m.verb = "advertise" THEN ~CanSave(dynamic)
    ELSE \/ ~writable
         \/ \E i \in Advertisings(dynamic) : \E l \in Written(dynamic[i]) :
                l.name = m.name /\ l.layout = "commented"

(* When nlsrc exits with 0, what it was asked for is so at the moment of   *)
(* the answer, however commands overtake each other, time out and are      *)
(* lost, with two exceptions: the answer was Data of the content type      *)
(* Nack, for which nlsrc prints an error and exits with 0; or "save" or    *)
(* "delete" was asked for and SaysNothing holds, in which case the LSA is  *)
(* as asked for and the file need not be (onControlResponse,               *)
(* addOrDeletePrefix).                                                     *)
ExitMeansDone ==
    [][\A c \in Clients :
          client[c].waiting /\ ~client'[c].waiting /\ ExitCode(client'[c].answer) = "zero" =>
             \/ client'[c].answer = "nack"
             \/ \E m \in received :
                   m.client = c /\ InLsa(m) /\ (m.flag => InFile(m) \/ SaysNothing(m))]_vars
=============================================================================
