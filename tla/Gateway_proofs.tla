--------------------------- MODULE Gateway_proofs ---------------------------
(* A token is admitted once, the chain verifies and what was told stays in   *)
(* the log, for any number of tokens, connections, requests and faults, and  *)
(* for every lifetime of a token and tolerated skew.                         *)
EXTENDS Gateway, TLAPS

\* What the process is doing: the store is there while records can be written,
\* connections are there while it serves, and a file has a line
ServeInv ==
    /\ process \in {"opening", "up"} => store # None
    /\ \A c \in Conn : conn[c].at # "free" => process = "up"
    /\ \A c \in Conn : conn[c].at = "checking" => conn[c].token \in Token
    /\ pen # None => file # None /\ (pen.by = Route => process = "opening")
                                 /\ (pen.by # Route => process = "up")
    /\ tail => file # None
    /\ file # None => Len(file) > 0

Inv == TypeOK /\ ServeInv

-----------------------------------------------------------------------------
(* The parts of the state *)

LEMMA LinesTyped == ASSUME TypeOK PROVE Lines \in File
<1>1. <<>> \in File
    BY DEF File
<1> QED  BY <1>1 DEF TypeOK, Lines

LEMMA RepliesNamed == Replies \subseteq {"error", "result", "damaged"}
BY DEF Replies, ReplyOf

LEMMA RecordTyped ==
    ASSUME NEW request \in Nat, NEW reply \in Names
    PROVE  RecordOf(request, reply) \in Record
BY DEF RecordOf, ResultOf, Record, Names

LEMMA IdleTyped == Idle \in Connection /\ Idle.at = "free" /\ Idle.digest = <<>>
BY DEF Idle, Connection, Names, Methods

LEMMA WantedTyped ==
    ASSUME TypeOK, NEW who \in Conn \cup {Route} PROVE Wanted(who) \in Record
<1>1. CASE who = Route
    BY <1>1 DEF Wanted, Genesis, Record
<1>2. CASE who \in Conn /\ who # Route
    BY <1>2, RecordTyped DEF TypeOK, Connection, Wanted
<1> QED  BY <1>1, <1>2

\* One connection changes, and nothing of the log, the process or the tokens
LEMMA ConnTyped ==
    ASSUME Inv, NEW c \in Conn, NEW new \in Connection, process = "up",
           new.at = "checking" => new.token \in Token,
           conn' = [conn EXCEPT ![c] = new],
           UNCHANGED <<clock, issued, disk, process, rules, store, pen, faults,
                       answered, attested, failed>>,
           replay' \subseteq Token, requests' \in Nat, admitted' \in [Token -> Nat]
    PROVE  Inv'
<1>1. conn' \in [Conn -> Connection]
    BY DEF Inv, TypeOK
<1>2. TypeOK'
    BY <1>1 DEF Inv, TypeOK, Lines, disk
<1>3. ServeInv'
    BY DEF Inv, TypeOK, ServeInv, disk
<1> QED  BY <1>2, <1>3 DEF Inv

-----------------------------------------------------------------------------
(* Types *)

LEMMA InitInv == Init => Inv
<1> SUFFICES ASSUME Init PROVE Inv
    OBVIOUS
<1>1. TypeOK
  <2>1. conn \in [Conn -> Connection] /\ admitted \in [Token -> Nat]
        /\ issued \in [Token -> Nat \cup {None}]
      BY IdleTyped DEF Init
  <2>2. Len(Lines) = 0
      BY DEF Init, Lines
  <2>3. synced \in 0..Len(Lines)
      BY <2>2 DEF Init
  <2>4. rules \in BOOLEAN /\ tail \in BOOLEAN /\ failed \in BOOLEAN
      BY DEF Init
  <2>5. /\ clock \in Nat /\ requests \in Nat /\ faults \in Nat /\ replay \subseteq Token
        /\ answered \subseteq [request : Nat, reply : Names] /\ attested \subseteq Seq(Record)
      BY DEF Init
  <2> QED  BY <2>1, <2>3, <2>4, <2>5 DEF Init, TypeOK
<1>2. ServeInv
    BY IdleTyped DEF Init, ServeInv
<1> QED  BY <1>1, <1>2 DEF Inv

LEMMA TickInv == ASSUME Inv, Tick PROVE Inv'
BY DEF Inv, TypeOK, ServeInv, Tick, Lines, disk, process_vars, past

LEMMA SignInv ==
    ASSUME Inv, NEW t \in Token, NEW ahead \in Nat, Sign(t, ahead) PROVE Inv'
<1>1. issued' \in [Token -> Nat \cup {None}]
    BY DEF Inv, TypeOK, Sign
<1> QED  BY <1>1 DEF Inv, TypeOK, ServeInv, Sign, Lines, disk, process_vars, past

LEMMA StartInv == ASSUME Inv, Start PROVE Inv'
<1>1. pen = None /\ \A c \in Conn : conn[c].at = "free"
    BY DEF Inv, ServeInv, Start
<1>2. TypeOK'
    BY DEF Inv, TypeOK, Start, Lines, disk
<1>3. ServeInv'
    BY <1>1 DEF Inv, ServeInv, Start, disk
<1> QED  BY <1>2, <1>3 DEF Inv

LEMMA InstallInv == ASSUME Inv, InstallRules PROVE Inv'
<1>1. pen = None /\ \A c \in Conn : conn[c].at = "free"
    BY DEF Inv, ServeInv, InstallRules
<1>2. TypeOK'
    BY DEF Inv, TypeOK, InstallRules, Lines, disk, past
<1>3. ServeInv'
    BY <1>1 DEF Inv, ServeInv, InstallRules, disk
<1> QED  BY <1>2, <1>3 DEF Inv

\* The position in a chain that verifies
LEMMA PositionTyped ==
    ASSUME NEW lines \in File, Valid(lines) PROVE PositionOf(lines) \in Position
<1>1. CASE lines = <<>>
  <2>1. <<>> \in Seq(Record)
      OBVIOUS
  <2> QED  BY <1>1, <2>1 DEF PositionOf, Position
<1>2. CASE lines # <<>>
  <2> DEFINE last == lines[Len(lines)]
  <2>1. Len(lines) \in 1..Len(lines)
      BY <1>2 DEF File
  <2>2. last \in Entry \cup {Garbage} /\ last # Garbage
      BY <2>1 DEF File, Valid
  <2>3. last.seq \in Nat /\ last.prev \in Seq(Record) /\ last.rec \in Record
      BY <2>2 DEF Entry
  <2> HIDE DEF last
  <2>4. Append(last.prev, last.rec) \in Seq(Record) /\ last.seq + 1 \in Nat
      BY <2>3
  <2>5. PositionOf(lines) = [seq |-> last.seq + 1, latest |-> Append(last.prev, last.rec)]
      BY <1>2 DEF PositionOf, Hash, last
  <2> QED  BY <2>4, <2>5 DEF Position
<1> QED  BY <1>1, <1>2

LEMMA OpenInv == ASSUME Inv, OpenStore PROVE Inv'
<1>1. pen = None /\ \A c \in Conn : conn[c].at = "free"
    BY DEF Inv, ServeInv, OpenStore
<1>2. CASE file # None /\ ~Valid(file)
    BY <1>1, <1>2 DEF Inv, TypeOK, ServeInv, OpenStore, Lines, disk, past
<1>3. CASE ~(file # None /\ ~Valid(file))
  <2>1. Valid(Lines)
      BY <1>3 DEF Lines, Valid
  <2>2. store' \in Position
      BY <1>3, <2>1, LinesTyped, PositionTyped DEF Inv, OpenStore
  <2>3. TypeOK'
      BY <1>3, <2>2 DEF Inv, TypeOK, OpenStore, Lines, disk, past
  <2>4. ServeInv'
      BY <1>1, <2>2, NoneAssumption DEF Inv, ServeInv, OpenStore, disk
  <2> QED  BY <2>3, <2>4 DEF Inv
<1> QED  BY <1>2, <1>3

LEMMA DieInv == ASSUME Inv, NEW stopped \in BOOLEAN, Die(stopped) PROVE Inv'
<1>1. /\ process' = "down" /\ replay' = {} /\ store' = None /\ pen' = None
      /\ conn' = [c \in Conn |-> Idle] /\ faults' = faults + 1
      /\ rules' \in BOOLEAN /\ failed' \in BOOLEAN
      /\ UNCHANGED <<clock, issued, file, tail, synced, requests, admitted, answered, attested>>
    BY DEF Inv, TypeOK, Die, Gone, disk
<1>2. TypeOK'
    BY <1>1, IdleTyped DEF Inv, TypeOK, Lines
<1>3. ServeInv'
    BY <1>1, IdleTyped DEF Inv, ServeInv
<1> QED  BY <1>2, <1>3 DEF Inv

\* What a loss of power leaves of the file
LEMMA PowerLossFile ==
    ASSUME Inv, PowerLoss
    PROVE  \E kept \in synced..Len(Lines) :
              /\ kept \in Nat /\ SubSeq(Lines, 1, kept) \in File
              /\ Len(SubSeq(Lines, 1, kept)) = kept
              /\ \A i \in 1..kept : SubSeq(Lines, 1, kept)[i] = Lines[i]
              /\ \/ /\ file' = IF kept = 0 THEN None ELSE SubSeq(Lines, 1, kept)
                    /\ tail' = (tail /\ kept = Len(Lines)) /\ (tail' => Torn)
                    /\ synced' = kept /\ failed' = (failed \/ tail')
                 \/ /\ Torn /\ kept < Len(Lines)
                    /\ file' = Append(SubSeq(Lines, 1, kept), Garbage)
                    /\ tail' = TRUE /\ synced' = kept + 1 /\ failed' = TRUE
<1>1. PICK kept \in synced..Len(Lines) :
          \/ /\ file' = IF kept = 0 THEN None ELSE SubSeq(Lines, 1, kept)
             /\ tail' = (tail /\ kept = Len(Lines))
             /\ tail' => Torn
             /\ synced' = kept
             /\ failed' = (failed \/ tail')
          \/ /\ Torn /\ kept < Len(Lines)
             /\ file' = Append(SubSeq(Lines, 1, kept), Garbage)
             /\ tail' = TRUE
             /\ synced' = kept + 1
             /\ failed' = TRUE
    BY DEF PowerLoss
<1>2. Lines \in File /\ synced \in Nat
    BY LinesTyped DEF Inv, TypeOK
<1>3. kept \in Nat /\ kept \in 0..Len(Lines)
    BY <1>2 DEF File
<1>4. /\ SubSeq(Lines, 1, kept) \in File /\ Len(SubSeq(Lines, 1, kept)) = kept
      /\ \A i \in 1..kept : SubSeq(Lines, 1, kept)[i] = Lines[i]
  <2> DEFINE lines == Lines
  <2>1. lines \in Seq(Entry \cup {Garbage}) /\ kept \in 0..Len(lines)
      BY <1>2, <1>3 DEF File
  <2> HIDE DEF lines
  <2>2. /\ SubSeq(lines, 1, kept) \in Seq(Entry \cup {Garbage})
        /\ Len(SubSeq(lines, 1, kept)) = kept
        /\ \A i \in 1..kept : SubSeq(lines, 1, kept)[i] = lines[i]
      BY <2>1
  <2> QED  BY <2>2 DEF lines, File
<1> QED  BY <1>1, <1>3, <1>4

LEMMA PowerLossInv == ASSUME Inv, PowerLoss PROVE Inv'
<1>1. /\ process' = "down" /\ replay' = {} /\ store' = None /\ pen' = None
      /\ conn' = [c \in Conn |-> Idle] /\ faults' = faults + 1 /\ rules' = FALSE
      /\ UNCHANGED <<clock, issued, requests, admitted, answered, attested>>
    BY DEF PowerLoss, Gone
<1>2. /\ file' \in File \cup {None} /\ tail' \in BOOLEAN /\ failed' \in BOOLEAN
      /\ synced' \in 0..Len(Lines') /\ (tail' => file' # None)
      /\ (file' # None => Len(file') > 0)
  <2>1. PICK kept \in synced..Len(Lines) :
              /\ kept \in Nat /\ SubSeq(Lines, 1, kept) \in File
              /\ Len(SubSeq(Lines, 1, kept)) = kept
              /\ \/ /\ file' = IF kept = 0 THEN None ELSE SubSeq(Lines, 1, kept)
                    /\ tail' = (tail /\ kept = Len(Lines))
                    /\ synced' = kept /\ failed' = (failed \/ tail')
                 \/ /\ file' = Append(SubSeq(Lines, 1, kept), Garbage)
                    /\ tail' = TRUE /\ synced' = kept + 1 /\ failed' = TRUE
      BY PowerLossFile
  <2>2. None \notin File /\ tail \in BOOLEAN /\ failed \in BOOLEAN
        /\ (tail => Len(Lines) > 0)
      BY NoneAssumption DEF Inv, TypeOK, ServeInv, Lines
  <2> DEFINE part == SubSeq(Lines, 1, kept)
  <2> HIDE DEF part
  <2>3. part \in File /\ Len(part) = kept /\ part # None
      BY <2>1, <2>2 DEF part
  <2>4. Append(part, Garbage) \in File /\ Len(Append(part, Garbage)) = kept + 1
      BY <2>3 DEF File
  <2>5. CASE /\ file' = (IF kept = 0 THEN None ELSE part)
             /\ tail' = (tail /\ kept = Len(Lines))
             /\ synced' = kept /\ failed' = (failed \/ tail')
    <3>1. CASE kept = 0
      <4>1. file' = None /\ Len(Lines') = 0 /\ synced' = 0
          BY <2>5, <3>1 DEF Lines
      <4>2. ~(tail /\ kept = Len(Lines))
          BY <2>2, <3>1
      <4>3. tail' = FALSE
          BY <2>5, <4>2
      <4>4. failed' \in BOOLEAN
          BY <2>2, <2>5, <4>3
      <4>5. tail' \in BOOLEAN /\ (tail' => file' # None)
          BY <4>3, Zenon
      <4> QED  BY <4>1, <4>4, <4>5
    <3>2. CASE kept # 0
        BY <2>1, <2>2, <2>3, <2>5, <3>2 DEF Lines
    <3> QED  BY <3>1, <3>2
  <2>6. CASE /\ file' = Append(part, Garbage)
             /\ tail' = TRUE /\ synced' = kept + 1 /\ failed' = TRUE
    <3>1. file' \in File /\ file' # None /\ Len(file') = kept + 1 /\ Lines' = file'
        BY <2>2, <2>4, <2>6 DEF Lines
    <3> QED  BY <2>1, <2>6, <3>1
  <2> QED  BY <2>1, <2>5, <2>6 DEF part
<1>3. TypeOK'
  <2>1. conn' \in [Conn -> Connection]
      BY <1>1, IdleTyped
  <2>2. rules' \in BOOLEAN
      BY <1>1, Zenon
  <2>3. faults' \in Nat /\ replay' \subseteq Token
      BY <1>1 DEF Inv, TypeOK
  <2> QED  BY <1>1, <1>2, <2>1, <2>2, <2>3 DEF Inv, TypeOK
<1>4. ServeInv'
    BY <1>1, <1>2, IdleTyped DEF ServeInv
<1> QED  BY <1>3, <1>4 DEF Inv

-----------------------------------------------------------------------------
(* Connections and records *)

LEMMA ConnectInv ==
    ASSUME Inv, NEW c \in Conn, NEW t \in Token, Connect(c, t) PROVE Inv'
<1> DEFINE new == [Idle EXCEPT !.at = "checking", !.token = t, !.seen = clock]
<1>1. new \in Connection
    BY IdleTyped DEF Inv, TypeOK, Connection
<1>2. new.token = t
    BY IdleTyped DEF Connection
<1>3. /\ process = "up" /\ conn' = [conn EXCEPT ![c] = new]
      /\ UNCHANGED <<clock, issued, disk, process, rules, store, pen, faults,
                     answered, attested, failed>>
      /\ replay' \subseteq Token /\ requests' \in Nat /\ admitted' \in [Token -> Nat]
    BY DEF Inv, TypeOK, Connect, process_vars, past
<1> HIDE DEF new
<1> QED  BY <1>1, <1>2, <1>3, ConnTyped

LEMMA AdmitInv == ASSUME Inv, NEW c \in Conn, Admit(c) PROVE Inv'
<1> DEFINE t == conn[c].token
           cache == Fresh(conn[c].seen)
           new == IF t \in cache THEN Idle ELSE [conn[c] EXCEPT !.at = "serving"]
<1>1. /\ process = "up"
      /\ UNCHANGED <<clock, issued, disk, process, rules, store, pen, faults,
                     answered, attested, failed, requests>>
    BY DEF Inv, ServeInv, Admit
<1>2. /\ conn[c] \in Connection /\ t \in Token /\ cache \subseteq Token
      /\ admitted \in [Token -> Nat] /\ conn \in [Conn -> Connection] /\ requests \in Nat
    BY DEF Inv, TypeOK, ServeInv, Admit, Fresh
<1>3. new \in Connection /\ new.at # "checking"
    BY <1>2, IdleTyped DEF Connection
<1>4. conn' = [conn EXCEPT ![c] = new]
    BY <1>2 DEF Admit
<1>5. replay' \subseteq Token /\ admitted' \in [Token -> Nat]
    BY <1>2 DEF Admit
<1> HIDE DEF new
<1> QED  BY <1>1, <1>2, <1>3, <1>4, <1>5, ConnTyped

LEMMA HangUpInv == ASSUME Inv, NEW c \in Conn, HangUp(c) PROVE Inv'
<1>1. /\ process = "up" /\ conn' = [conn EXCEPT ![c] = Idle]
      /\ UNCHANGED <<clock, issued, disk, process, rules, store, pen, faults,
                     answered, attested, failed>>
      /\ replay' \subseteq Token /\ requests' \in Nat /\ admitted' \in [Token -> Nat]
    BY DEF Inv, TypeOK, ServeInv, HangUp, process_vars, past
<1> QED  BY <1>1, IdleTyped, ConnTyped

LEMMA RequestInv ==
    ASSUME Inv, NEW c \in Conn, NEW method \in Methods, Request(c, method) PROVE Inv'
<1> DEFINE new == IF method = "none" THEN conn[c]
                  ELSE [conn[c] EXCEPT !.at = method, !.request = requests + 1]
<1>1. conn[c] \in Connection /\ requests + 1 \in Nat
    BY DEF Inv, TypeOK
<1>2. new \in Connection
    BY <1>1 DEF Connection, Methods
<1>3. conn' = [conn EXCEPT ![c] = new]
    BY DEF Inv, TypeOK, Request
<1>4. /\ process = "up" /\ requests' \in Nat /\ replay' \subseteq Token
      /\ admitted' \in [Token -> Nat]
      /\ UNCHANGED <<clock, issued, disk, process, rules, store, pen, faults,
                     answered, attested, failed>>
    BY <1>1 DEF Inv, TypeOK, ServeInv, Request, process_vars, past
<1>5. new.at = "checking" => new.token \in Token
    BY <1>1 DEF Connection, Methods, Request
<1> HIDE DEF new
<1> QED  BY <1>2, <1>3, <1>4, <1>5, ConnTyped

\* The three kinds of answers
LEMMA RepliedInv ==
    ASSUME Inv, NEW c \in Conn, NEW reply \in Names, NEW digest \in Seq(Record),
           conn[c].at # "free", Replied(c, reply, digest),
           UNCHANGED <<clock, issued, disk, process_vars, requests, faults, past>>
    PROVE  Inv'
<1> DEFINE new == [conn[c] EXCEPT !.at = "recording", !.reply = reply, !.digest = digest]
<1>1. new \in Connection /\ new.at = "recording"
    BY DEF Inv, TypeOK, Connection
<1>2. conn' = [conn EXCEPT ![c] = new]
    BY DEF Inv, TypeOK, Replied
<1> HIDE DEF new
<1>3. /\ process = "up"
      /\ UNCHANGED <<clock, issued, disk, process, rules, store, pen, faults,
                     answered, attested, failed>>
      /\ replay' \subseteq Token /\ requests' \in Nat /\ admitted' \in [Token -> Nat]
    BY DEF Inv, TypeOK, ServeInv, process_vars, past
<1> QED  BY <1>1, <1>2, <1>3, ConnTyped

LEMMA ForwardInv ==
    ASSUME Inv, NEW c \in Conn, NEW reply \in Replies, Forward(c, reply) PROVE Inv'
<1>1. <<>> \in Seq(Record)
    OBVIOUS
<1>2. (IF conn[c].at = "other" THEN reply ELSE Injected(reply)) \in Names
    BY RepliesNamed DEF Injected, Names
<1> QED  BY <1>1, <1>2, RepliedInv DEF Forward

LEMMA StoreThere ==
    ASSUME Inv, process \in {"opening", "up"}
    PROVE  store \in Position /\ store.seq \in Nat /\ store.latest \in Seq(Record)
BY DEF Inv, TypeOK, ServeInv, Position

LEMMA AttestInv ==
    ASSUME Inv, NEW c \in Conn, NEW reply \in {"result", "error"}, Attest(c, reply)
    PROVE  Inv'
<1>1. <<>> \in Seq(Record) /\ reply \in Names
    BY DEF Names
<1>2. process = "up"
    BY DEF Inv, ServeInv, Attest
<1>3. (IF reply = "result" THEN store.latest ELSE <<>>) \in Seq(Record)
    BY <1>1, <1>2, StoreThere
<1> QED  BY <1>1, <1>3, RepliedInv DEF Attest

LEMMA VerifyInv == ASSUME Inv, NEW c \in Conn, Verify(c) PROVE Inv'
<1>1. <<>> \in Seq(Record) /\ (IF Valid(Lines) THEN "valid" ELSE "invalid") \in Names
    BY DEF Names
<1> QED  BY <1>1, RepliedInv DEF Verify

\* Whoever wants to write has a store to write to
LEMMA WriterServed ==
    ASSUME Inv, NEW who \in Conn \cup {Route}, Wants(who)
    PROVE  /\ process \in {"opening", "up"} /\ Line(Wanted(who)) \in Entry
           /\ (who = Route => process = "opening") /\ (who # Route => process = "up")
<1>1. (who = Route => process = "opening") /\ (who # Route => process = "up")
    BY ConstAssumption DEF Inv, ServeInv, Wants
<1>2. Line(Wanted(who)) \in Entry
    BY <1>1, StoreThere, WantedTyped DEF Inv, Line, Entry
<1> QED  BY <1>1, <1>2

\* A line at the end of the file, or into the torn line that is there
LEMMA LineWritten ==
    ASSUME Inv, NEW line \in Entry
    PROVE  /\ WithLine(line) \in File /\ WithLine(line) # None /\ Len(WithLine(line)) > 0
           /\ Len(WithLine(line)) >= Len(Lines)
<1>1. Lines \in Seq(Entry \cup {Garbage}) /\ None \notin File
    BY LinesTyped, NoneAssumption DEF Inv, File
<1>2. CASE tail
  <2>1. file \in Seq(Entry \cup {Garbage}) /\ Len(file) > 0 /\ Lines = file
      BY <1>2 DEF Inv, TypeOK, ServeInv, File, Lines
  <2>2. /\ [file EXCEPT ![Len(file)] = Garbage] \in Seq(Entry \cup {Garbage})
        /\ Len([file EXCEPT ![Len(file)] = Garbage]) = Len(file)
      BY <2>1
  <2> QED  BY <1>1, <1>2, <2>1, <2>2 DEF WithLine, File
<1>3. CASE ~tail
  <2> DEFINE lines == Lines
  <2>1. lines \in Seq(Entry \cup {Garbage})
      BY <1>1
  <2> HIDE DEF lines
  <2>2. /\ Append(lines, line) \in Seq(Entry \cup {Garbage})
        /\ Len(Append(lines, line)) = Len(lines) + 1 /\ Len(lines) \in Nat
      BY <2>1
  <2> QED  BY <1>1, <1>3, <2>2 DEF WithLine, File, lines
<1> QED  BY <1>2, <1>3

LEMMA WriteInv ==
    ASSUME Inv, NEW who \in Conn \cup {Route}, WriteLine(who) PROVE Inv'
<1> DEFINE line == Line(Wanted(who))
<1>1. /\ Wants(who) /\ pen' = [by |-> who, rec |-> Wanted(who)] /\ file' = WithLine(line)
      /\ tail' = TRUE
      /\ UNCHANGED <<clock, issued, synced, process, rules, replay, store, conn,
                     requests, faults, past>>
    BY DEF WriteLine
<1>2. /\ process \in {"opening", "up"} /\ line \in Entry
      /\ (who = Route => process = "opening") /\ (who # Route => process = "up")
    BY <1>1, WriterServed
<1>3. pen' \in Writing /\ pen'.by = who
    BY <1>1, WantedTyped DEF Inv, Writing
<1> HIDE DEF line
<1>4. file' \in File /\ file' # None /\ Len(file') > 0 /\ Len(file') >= Len(Lines)
    BY <1>1, <1>2, LineWritten
<1>5. synced' \in 0..Len(Lines')
    BY <1>1, <1>4, LinesTyped DEF Inv, TypeOK, Lines, File
<1>6. TypeOK'
    BY <1>1, <1>3, <1>4, <1>5 DEF Inv, TypeOK, past
<1>7. ServeInv'
    BY <1>1, <1>2, <1>3, <1>4 DEF Inv, ServeInv
<1> QED  BY <1>6, <1>7 DEF Inv

LEMMA EndLineInv == ASSUME Inv, EndLine PROVE Inv'
BY DEF Inv, TypeOK, ServeInv, EndLine, Lines, process_vars, past

LEMMA SyncInv == ASSUME Inv, SyncLine PROVE Inv'
<1>1. /\ pen \in Writing /\ pen # None /\ file # None /\ pen.rec \in Record
      /\ pen.by \in Conn \cup {Route}
    BY DEF Inv, TypeOK, ServeInv, SyncLine, Writing
<1>2. /\ process = IF pen.by = Route THEN "opening" ELSE "up"
    BY <1>1 DEF Inv, ServeInv
<1>3. store' \in Position
  <2> DEFINE latest == store.latest
  <2>1. latest \in Seq(Record) /\ store.seq \in Nat
      BY <1>2, StoreThere
  <2> HIDE DEF latest
  <2>2. Append(latest, pen.rec) \in Seq(Record) /\ store.seq + 1 \in Nat
      BY <1>1, <2>1
  <2> QED  BY <2>2 DEF SyncLine, Position, latest
<1>4. /\ UNCHANGED <<clock, issued, file, tail, rules, replay, requests, faults, admitted, failed>>
      /\ pen' = None /\ ~tail /\ synced' = Len(file) /\ process' = "up"
    BY <1>2 DEF SyncLine
<1>5. conn' \in [Conn -> Connection] /\ answered' \subseteq [request : Nat, reply : Names]
      /\ attested' \subseteq Seq(Record)
      /\ \A d \in Conn : conn'[d].at = "checking" => conn'[d].token \in Token
  <2>1. CASE pen.by = Route
      BY <2>1 DEF Inv, TypeOK, ServeInv, SyncLine
  <2>2. CASE pen.by # Route
    <3> DEFINE c == pen.by
    <3>1. c \in Conn /\ conn[c] \in Connection
        BY <1>1, <2>2 DEF Inv, TypeOK
    <3>2. conn[c].request \in Nat /\ conn[c].reply \in Names /\ conn[c].digest \in Seq(Record)
        BY <3>1 DEF Connection
    <3>3. Answered(c) \in Connection /\ Answered(c).at = "serving"
      <4>1. <<>> \in Seq(Record) /\ "none" \in Names
          BY DEF Names
      <4> QED  BY <3>1, <4>1 DEF Answered, Connection
    <3>4. Told(c) \in [request : Nat, reply : Names]
        BY <3>2 DEF Told
    <3>5. /\ conn' = [conn EXCEPT ![c] = Answered(c)] /\ answered' = answered \cup {Told(c)}
          /\ attested' = attested \cup
                            (IF conn[c].digest # <<>> THEN {conn[c].digest} ELSE {})
        BY <2>2 DEF SyncLine
    <3> HIDE DEF c
    <3> QED  BY <3>1, <3>2, <3>3, <3>4, <3>5 DEF Inv, TypeOK, ServeInv
  <2> QED  BY <2>1, <2>2
<1>6. synced' \in 0..Len(Lines')
    BY <1>1, <1>4 DEF Inv, TypeOK, Lines, File
<1>7. TypeOK'
    BY <1>3, <1>4, <1>5, <1>6 DEF Inv, TypeOK
<1>8. ServeInv'
  <2>1. store' # None
      BY <1>3, NoneAssumption
  <2> QED  BY <1>1, <1>4, <1>5, <2>1 DEF Inv, ServeInv
<1> QED  BY <1>7, <1>8 DEF Inv

LEMMA FailInv == ASSUME Inv, NEW partly \in BOOLEAN, AppendFails(partly) PROVE Inv'
<1>1. /\ pen \in Writing /\ pen # None /\ file # None /\ pen.by \in Conn \cup {Route}
      /\ file \in File /\ Len(file) > 0 /\ Lines = file
    BY DEF Inv, TypeOK, ServeInv, AppendFails, Writing, Lines
<1>2. file' \in File /\ file' # None /\ Len(file') = Len(file)
  <2>1. file \in Seq(Entry \cup {Garbage})
      BY <1>1 DEF File
  <2>2. /\ [file EXCEPT ![Len(file)] = Garbage] \in Seq(Entry \cup {Garbage})
        /\ Len([file EXCEPT ![Len(file)] = Garbage]) = Len(file)
      BY <1>1, <2>1
  <2> QED  BY <1>1, <2>2, NoneAssumption DEF AppendFails, File
<1>3. /\ pen' = None /\ failed' = TRUE
      /\ UNCHANGED <<clock, issued, tail, synced, rules, replay, requests,
                     admitted, answered, attested>>
    BY DEF AppendFails
<1>4. faults' \in Nat
    BY DEF Inv, TypeOK, AppendFails
<1>5. CASE pen.by = Route
  <2>1. process = "opening" /\ process' = "closed" /\ store' = None /\ conn' = conn
      BY <1>1, <1>5 DEF Inv, ServeInv, AppendFails
  <2>2. TypeOK'
      BY <1>1, <1>2, <1>3, <1>4, <2>1 DEF Inv, TypeOK, Lines
  <2>3. ServeInv'
      BY <1>1, <1>2, <1>3, <2>1 DEF Inv, ServeInv
  <2> QED  BY <2>2, <2>3 DEF Inv
<1>6. CASE pen.by # Route
  <2>1. process = "up" /\ process' = "up" /\ store' = store
        /\ conn' = [conn EXCEPT ![pen.by] = Idle]
      BY <1>1, <1>6 DEF Inv, ServeInv, AppendFails
  <2>2. conn' \in [Conn -> Connection]
      BY <2>1, IdleTyped DEF Inv, TypeOK
  <2>3. TypeOK'
      BY <1>1, <1>2, <1>3, <1>4, <2>1, <2>2 DEF Inv, TypeOK, Lines
  <2>4. \A d \in Conn : conn'[d].at = "checking" => conn'[d].token \in Token
      BY <2>1, IdleTyped DEF Inv, TypeOK, ServeInv
  <2>5. ServeInv'
      BY <1>1, <1>2, <1>3, <2>1, <2>4 DEF Inv, ServeInv
  <2> QED  BY <2>3, <2>5 DEF Inv
<1> QED  BY <1>5, <1>6

LEMMA NextInv == ASSUME Inv, Next PROVE Inv'
<1>1. {0, Skew + 1} \subseteq Nat
    BY ConstAssumption
<1>2. ASSUME NEW t \in Token, NEW ahead \in {0, Skew + 1}, Sign(t, ahead) PROVE Inv'
    BY <1>1, <1>2, SignInv
<1>3. ASSUME NEW c \in Conn, NEW t \in Token, Connect(c, t) PROVE Inv'
    BY <1>3, ConnectInv
<1>4. ASSUME NEW c \in Conn, NEW method \in Methods, Request(c, method) PROVE Inv'
    BY <1>4, RequestInv
<1>5. ASSUME NEW c \in Conn, NEW reply \in Replies, Forward(c, reply) PROVE Inv'
    BY <1>5, ForwardInv
<1>6. ASSUME NEW c \in Conn, NEW reply \in {"result", "error"}, Attest(c, reply) PROVE Inv'
    BY <1>6, AttestInv
<1>7. ASSUME NEW c \in Conn, Admit(c) \/ HangUp(c) \/ Verify(c) PROVE Inv'
    BY <1>7, AdmitInv, HangUpInv, VerifyInv
<1>8. ASSUME NEW who \in Conn \cup {Route}, WriteLine(who) PROVE Inv'
    BY <1>8, WriteInv
<1>9. ASSUME NEW b \in BOOLEAN, Die(b) \/ AppendFails(b) PROVE Inv'
    BY <1>9, DieInv, FailInv
<1> QED  BY <1>2, <1>3, <1>4, <1>5, <1>6, <1>7, <1>8, <1>9, TickInv, StartInv, InstallInv,
            OpenInv, PowerLossInv, EndLineInv, SyncInv DEF Next

\* A step that changes nothing
LEMMA SameInv == ASSUME Inv, UNCHANGED vars PROVE Inv'
BY DEF Inv, TypeOK, ServeInv, Lines, vars, disk, process_vars, past

-----------------------------------------------------------------------------
(* Tokens.  A token is admitted once since it stays in the cache until its   *)
(* expiry and the skew have passed, and since no thread compares with a time *)
(* older than the skew, which is assumed: MaxRest =< Skew.                   *)

CheckingInv ==
    \A c \in Conn : conn[c].at = "checking" =>
        LET t == conn[c].token IN
        /\ issued[t] # None /\ Exp(t) >= conn[c].seen
        /\ conn[c].seen =< clock /\ clock =< conn[c].seen + MaxRest

RememberedInv ==
    process # "down" => \A t \in Token :
        admitted[t] > 0 => issued[t] # None /\ (t \in replay \/ Exp(t) + Skew < clock)

TokenInv == CheckingInv /\ RememberedInv /\ AdmittedOnce

\* Steps that leave the tokens alone, and begin no check
LEMMA SameTokens ==
    ASSUME Inv, TokenInv, UNCHANGED <<clock, issued, replay, admitted>>,
           process = "down" => process' = "down",
           \A c \in Conn : conn'[c] = conn[c] \/ conn'[c].at # "checking"
    PROVE  TokenInv'
BY DEF TokenInv, CheckingInv, RememberedInv, AdmittedOnce, Exp

\* Steps that end the process
LEMMA GoneTokens ==
    ASSUME TokenInv, process' = "down", UNCHANGED admitted, conn' = [c \in Conn |-> Idle]
    PROVE  TokenInv'
BY IdleTyped DEF TokenInv, CheckingInv, RememberedInv, AdmittedOnce

\* One connection changes, and begins no check
LEMMA OneConn ==
    ASSUME Inv, NEW c \in Conn, NEW new, conn' = [conn EXCEPT ![c] = new], new.at # "checking"
    PROVE  \A d \in Conn : conn'[d] = conn[d] \/ conn'[d].at # "checking"
BY DEF Inv, TypeOK

LEMMA AdmitTokens ==
    ASSUME MaxRest =< Skew, Inv, TokenInv, NEW c \in Conn, Admit(c) PROVE TokenInv'
<1> DEFINE t == conn[c].token
           now == conn[c].seen
<1>1. /\ conn[c].at = "checking" /\ t \in Token /\ now \in Nat /\ clock \in Nat /\ Skew \in Nat
      /\ Ttl \in Nat /\ replay \subseteq Token /\ admitted \in [Token -> Nat]
      /\ conn \in [Conn -> Connection] /\ issued \in [Token -> Nat \cup {None}]
      /\ UNCHANGED <<clock, issued, process>>
    BY ConstAssumption DEF Inv, TypeOK, ServeInv, Connection, Admit
<1>2. issued[t] \in Nat /\ Exp(t) >= now /\ now =< clock /\ clock =< now + Skew
    BY <1>1, ConstAssumption DEF TokenInv, CheckingInv
<1>3. process # "down"
    BY <1>1 DEF Inv, ServeInv
<1>4. \A d \in Conn : conn'[d] = conn[d] \/ conn'[d].at # "checking"
  <2>1. CASE conn' = [conn EXCEPT ![c] = Idle]
      BY <2>1, OneConn, IdleTyped
  <2>2. CASE conn' = [conn EXCEPT ![c].at = "serving"]
      BY <1>1, <2>2 DEF Connection
  <2> QED  BY <2>1, <2>2 DEF Admit
<1>5. CheckingInv'
    BY <1>1, <1>4 DEF TokenInv, CheckingInv, Exp
\* what was forgotten is too old for every thread
<1>6. \A j \in Token : admitted[j] > 0 /\ j \notin Fresh(now) => Exp(j) + Skew < clock
  <2> SUFFICES ASSUME NEW j \in Token, admitted[j] > 0, j \notin Fresh(now)
               PROVE  Exp(j) + Skew < clock
      OBVIOUS
  <2>1. issued[j] \in Nat /\ (j \in replay \/ Exp(j) + Skew < clock)
      BY <1>1, <1>3 DEF TokenInv, RememberedInv
  <2>2. Exp(j) \in Nat
      BY <1>1, <2>1 DEF Exp
  <2>3. CASE j \in replay
    <3>1. ~(Exp(j) + Skew >= now)
        BY <2>3 DEF Fresh
    <3> QED  BY <1>1, <1>2, <2>2, <3>1
  <2> QED  BY <2>1, <2>3
<1>7. CASE t \in Fresh(now)
  <2>1. replay' = Fresh(now) /\ admitted' = admitted
      BY <1>7 DEF Admit
  <2>2. RememberedInv'
      BY <1>1, <1>3, <1>6, <2>1 DEF TokenInv, RememberedInv, Exp
  <2> QED  BY <1>5, <2>1, <2>2 DEF TokenInv, AdmittedOnce
<1>8. CASE t \notin Fresh(now)
  <2>1. replay' = Fresh(now) \cup {t} /\ admitted' = [admitted EXCEPT ![t] = @ + 1]
      BY <1>8 DEF Admit
  <2>2. admitted[t] = 0
    <3>1. SUFFICES ASSUME admitted[t] > 0 PROVE FALSE
        BY <1>1
    <3>2. Exp(t) + Skew < clock /\ Exp(t) \in Nat
        BY <1>1, <1>2, <1>6, <1>8, <3>1 DEF Exp
    <3> QED  BY <1>1, <1>2, <3>2
  <2>3. admitted'[t] = 1 /\ \A j \in Token \ {t} : admitted'[j] = admitted[j]
      BY <1>1, <2>1, <2>2
  <2>4. RememberedInv'
      BY <1>1, <1>2, <1>3, <1>6, <2>1, <2>3, ConstAssumption DEF TokenInv, RememberedInv, Exp
  <2> QED  BY <1>5, <2>3, <2>4 DEF TokenInv, AdmittedOnce
<1> QED  BY <1>7, <1>8

LEMMA NextTokens == ASSUME MaxRest =< Skew, Inv, TokenInv, Next PROVE TokenInv'
<1>1. CASE Tick
  <2>1. clock \in Nat /\ clock' = clock + 1 /\ UNCHANGED <<issued, replay, admitted, conn, process>>
      BY <1>1 DEF Tick, process_vars, past, Inv, TypeOK
  <2>2. \A c \in Conn : conn[c].seen \in Nat
      BY DEF Inv, TypeOK, Connection
  <2>3. CheckingInv'
      BY <1>1, <2>1, <2>2, ConstAssumption DEF TokenInv, CheckingInv, Exp, Tick
  <2>4. RememberedInv'
    <3>1. \A t \in Token : issued[t] # None => Exp(t) + Skew \in Nat
        BY ConstAssumption DEF Inv, TypeOK, Exp
    <3> QED  BY <2>1, <3>1 DEF TokenInv, RememberedInv, Exp
  <2> QED  BY <2>1, <2>3, <2>4 DEF TokenInv, AdmittedOnce
<1>2. ASSUME NEW t \in Token, NEW ahead \in Nat, Sign(t, ahead) PROVE TokenInv'
  <2>1. /\ issued[t] = None /\ \A j \in Token \ {t} : issued'[j] = issued[j]
        /\ UNCHANGED <<clock, replay, admitted, conn, process>>
      BY <1>2 DEF Sign, process_vars, past, Inv, TypeOK
  <2>2. CheckingInv'
      BY <2>1 DEF TokenInv, CheckingInv, Exp, Inv, ServeInv
  <2>3. RememberedInv'
      BY <2>1 DEF TokenInv, RememberedInv, Exp
  <2> QED  BY <2>1, <2>2, <2>3 DEF TokenInv, AdmittedOnce
<1>3. CASE Start
  <2>1. \A t \in Token : admitted'[t] = 0
      BY <1>3 DEF Start
  <2> QED  BY <1>3, <2>1 DEF Start, TokenInv, CheckingInv, RememberedInv, AdmittedOnce, Exp
<1>4. CASE InstallRules \/ OpenStore
    BY <1>4, SameTokens DEF InstallRules, OpenStore, past
<1>5. CASE PowerLoss \/ \E stopped \in BOOLEAN : Die(stopped)
    BY <1>5, GoneTokens DEF PowerLoss, Die, Gone
<1>6. ASSUME NEW c \in Conn, NEW t \in Token, Connect(c, t) PROVE TokenInv'
  <2> DEFINE new == [Idle EXCEPT !.at = "checking", !.token = t, !.seen = clock]
  <2>1. new.at = "checking" /\ new.token = t /\ new.seen = clock
      BY IdleTyped DEF Connection
  <2>2. /\ conn' = [conn EXCEPT ![c] = new] /\ issued[t] # None /\ Exp(t) >= clock
        /\ UNCHANGED <<clock, issued, replay, admitted, process>>
      BY <1>6 DEF Connect, process_vars, past
  <2> HIDE DEF new
  <2>3. CheckingInv'
      BY <2>1, <2>2, ConstAssumption DEF TokenInv, CheckingInv, Exp, Inv, TypeOK
  <2> QED  BY <2>2, <2>3 DEF TokenInv, RememberedInv, AdmittedOnce, Exp
<1>7. ASSUME NEW c \in Conn, Admit(c) PROVE TokenInv'
    BY <1>7, AdmitTokens
<1>8. ASSUME NEW c \in Conn,
             \/ HangUp(c) \/ Verify(c)
             \/ \E method \in Methods : Request(c, method)
             \/ \E reply \in Replies : Forward(c, reply)
             \/ \E reply \in {"result", "error"} : Attest(c, reply)
      PROVE  TokenInv'
  <2>1. UNCHANGED <<clock, issued, replay, admitted, process>>
      BY <1>8 DEF HangUp, Verify, Request, Forward, Attest, process_vars, past
  <2>2. \A d \in Conn : conn'[d] = conn[d] \/ conn'[d].at # "checking"
    <3>1. CASE HangUp(c)
        BY <3>1, IdleTyped, OneConn DEF HangUp
    <3>2. ASSUME NEW reply, NEW digest, Replied(c, reply, digest)
          PROVE  \A d \in Conn : conn'[d] = conn[d] \/ conn'[d].at # "checking"
      <4> DEFINE new == [conn[c] EXCEPT !.at = "recording", !.reply = reply, !.digest = digest]
      <4>1. new.at = "recording"
          BY DEF Inv, TypeOK, Connection
      <4>2. conn' = [conn EXCEPT ![c] = new]
          BY <3>2 DEF Replied, Inv, TypeOK
      <4> HIDE DEF new
      <4> QED  BY <4>1, <4>2, OneConn
    <3>3. ASSUME NEW method \in Methods, Request(c, method)
          PROVE  \A d \in Conn : conn'[d] = conn[d] \/ conn'[d].at # "checking"
      <4>1. CASE method = "none"
          BY <3>3, <4>1 DEF Request
      <4>2. CASE method # "none"
        <5> DEFINE new == [conn[c] EXCEPT !.at = method, !.request = requests + 1]
        <5>1. new.at = method /\ method # "checking"
            BY DEF Inv, TypeOK, Connection, Methods
        <5>2. conn' = [conn EXCEPT ![c] = new]
            BY <3>3, <4>2 DEF Request, Inv, TypeOK
        <5> HIDE DEF new
        <5> QED  BY <5>1, <5>2, OneConn
      <4> QED  BY <4>1, <4>2
    <3>4. (\E reply, digest : Replied(c, reply, digest)) \/ HangUp(c)
              \/ \E method \in Methods : Request(c, method)
        BY <1>8 DEF Verify, Forward, Attest
    <3> QED  BY <3>1, <3>2, <3>3, <3>4
  <2> QED  BY <2>1, <2>2, SameTokens
<1>9. CASE EndLine \/ \E who \in Conn \cup {Route} : WriteLine(who)
    BY <1>9, SameTokens DEF EndLine, WriteLine, process_vars, past
<1>10. CASE SyncLine \/ \E partly \in BOOLEAN : AppendFails(partly)
  <2>1. UNCHANGED <<clock, issued, replay, admitted>> /\ (process = "down" => process' = "down")
        /\ \A d \in Conn : conn'[d] = conn[d] \/ conn'[d].at # "checking"
    <3>1. CASE SyncLine
      <4>1. pen # None /\ pen.by \in Conn \cup {Route}
          BY <3>1 DEF SyncLine, Inv, TypeOK, Writing
      <4>2. ASSUME NEW c \in Conn PROVE Answered(c).at = "serving"
          BY DEF Answered, Inv, TypeOK, Connection
      <4>3. process # "down"
          BY <4>1 DEF Inv, ServeInv
      <4> QED  BY <3>1, <4>1, <4>2, <4>3, OneConn DEF SyncLine
    <3>2. ASSUME NEW partly \in BOOLEAN, AppendFails(partly)
          PROVE  <2>1
      <4>1. pen # None /\ pen.by \in Conn \cup {Route}
          BY <3>2 DEF AppendFails, Inv, TypeOK, Writing
      <4>2. process # "down"
          BY <4>1 DEF Inv, ServeInv
      <4> QED  BY <3>2, <4>1, <4>2, IdleTyped, OneConn DEF AppendFails
    <3> QED  BY <1>10, <3>1, <3>2
  <2> QED  BY <2>1, SameTokens
<1> QED  BY <1>1, <1>2, <1>3, <1>4, <1>5, <1>6, <1>7, <1>8, <1>9, <1>10, ConstAssumption DEF Next

-----------------------------------------------------------------------------
(* The chain: as long as no append was cut short, the store stands behind   *)
(* the last line, or behind the last but one while that one is written.     *)

\* The line being written continues the chain at the position of the store
PenInv ==
    pen # None => /\ Len(Lines) > 0
                  /\ Lines[Len(Lines)] = [seq |-> store.seq, prev |-> store.latest,
                                          rec |-> pen.rec]

ChainInv ==
    ~failed => /\ Valid(Lines) /\ PenInv
               /\ tail => pen # None
               /\ store # None /\ pen = None => store = PositionOf(Lines)

LEMMA EntryReadable == ASSUME NEW line \in Entry PROVE line # Garbage
<1>1. "seq" \in DOMAIN line /\ "seq" \notin DOMAIN Garbage
    BY DEF Entry, Garbage
<1> QED  BY <1>1

LEMMA AppendedLine ==
    ASSUME NEW lines \in File, NEW line \in Entry
    PROVE  /\ Append(lines, line) \in File /\ Len(Append(lines, line)) = Len(lines) + 1
           /\ Len(lines) \in Nat /\ Append(lines, line)[Len(lines) + 1] = line
           /\ \A i \in 1..Len(lines) : Append(lines, line)[i] = lines[i]
BY DEF File

LEMMA ValidAppend ==
    ASSUME NEW lines \in File, NEW line \in Entry, Valid(lines),
           line.seq = PositionOf(lines).seq, line.prev = PositionOf(lines).latest
    PROVE  Valid(Append(lines, line))
<1> DEFINE longer == Append(lines, line)
           n == Len(lines)
<1>1. /\ Len(longer) = n + 1 /\ n \in Nat /\ longer[n + 1] = line
      /\ \A i \in 1..n : longer[i] = lines[i]
    BY AppendedLine
<1> HIDE DEF longer
<1>2. line.seq = n /\ line.prev = IF n = 0 THEN <<>> ELSE Hash(lines[n])
  <2>1. CASE lines = <<>>
      BY <2>1 DEF PositionOf
  <2>2. CASE lines # <<>>
    <3>1. n \in 1..n
        BY <1>1, <2>2 DEF File
    <3>2. lines[n] \in Entry \cup {Garbage} /\ lines[n] # Garbage /\ lines[n].seq = n - 1
        BY <3>1 DEF File, Valid
    <3>3. PositionOf(lines) = [seq |-> lines[n].seq + 1, latest |-> Hash(lines[n])]
        BY <2>2 DEF PositionOf
    <3> HIDE DEF n
    <3>4. line.seq = (n - 1) + 1 /\ line.prev = Hash(lines[n])
        BY <3>2, <3>3
    <3> QED  BY <1>1, <3>1, <3>4
  <2> QED  BY <2>1, <2>2
<1>3. ASSUME NEW i \in 1..(n + 1)
      PROVE  /\ longer[i] # Garbage /\ longer[i].seq = i - 1
             /\ longer[i].prev = IF i = 1 THEN <<>> ELSE Hash(longer[i - 1])
  <2>1. CASE i \in 1..n
    <3>1. longer[i] = lines[i] /\ (i # 1 => longer[i - 1] = lines[i - 1])
        BY <1>1, <2>1
    <3>2. /\ lines[i] # Garbage /\ lines[i].seq = i - 1
          /\ lines[i].prev = IF i = 1 THEN <<>> ELSE Hash(lines[i - 1])
        BY <2>1 DEF Valid
    <3> QED  BY <3>1, <3>2
  <2>2. CASE i = n + 1
    <3>1. longer[i] = line /\ i - 1 = n /\ (n # 0 => longer[n] = lines[n])
        BY <1>1, <2>2
    <3>2. (i = 1) <=> (n = 0)
        BY <1>1, <2>2
    <3> HIDE DEF n
    <3> QED  BY <1>2, <3>1, <3>2, EntryReadable
  <2> QED  BY <1>1, <2>1, <2>2
<1> QED  BY <1>1, <1>3 DEF Valid, longer

LEMMA PositionAppend ==
    ASSUME NEW lines \in File, NEW line \in Entry
    PROVE  PositionOf(Append(lines, line))
             = [seq |-> line.seq + 1, latest |-> Append(line.prev, line.rec)]
<1> DEFINE longer == Append(lines, line)
<1>1. Len(longer) = Len(lines) + 1 /\ Len(lines) \in Nat /\ longer[Len(lines) + 1] = line
    BY AppendedLine
<1> HIDE DEF longer
<1>2. longer # <<>> /\ longer[Len(longer)] = line
    BY <1>1
<1> QED  BY <1>2 DEF PositionOf, Hash, longer

LEMMA ValidPrefix ==
    ASSUME NEW lines, NEW part, Valid(lines), Len(lines) \in Nat, Len(part) \in 0..Len(lines),
           \A i \in 1..Len(part) : part[i] = lines[i]
    PROVE  Valid(part)
<1> SUFFICES ASSUME NEW i \in 1..Len(part)
             PROVE  /\ part[i] # Garbage /\ part[i].seq = i - 1
                    /\ part[i].prev = IF i = 1 THEN <<>> ELSE Hash(part[i - 1])
    BY DEF Valid
<1>1. i \in 1..Len(lines) /\ part[i] = lines[i] /\ (i # 1 => part[i - 1] = lines[i - 1])
    OBVIOUS
<1> QED  BY <1>1 DEF Valid

LEMMA SameChain ==
    ASSUME ChainInv, UNCHANGED <<file, tail, store, pen, failed>> PROVE ChainInv'
BY DEF ChainInv, PenInv, Lines

\* A record that follows whole lines
LEMMA WrittenAfter ==
    ASSUME Inv, NEW who \in Conn \cup {Route}, WriteLine(who), ~tail
    PROVE  LET line == Line(Wanted(who)) IN
           /\ line \in Entry /\ Lines \in File /\ Lines' = Append(Lines, line)
           /\ store \in Position /\ UNCHANGED store /\ pen'.rec = Wanted(who)
           /\ line.seq = store.seq /\ line.prev = store.latest /\ line.rec = Wanted(who)
<1> DEFINE line == Line(Wanted(who))
<1>1. /\ line \in Entry /\ process \in {"opening", "up"}
    BY WriterServed DEF WriteLine
<1>2. Lines \in File /\ None \notin File /\ store \in Position
    BY <1>1, LinesTyped, StoreThere, NoneAssumption DEF Inv
<1>3. file' = Append(Lines, line)
    BY DEF WriteLine, WithLine
<1>4. Lines' = Append(Lines, line)
  <2>1. Append(Lines, line) # None
      BY <1>1, <1>2, AppendedLine
  <2> HIDE DEF line
  <2> QED  BY <1>3, <2>1 DEF Lines
<1>5. UNCHANGED store /\ pen'.rec = Wanted(who)
    BY DEF WriteLine
<1> QED  BY <1>1, <1>2, <1>4, <1>5 DEF Line

LEMMA PenAfterWrite ==
    ASSUME Inv, NEW who \in Conn \cup {Route}, WriteLine(who), ~tail PROVE PenInv'
<1> DEFINE line == Line(Wanted(who))
<1>1. /\ line \in Entry /\ Lines \in File /\ Lines' = Append(Lines, line)
      /\ UNCHANGED store /\ pen'.rec = Wanted(who)
      /\ line = [seq |-> store.seq, prev |-> store.latest, rec |-> Wanted(who)]
    BY WrittenAfter DEF Line
<1> HIDE DEF line
<1>2. Len(Lines') = Len(Lines) + 1 /\ Len(Lines) \in Nat /\ Lines'[Len(Lines) + 1] = line
    BY <1>1, AppendedLine
<1> QED  BY <1>1, <1>2 DEF PenInv

\* The store after the line is on disk
LEMMA StoreAfterSync ==
    ASSUME Inv, SyncLine, PenInv
    PROVE  /\ store' = PositionOf(Lines) /\ Lines' = Lines /\ Lines[Len(Lines)] \in Entry
           /\ Len(Lines) \in Nat \ {0} /\ Lines[Len(Lines)].rec = pen.rec
           /\ store'.latest = Hash(Lines[Len(Lines)])
<1>1. /\ pen # None /\ pen.rec \in Record
      /\ store' = [seq |-> store.seq + 1, latest |-> Append(store.latest, pen.rec)]
      /\ Lines' = Lines /\ process \in {"opening", "up"}
    BY DEF SyncLine, Inv, TypeOK, ServeInv, Writing, Lines
<1>2. store.seq \in Nat /\ store.latest \in Seq(Record)
    BY <1>1, StoreThere
<1> DEFINE last == Lines[Len(Lines)]
<1>3. /\ Len(Lines) > 0 /\ last = [seq |-> store.seq, prev |-> store.latest, rec |-> pen.rec]
    BY <1>1 DEF PenInv
<1>4. Lines \in File
    BY LinesTyped DEF Inv
<1>5. Lines # <<>> /\ Len(Lines) \in Nat \ {0}
    BY <1>3, <1>4 DEF File
<1>6. PositionOf(Lines) = [seq |-> last.seq + 1, latest |-> Hash(last)]
    BY <1>5 DEF PositionOf
<1> HIDE DEF last
<1>7. /\ last \in Entry /\ last.rec = pen.rec /\ last.seq = store.seq
      /\ Hash(last) = Append(store.latest, pen.rec)
    BY <1>1, <1>2, <1>3 DEF Entry, Hash
<1> QED  BY <1>1, <1>5, <1>6, <1>7 DEF last

LEMMA NextChain == ASSUME Inv, ChainInv, Next PROVE ChainInv'
<1>1. CASE \/ Tick \/ Start \/ InstallRules
           \/ \E t \in Token, ahead \in {0, Skew + 1} : Sign(t, ahead)
           \/ \E c \in Conn :
                 \/ \E t \in Token : Connect(c, t)
                 \/ Admit(c) \/ HangUp(c) \/ Verify(c)
                 \/ \E method \in Methods : Request(c, method)
                 \/ \E reply \in Replies : Forward(c, reply)
                 \/ \E reply \in {"result", "error"} : Attest(c, reply)
  <2>1. UNCHANGED <<file, tail, store, pen, failed>>
      BY <1>1 DEF Tick, Start, InstallRules, Sign, Connect, Admit, HangUp, Verify, Request,
                  Forward, Attest, disk, process_vars, past
  <2> QED  BY <2>1, SameChain
<1>2. CASE OpenStore
  <2>1. pen = None /\ Lines' = Lines /\ UNCHANGED <<file, tail, pen, failed>>
      BY <1>2 DEF OpenStore, Inv, ServeInv, Lines, disk, past
  <2>2. store' = store \/ store' = PositionOf(Lines)
      BY <1>2 DEF OpenStore
  <2> QED  BY <2>1, <2>2 DEF ChainInv, PenInv
<1>3. CASE \E stopped \in BOOLEAN : Die(stopped)
  <2>1. /\ store' = None /\ pen' = None /\ Lines' = Lines /\ tail' = tail
        /\ failed' = (failed \/ tail)
      BY <1>3 DEF Die, Gone, Lines, disk
  <2> QED  BY <2>1 DEF ChainInv, PenInv
<1>4. CASE PowerLoss
  <2>1. store' = None /\ pen' = None
      BY <1>4 DEF PowerLoss, Gone
  <2>2. PICK kept \in synced..Len(Lines) :
              /\ kept \in Nat /\ SubSeq(Lines, 1, kept) \in File
              /\ Len(SubSeq(Lines, 1, kept)) = kept
              /\ \A i \in 1..kept : SubSeq(Lines, 1, kept)[i] = Lines[i]
              /\ \/ /\ file' = IF kept = 0 THEN None ELSE SubSeq(Lines, 1, kept)
                    /\ failed' = (failed \/ tail')
                 \/ failed' = TRUE
      BY <1>4, PowerLossFile
  <2> DEFINE part == SubSeq(Lines, 1, kept)
  <2>3. SUFFICES ASSUME ~failed' PROVE Valid(Lines') /\ ~tail'
      BY <2>1 DEF ChainInv, PenInv
  <2>4. ~failed /\ ~tail' /\ file' = IF kept = 0 THEN None ELSE part
      BY <2>2, <2>3
  <2>5. Len(Lines) \in Nat /\ kept \in 0..Len(Lines)
      BY <2>2, LinesTyped DEF Inv, File
  <2> HIDE DEF part
  <2>6. part \in File /\ Len(part) = kept /\ \A i \in 1..kept : part[i] = Lines[i]
      BY <2>2 DEF part
  <2>7. Valid(part)
      BY <2>4, <2>5, <2>6, ValidPrefix DEF ChainInv
  <2>8. Lines' = <<>> \/ Lines' = part
      BY <2>4 DEF Lines
  <2> QED  BY <2>4, <2>7, <2>8 DEF Valid
<1>5. ASSUME NEW who \in Conn \cup {Route}, WriteLine(who) PROVE ChainInv'
  <2>1. SUFFICES ASSUME ~failed
                 PROVE  Valid(Lines') /\ PenInv' /\ pen' # None
      BY <1>5 DEF ChainInv, WriteLine, past
  <2>2. ~tail /\ pen = None /\ Valid(Lines) /\ (store # None => store = PositionOf(Lines))
      BY <1>5, <2>1 DEF ChainInv, WriteLine
  <2> DEFINE line == Line(Wanted(who))
  <2>3. /\ line \in Entry /\ Lines \in File /\ Lines' = Append(Lines, line)
        /\ store \in Position /\ line.seq = store.seq /\ line.prev = store.latest
      BY <1>5, <2>2, WrittenAfter
  <2>4. store = PositionOf(Lines)
      BY <2>2, <2>3, NoneAssumption
  <2> HIDE DEF line
  <2>5. Valid(Append(Lines, line))
      BY <2>2, <2>3, <2>4, ValidAppend
  <2>6. PenInv'
      BY <1>5, <2>2, PenAfterWrite
  <2>7. pen' # None
    <3>1. pen' \in Writing
        BY <1>5, WantedTyped DEF Inv, WriteLine, Writing
    <3> QED  BY <3>1, NoneAssumption
  <2> QED  BY <2>3, <2>5, <2>6, <2>7
<1>6. CASE EndLine
  <2>1. UNCHANGED <<store, pen, failed>> /\ Lines' = Lines /\ tail' = FALSE /\ pen # None
      BY <1>6 DEF EndLine, Lines, process_vars, past
  <2> QED  BY <2>1 DEF ChainInv, PenInv
<1>7. CASE SyncLine
  <2>1. SUFFICES ASSUME ~failed
                 PROVE  Valid(Lines') /\ pen' = None /\ ~tail' /\ store' = PositionOf(Lines')
      BY <1>7 DEF ChainInv, PenInv, SyncLine
  <2>2. Valid(Lines) /\ PenInv
      BY <2>1 DEF ChainInv
  <2>3. store' = PositionOf(Lines) /\ Lines' = Lines
      BY <1>7, <2>2, StoreAfterSync
  <2> QED  BY <1>7, <2>2, <2>3 DEF SyncLine
<1>8. CASE \E partly \in BOOLEAN : AppendFails(partly)
    BY <1>8 DEF AppendFails, ChainInv
<1> QED  BY <1>1, <1>2, <1>3, <1>4, <1>5, <1>6, <1>7, <1>8 DEF Next

-----------------------------------------------------------------------------
(* What was told.  Answers and attested digests lie within what fsync has   *)
(* covered, and no step touches that; a digest about to be told is one of   *)
(* the file as it is, and its own record makes the file durable up to there. *)

RecordedIn(rec, n) == \E i \in 1..n : Lines[i] # Garbage /\ Lines[i].rec = rec
HashedIn(d, n) == \E i \in 1..n : Lines[i] # Garbage /\ Hash(Lines[i]) = d

\* Nobody else's record is written for a connection that waits for its own
WriterInv ==
    pen # None => \A c \in Conn : pen.by = c =>
        conn[c].at = "recording" /\ pen.rec = RecordOf(conn[c].request, conn[c].reply)

DigestInv ==
    /\ \A c \in Conn : conn[c].digest # <<>> => HashedIn(conn[c].digest, Len(Lines))
    /\ store # None => store.latest = <<>> \/ HashedIn(store.latest, Len(Lines))

DurableInv ==
    /\ \A a \in answered : RecordedIn(RecordOf(a.request, a.reply), synced)
    /\ \A d \in attested : HashedIn(d, synced)

ToldInv == PenInv /\ (tail => pen # None) /\ WriterInv /\ DigestInv /\ DurableInv

\* Lines that stay where they are
LEMMA StillIn ==
    ASSUME NEW n \in Nat, NEW m \in Nat, n =< m, \A i \in 1..n : Lines'[i] = Lines[i]
    PROVE  /\ \A rec : RecordedIn(rec, n) =>
                \E i \in 1..m : Lines'[i] # Garbage /\ Lines'[i].rec = rec
           /\ \A d : HashedIn(d, n) =>
                \E i \in 1..m : Lines'[i] # Garbage /\ Hash(Lines'[i]) = d
<1>1. 1..n \subseteq 1..m
    OBVIOUS
<1> QED  BY <1>1 DEF RecordedIn, HashedIn

LEMMA StillDurable ==
    ASSUME Inv, ToldInv, UNCHANGED <<answered, attested>>, synced' \in Nat, synced =< synced',
           \A i \in 1..synced : Lines'[i] = Lines[i]
    PROVE  DurableInv'
<1>1. synced \in Nat
    BY LinesTyped DEF Inv, TypeOK, File
<1> QED  BY <1>1, StillIn DEF ToldInv, DurableInv, RecordedIn, HashedIn

LEMMA SameTold ==
    ASSUME Inv, ToldInv, UNCHANGED <<file, tail, synced, store, pen, answered, attested>>,
           \A c \in Conn : /\ conn[c].at = "recording" => conn'[c] = conn[c]
                           /\ conn'[c].digest # <<>> =>
                                \/ conn'[c].digest = conn[c].digest
                                \/ store # None /\ conn'[c].digest = store.latest
    PROVE  ToldInv'
<1>1. Lines' = Lines
    BY DEF Lines
<1>2. PenInv' /\ (tail' => pen' # None)
    BY <1>1 DEF ToldInv, PenInv
<1>3. WriterInv'
    BY DEF ToldInv, WriterInv
<1>4. DigestInv'
    BY <1>1 DEF ToldInv, DigestInv, HashedIn
<1>5. DurableInv'
    BY <1>1 DEF ToldInv, DurableInv, RecordedIn, HashedIn
<1> QED  BY <1>2, <1>3, <1>4, <1>5 DEF ToldInv

\* One connection changes, and not one that waits for its record
LEMMA OneTold ==
    ASSUME Inv, ToldInv, UNCHANGED <<file, tail, synced, store, pen, answered, attested>>,
           NEW c \in Conn, NEW new \in Connection, conn' = [conn EXCEPT ![c] = new],
           conn[c].at # "recording",
           \/ new.digest \in {<<>>, conn[c].digest}
           \/ store # None /\ new.digest = store.latest
    PROVE  ToldInv'
<1>1. \A d \in Conn : conn'[d] = IF d = c THEN new ELSE conn[d]
    BY DEF Inv, TypeOK
<1> QED  BY <1>1, SameTold

LEMMA RepliedTold ==
    ASSUME Inv, ToldInv, NEW c \in Conn, NEW reply \in Names, NEW digest \in Seq(Record),
           conn[c].at # "recording", Replied(c, reply, digest),
           UNCHANGED <<file, tail, synced, store, pen, answered, attested>>,
           digest = <<>> \/ (store # None /\ digest = store.latest)
    PROVE  ToldInv'
<1> DEFINE new == [conn[c] EXCEPT !.at = "recording", !.reply = reply, !.digest = digest]
<1>1. new \in Connection /\ new.digest = digest
    BY DEF Inv, TypeOK, Connection
<1>2. conn' = [conn EXCEPT ![c] = new]
    BY DEF Inv, TypeOK, Replied
<1> HIDE DEF new
<1> QED  BY <1>1, <1>2, OneTold

LEMMA GoneTold ==
    ASSUME ToldInv, pen' = None, store' = None, conn' = [c \in Conn |-> Idle], ~tail', DurableInv'
    PROVE  ToldInv'
BY IdleTyped DEF ToldInv, PenInv, WriterInv, DigestInv

LEMMA WriteTold ==
    ASSUME Inv, ToldInv, NEW who \in Conn \cup {Route}, WriteLine(who) PROVE ToldInv'
<1> DEFINE line == Line(Wanted(who))
<1>1. /\ ~tail /\ pen' = [by |-> who, rec |-> Wanted(who)] /\ Wants(who)
      /\ UNCHANGED <<synced, store, conn, answered, attested>>
    BY DEF ToldInv, WriteLine, past
<1>2. line \in Entry /\ Lines \in File /\ Lines' = Append(Lines, line)
    BY <1>1, WrittenAfter
<1>3. PenInv'
    BY <1>1, PenAfterWrite
<1>4. pen' \in Writing /\ pen'.by = who /\ pen'.rec = Wanted(who) /\ pen' # None
    BY <1>1, WantedTyped, NoneAssumption DEF Inv, Writing
<1>5. WriterInv'
    BY <1>1, <1>4, ConstAssumption DEF WriterInv, Wants, Wanted
<1> HIDE DEF line
<1>6. /\ Len(Lines') = Len(Lines) + 1 /\ Len(Lines) \in Nat
      /\ \A i \in 1..Len(Lines) : Lines'[i] = Lines[i]
    BY <1>2, AppendedLine
<1>7. DigestInv'
    BY <1>1, <1>6, StillIn DEF ToldInv, DigestInv, HashedIn
<1>8. DurableInv'
  <2>1. synced \in Nat /\ synced =< Len(Lines)
      BY <1>6 DEF Inv, TypeOK
  <2> QED  BY <1>1, <1>6, <2>1, StillDurable
<1> QED  BY <1>3, <1>4, <1>5, <1>7, <1>8 DEF ToldInv

LEMMA SyncTold == ASSUME Inv, ToldInv, SyncLine PROVE ToldInv'
<1> DEFINE n == Len(Lines)
<1>1. /\ store' = PositionOf(Lines) /\ Lines' = Lines /\ Lines[n] \in Entry /\ n \in Nat \ {0}
      /\ Lines[n].rec = pen.rec /\ store'.latest = Hash(Lines[n])
    BY StoreAfterSync DEF ToldInv
<1>2. /\ pen' = None /\ ~tail' /\ synced' = n /\ pen # None /\ pen.by \in Conn \cup {Route}
    BY DEF SyncLine, Inv, TypeOK, ServeInv, Writing, Lines
<1>3. synced \in Nat /\ synced =< n /\ n \in 1..n /\ Lines[n] # Garbage
    BY <1>1, EntryReadable DEF Inv, TypeOK
<1>4. PenInv' /\ WriterInv' /\ (tail' => pen' # None)
    BY <1>2 DEF PenInv, WriterInv
<1>5. /\ \A a \in answered : RecordedIn(RecordOf(a.request, a.reply), n)
      /\ \A d \in attested : HashedIn(d, n)
  <2>1. 1..synced \subseteq 1..n
      BY <1>1, <1>3
  <2> QED  BY <2>1 DEF ToldInv, DurableInv, RecordedIn, HashedIn
<1>6. store' # None => store'.latest = <<>> \/ HashedIn(store'.latest, n)
    BY <1>1, <1>3 DEF HashedIn
<1>7. /\ \A a \in answered' : RecordedIn(RecordOf(a.request, a.reply), n)
      /\ \A d \in attested' : HashedIn(d, n)
      /\ \A c \in Conn : conn'[c].digest # <<>> => HashedIn(conn'[c].digest, n)
  <2>1. CASE pen.by = Route
      BY <1>5, <2>1 DEF SyncLine, ToldInv, DigestInv
  <2>2. CASE pen.by # Route
    <3> DEFINE c == pen.by
    <3>1. c \in Conn /\ conn[c] \in Connection
        BY <1>2, <2>2 DEF Inv, TypeOK
    <3>2. pen.rec = RecordOf(conn[c].request, conn[c].reply)
        BY <1>2, <3>1 DEF ToldInv, WriterInv
    <3>3. RecordedIn(pen.rec, n)
        BY <1>1, <1>3 DEF RecordedIn
    <3>4. conn[c].digest # <<>> => HashedIn(conn[c].digest, n)
        BY <3>1 DEF ToldInv, DigestInv
    <3>5. Answered(c).digest = <<>>
        BY <3>1 DEF Answered, Connection
    <3>6. /\ conn' = [conn EXCEPT ![c] = Answered(c)] /\ answered' = answered \cup {Told(c)}
          /\ attested' = attested \cup
                            (IF conn[c].digest # <<>> THEN {conn[c].digest} ELSE {})
        BY <2>2 DEF SyncLine
    <3>7. Told(c).request = conn[c].request /\ Told(c).reply = conn[c].reply
        BY DEF Told
    <3> HIDE DEF c, n
    <3>8. \A a \in answered' : RecordedIn(RecordOf(a.request, a.reply), n)
        BY <1>5, <3>2, <3>3, <3>6, <3>7
    <3>9. \A d \in attested' : HashedIn(d, n)
        BY <1>5, <3>4, <3>6
    <3>10. \A d \in Conn : conn'[d].digest # <<>> => HashedIn(conn'[d].digest, n)
        BY <3>1, <3>5, <3>6 DEF Inv, TypeOK, ToldInv, DigestInv, n
    <3> QED  BY <3>8, <3>9, <3>10
  <2> QED  BY <2>1, <2>2
<1>8. DigestInv'
    BY <1>1, <1>6, <1>7 DEF DigestInv, HashedIn
<1>9. DurableInv'
    BY <1>1, <1>2, <1>7 DEF DurableInv, RecordedIn, HashedIn
<1> QED  BY <1>4, <1>8, <1>9 DEF ToldInv

LEMMA FailTold ==
    ASSUME Torn = FALSE, Inv, ToldInv, NEW partly \in BOOLEAN, AppendFails(partly)
    PROVE  ToldInv'
<1>1. /\ ~tail' /\ UNCHANGED <<file, synced, answered, attested>> /\ pen' = None
      /\ store' \in {store, None} /\ pen # None /\ pen.by \in Conn \cup {Route}
    BY DEF AppendFails, Inv, TypeOK, Writing
<1>2. Lines' = Lines
    BY <1>1 DEF Lines
<1>3. \A c \in Conn : conn'[c].digest \in {<<>>, conn[c].digest}
  <2>1. conn' = conn \/ (pen.by \in Conn /\ conn' = [conn EXCEPT ![pen.by] = Idle])
      BY <1>1 DEF AppendFails
  <2> QED  BY <2>1, IdleTyped DEF Inv, TypeOK
<1>4. DigestInv'
    BY <1>1, <1>2, <1>3 DEF ToldInv, DigestInv, HashedIn
<1>5. DurableInv'
    BY <1>1, <1>2 DEF ToldInv, DurableInv, RecordedIn, HashedIn
<1> QED  BY <1>1, <1>4, <1>5 DEF ToldInv, PenInv, WriterInv

LEMMA NextTold == ASSUME Torn = FALSE, Inv, ToldInv, Next PROVE ToldInv'
<1>1. CASE \/ Tick \/ Start \/ InstallRules
           \/ \E t \in Token, ahead \in {0, Skew + 1} : Sign(t, ahead)
  <2>1. UNCHANGED <<file, tail, synced, store, pen, answered, attested, conn>>
      BY <1>1 DEF Tick, Start, InstallRules, Sign, disk, process_vars, past
  <2> QED  BY <2>1, SameTold
<1>2. CASE OpenStore
  <2>1. /\ pen = None /\ Lines' = Lines
        /\ UNCHANGED <<file, tail, synced, pen, answered, attested, conn>>
      BY <1>2 DEF OpenStore, Inv, ServeInv, Lines, disk, past
  <2>2. CASE store' = store
      BY <2>1, <2>2, SameTold
  <2>3. CASE store' = PositionOf(Lines) /\ Valid(Lines)
    <3> DEFINE n == Len(Lines)
    <3>1. Lines \in File /\ n \in Nat
        BY LinesTyped DEF Inv, File
    <3>2. CASE Lines = <<>>
      <4>1. store'.latest = <<>>
          BY <2>3, <3>2 DEF PositionOf
      <4> QED  BY <2>1, <4>1 DEF ToldInv, PenInv, WriterInv, DigestInv, DurableInv,
                               RecordedIn, HashedIn
    <3>3. CASE Lines # <<>>
      <4>1. n \in 1..n
          BY <3>1, <3>3 DEF File
      <4>2. store'.latest = Hash(Lines[n]) /\ Lines[n] # Garbage
          BY <2>3, <3>3, <4>1 DEF PositionOf, Valid
      <4>3. HashedIn(store'.latest, n)
          BY <4>1, <4>2 DEF HashedIn
      <4> QED  BY <2>1, <4>3 DEF ToldInv, PenInv, WriterInv, DigestInv, DurableInv,
                               RecordedIn, HashedIn
    <3> QED  BY <3>2, <3>3
  <2>4. store' = store \/ (store' = PositionOf(Lines) /\ Valid(Lines))
      BY <1>2 DEF OpenStore, Lines, Valid
  <2> QED  BY <2>2, <2>3, <2>4
<1>3. ASSUME NEW stopped \in BOOLEAN, Die(stopped) PROVE ToldInv'
  <2>1. /\ pen' = None /\ store' = None /\ conn' = [c \in Conn |-> Idle] /\ ~tail'
        /\ UNCHANGED <<file, synced, answered, attested>>
      BY <1>3 DEF Die, Gone, disk
  <2>2. Lines' = Lines
      BY <2>1 DEF Lines
  <2>3. DurableInv'
      BY <2>1, <2>2 DEF ToldInv, DurableInv, RecordedIn, HashedIn
  <2> QED  BY <2>1, <2>3, GoneTold
<1>4. CASE PowerLoss
  <2>1. /\ pen' = None /\ store' = None /\ conn' = [c \in Conn |-> Idle]
        /\ UNCHANGED <<answered, attested>>
      BY <1>4 DEF PowerLoss, Gone
  <2>2. PICK kept \in synced..Len(Lines) :
              /\ kept \in Nat /\ SubSeq(Lines, 1, kept) \in File
              /\ \A i \in 1..kept : SubSeq(Lines, 1, kept)[i] = Lines[i]
              /\ file' = (IF kept = 0 THEN None ELSE SubSeq(Lines, 1, kept))
              /\ ~tail' /\ synced' = kept
      BY <1>4, PowerLossFile
  <2>3. synced \in Nat /\ Len(Lines) \in Nat
      BY LinesTyped DEF Inv, TypeOK, File
  <2>4. synced =< kept
      BY <2>2, <2>3
  <2>5. \A i \in 1..synced : Lines'[i] = Lines[i]
    <3>1. CASE kept = 0
        BY <2>3, <2>4, <3>1
    <3>2. CASE kept # 0
      <4>1. Lines' = SubSeq(Lines, 1, kept)
          BY <2>2, <3>2, NoneAssumption DEF Lines
      <4> QED  BY <2>2, <2>3, <2>4, <4>1
    <3> QED  BY <3>1, <3>2
  <2>6. DurableInv'
      BY <2>1, <2>2, <2>4, <2>5, StillDurable
  <2> QED  BY <2>1, <2>2, <2>6, GoneTold
<1>5. ASSUME NEW c \in Conn, NEW t \in Token, Connect(c, t) PROVE ToldInv'
  <2> DEFINE new == [Idle EXCEPT !.at = "checking", !.token = t, !.seen = clock]
  <2>1. new \in Connection /\ new.digest = <<>>
      BY IdleTyped DEF Connection, Inv, TypeOK
  <2>2. conn[c].at # "recording" /\ conn' = [conn EXCEPT ![c] = new]
      BY <1>5, IdleTyped DEF Connect
  <2>3. UNCHANGED <<file, tail, synced, store, pen, answered, attested>>
      BY <1>5 DEF Connect, disk, process_vars, past
  <2> HIDE DEF new
  <2> QED  BY <2>1, <2>2, <2>3, OneTold
<1>6. ASSUME NEW c \in Conn, Admit(c) \/ HangUp(c) PROVE ToldInv'
  <2> DEFINE new == [conn[c] EXCEPT !.at = "serving"]
  <2>1. conn[c] \in Connection
      BY DEF Inv, TypeOK
  <2>2. new \in Connection /\ new.digest = conn[c].digest
      BY <2>1 DEF Connection
  <2>3. conn[c].at # "recording" /\ UNCHANGED <<file, tail, synced, store, pen, answered, attested>>
      BY <1>6 DEF Admit, HangUp, disk, process_vars, past
  <2>4. conn' = [conn EXCEPT ![c] = Idle] \/ conn' = [conn EXCEPT ![c] = new]
      BY <1>6 DEF Admit, HangUp, Inv, TypeOK
  <2> HIDE DEF new
  <2> QED  BY <2>2, <2>3, <2>4, IdleTyped, OneTold
<1>7. ASSUME NEW c \in Conn, NEW method \in Methods, Request(c, method) PROVE ToldInv'
  <2> DEFINE new == [conn[c] EXCEPT !.at = method, !.request = requests + 1]
  <2>1. /\ conn[c] \in Connection /\ requests + 1 \in Nat /\ conn[c].at # "recording"
        /\ UNCHANGED <<file, tail, synced, store, pen, answered, attested>>
      BY <1>7 DEF Request, disk, process_vars, past, Inv, TypeOK
  <2>2. CASE method = "none"
      BY <1>7, <2>1, <2>2, SameTold DEF Request
  <2>3. CASE method # "none"
    <3>1. new \in Connection /\ new.digest = conn[c].digest
        BY <2>1, <2>3 DEF Connection, Methods
    <3>2. conn' = [conn EXCEPT ![c] = new]
        BY <1>7, <2>3 DEF Request, Inv, TypeOK
    <3> HIDE DEF new
    <3> QED  BY <2>1, <3>1, <3>2, OneTold
  <2> QED  BY <2>2, <2>3
<1>8. ASSUME NEW c \in Conn,
             \/ Verify(c) \/ \E reply \in Replies : Forward(c, reply)
             \/ \E reply \in {"result", "error"} : Attest(c, reply)
      PROVE  ToldInv'
  <2>1. /\ conn[c].at \in Methods /\ conn[c].at # "recording" /\ conn[c].at # "free"
        /\ UNCHANGED <<file, tail, synced, store, pen, answered, attested>>
      BY <1>8 DEF Verify, Forward, Attest, Methods, disk, process_vars, past
  <2>2. store # None /\ store.latest \in Seq(Record) /\ <<>> \in Seq(Record)
      BY <2>1, StoreThere, NoneAssumption DEF Inv, ServeInv
  <2>3. \E reply \in Names, digest \in {<<>>, store.latest} : Replied(c, reply, digest)
    <3>1. CASE Verify(c)
        BY <3>1 DEF Verify, Names
    <3>2. ASSUME NEW reply \in Replies, Forward(c, reply) PROVE <2>3
      <4>1. (IF conn[c].at = "other" THEN reply ELSE Injected(reply)) \in Names
          BY RepliesNamed DEF Injected, Names
      <4> QED  BY <3>2, <4>1 DEF Forward
    <3>3. ASSUME NEW reply \in {"result", "error"}, Attest(c, reply) PROVE <2>3
        BY <3>3 DEF Attest, Names
    <3> QED  BY <1>8, <3>1, <3>2, <3>3
  <2> QED  BY <2>1, <2>2, <2>3, RepliedTold
<1>9. CASE EndLine
  <2>1. /\ pen # None /\ Lines' = Lines /\ ~tail'
        /\ UNCHANGED <<synced, store, pen, conn, answered, attested>>
      BY <1>9 DEF EndLine, Lines, process_vars, past
  <2> QED  BY <2>1 DEF ToldInv, PenInv, WriterInv, DigestInv, DurableInv, RecordedIn, HashedIn
<1>10. CASE SyncLine
    BY <1>10, SyncTold
<1>11. CASE \E who \in Conn \cup {Route} : WriteLine(who)
    BY <1>11, WriteTold
<1>12. CASE \E partly \in BOOLEAN : AppendFails(partly)
    BY <1>12, FailTold
<1> QED  BY <1>1, <1>2, <1>3, <1>4, <1>5, <1>6, <1>7, <1>8, <1>9, <1>10, <1>11, <1>12 DEF Next

\* What is durable is there
LEMMA ToldThere == ASSUME Inv, ToldInv PROVE ToldStays
<1>1. synced \in Nat /\ Len(Lines) \in Nat /\ synced =< Len(Lines)
    BY LinesTyped DEF Inv, TypeOK, File
<1>2. 1..synced \subseteq 1..Len(Lines)
    BY <1>1
<1>3. AnsweredRecorded
    BY <1>2 DEF AnsweredRecorded, Recorded, ToldInv, DurableInv, RecordedIn
<1>4. AttestedKept
    BY <1>2 DEF AttestedKept, ToldInv, DurableInv, HashedIn
<1> QED  BY <1>3, <1>4 DEF ToldStays

-----------------------------------------------------------------------------
\* The process, its connections, its store and its file keep their types.
THEOREM TypeCorrect == Spec => []TypeOK
<1>1. Inv /\ [Next]_vars => Inv'
    BY NextInv, SameInv
<1>2. Inv => TypeOK
    BY DEF Inv
<1> QED  BY <1>1, <1>2, InitInv, PTL DEF Spec

\* One process admits a token once, however expiry, skew, pruning and the
\* threads that present it fall together, provided no thread rests for longer
\* than the skew between reading the clock and taking the lock of the cache.
THEOREM TokensAdmittedOnce == ASSUME MaxRest =< Skew PROVE Spec => []AdmittedOnce
<1>1. Init => Inv /\ TokenInv
    BY InitInv, IdleTyped DEF Init, TokenInv, CheckingInv, RememberedInv, AdmittedOnce
<1>2. Inv /\ TokenInv /\ [Next]_vars => (Inv /\ TokenInv)'
  <2>1. ASSUME TokenInv, UNCHANGED vars PROVE TokenInv'
      BY <2>1 DEF TokenInv, CheckingInv, RememberedInv, AdmittedOnce, Exp, vars, process_vars, past
  <2> QED  BY <2>1, NextInv, SameInv, NextTokens
<1>3. TokenInv => AdmittedOnce
    BY DEF TokenInv
<1> QED  BY <1>1, <1>2, <1>3, PTL DEF Spec

\* The file verifies as long as no append has been cut short after it had
\* written, through concurrent connections, restarts and the loss of power.
THEOREM ChainUnbroken == Spec => []ChainIntact
<1>1. Init => Inv /\ ChainInv
    BY InitInv DEF Init, ChainInv, PenInv, Lines, Valid
<1>2. Inv /\ ChainInv /\ [Next]_vars => (Inv /\ ChainInv)'
  <2>1. ASSUME ChainInv, UNCHANGED vars PROVE ChainInv'
      BY <2>1, SameChain DEF vars, disk, process_vars, past
  <2> QED  BY <2>1, NextInv, SameInv, NextChain
<1>3. ChainInv => ChainIntact
    BY DEF ChainInv, ChainIntact
<1> QED  BY <1>1, <1>2, <1>3, PTL DEF Spec

\* What a caller has been told stays in the log, whatever is killed, restarted,
\* cut off or fails, provided a line is on disk with its newline or not at all.
THEOREM ToldForEver == ASSUME Torn = FALSE PROVE Spec => []ToldStays
<1>1. Init => Inv /\ ToldInv
    BY InitInv, IdleTyped DEF Init, ToldInv, PenInv, WriterInv, DigestInv, DurableInv
<1>2. Inv /\ ToldInv /\ [Next]_vars => (Inv /\ ToldInv)'
  <2>1. ASSUME Inv, ToldInv, UNCHANGED vars PROVE ToldInv'
      BY <2>1, SameTold DEF vars, disk, process_vars, past
  <2> QED  BY <2>1, NextInv, SameInv, NextTold
<1>3. Inv /\ ToldInv => ToldStays
    BY ToldThere
<1> QED  BY <1>1, <1>2, <1>3, PTL DEF Spec

=============================================================================
