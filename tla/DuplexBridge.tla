----------------------------- MODULE DuplexBridge -----------------------------
(***************************************************************************)
(* codex/duplex_bridge.py: a debate of two agents, each a `codex proto`    *)
(* child behind three pipes.  The bridge does one thing at a time: it      *)
(* primes both agents before it reads from any, then hears one and relays  *)
(* to the other.  It never reads stderr.                                   *)
(*                                                                         *)
(* Pipes hold a bounded number of units, with what asyncio buffers on the  *)
(* bridge's side.  A prompt is a unit; a line of output is two, so that a  *)
(* chunk may end in the middle of it.  Lines with a text have a number;    *)
(* other lines (events) are 0.                                             *)
(***************************************************************************)
EXTENDS Integers, Sequences, FiniteSets

\* All of them are positive numbers.
CONSTANTS
  Preface,   \* prompts to each agent before the debate
  Rounds,    \* rounds of the debate
  Chunks,    \* bound on the prompts that one reply leads to
  Lines,     \* bound on the lines that one prompt leads to
  InRoom,    \* units in stdin
  OutRoom    \* units in stdout

Who == {"A", "B"}
Other(x) == IF x = "A" THEN "B" ELSE "A"

VARIABLES
  stdin,    \* stdin[x]: prompts on their way to x
  stdout,   \* stdout[x]: half lines on their way from x
  owed,     \* owed[x]: half lines that x has yet to write
  said,     \* said[x]: texts of x so far
  agent,    \* agent[x]: "runs", "jammed" (its stderr is full) or "gone"
  todo,     \* what main has yet to do
  pc,       \* "main", "hear" (in read_reply_chunked), "closed", "aborted"
  buf,      \* the half line that is not complete yet
  texts,    \* texts of the reply so far
  handled,  \* history: handled[x], texts of x in replies that debate_round got
  lost      \* history: lost[x], texts of x that a timeout or the buffer limit cut

pipes  == <<stdin, stdout>>
agents == <<owed, said, agent>>
bridge == <<todo, pc, buf, texts, handled, lost>>
vars   == <<pipes, agents, bridge>>

Send(x, f) == [do |-> "send", who |-> x, final |-> f]
Hear(x, f) == [do |-> "hear", who |-> x, final |-> f]

Half(n, h) == [text |-> n, half |-> h]

\* The texts that half lines s belong to.
CutTexts(s) == {s[i].text : i \in DOMAIN s} \ {0}

\* main, from the first prompt to the last reply.
Turns(n, Do(_)) == [i \in 1 .. 2 * n |-> Do(IF i % 2 = 1 THEN "A" ELSE "B")]
Debate ==
  LET Prime(x) == Send(x, FALSE)
      Talk(x)  == Hear(x, FALSE)
  IN  Turns(Preface, Prime) \o Turns(Rounds, Talk)
Verdict ==
  LET Ask(x) == Send(x, TRUE)
      End(x) == Hear(x, TRUE)
  IN  Turns(1, Ask) \o Turns(1, End)
Main == Debate \o Verdict

Init ==
  /\ stdin = [x \in Who |-> 0]
  /\ stdout = [x \in Who |-> <<>>]
  /\ owed = [x \in Who |-> <<>>]
  /\ said = [x \in Who |-> 0]
  /\ agent = [x \in Who |-> "runs"]
  /\ todo = Main
  /\ pc = "main"
  /\ buf = <<>>
  /\ texts = {}
  /\ handled = [x \in Who |-> {}]
  /\ lost = [x \in Who |-> {}]

-----------------------------------------------------------------------------
(* The agents *)

\* x takes a prompt and owes lines for it, with a text or without.
Take(x) ==
  /\ agent[x] = "runs"
  /\ owed[x] = <<>>
  /\ stdin[x] > 0
  /\ stdin' = [stdin EXCEPT ![x] = @ - 1]
  /\ \E n \in 0 .. Lines, text \in BOOLEAN :
       LET line(i) == IF text THEN said[x] + (i + 1) \div 2 ELSE 0 IN
       /\ owed' = [owed EXCEPT ![x] = [i \in 1 .. 2 * n |-> Half(line(i), 2 - (i % 2))]]
       /\ said' = IF text THEN [said EXCEPT ![x] = @ + n] ELSE said
  /\ UNCHANGED <<stdout, agent, bridge>>

\* x writes half a line, if there is room.
Speak(x) ==
  /\ agent[x] = "runs"
  /\ owed[x] # <<>>
  /\ Len(stdout[x]) < OutRoom
  /\ stdout' = [stdout EXCEPT ![x] = Append(@, Head(owed[x]))]
  /\ owed' = [owed EXCEPT ![x] = Tail(@)]
  /\ UNCHANGED <<stdin, said, agent, bridge>>

\* x has written more to stderr than the pipe holds, and nobody reads it.
Jam(x) ==
  /\ agent[x] = "runs"
  /\ owed[x] # <<>>
  /\ agent' = [agent EXCEPT ![x] = "jammed"]
  /\ UNCHANGED <<pipes, owed, said, bridge>>

\* x ends; what it wrote can still be read.
Die(x) ==
  /\ agent[x] # "gone"
  /\ pc \in {"main", "hear"}
  /\ agent' = [agent EXCEPT ![x] = "gone"]
  /\ lost' = [lost EXCEPT ![x] = @ \cup CutTexts(owed[x])]
  /\ owed' = [owed EXCEPT ![x] = <<>>]
  /\ UNCHANGED <<pipes, said, todo, pc, buf, texts, handled>>

-----------------------------------------------------------------------------
(* The bridge *)

Now == Head(todo)

\* send_json: drain returns when there is room.
SendJson ==
  /\ pc = "main"
  /\ todo # <<>>
  /\ Now.do = "send"
  /\ agent[Now.who] # "gone"
  /\ stdin[Now.who] < InRoom
  /\ stdin' = [stdin EXCEPT ![Now.who] = @ + 1]
  /\ todo' = Tail(todo)
  /\ UNCHANGED <<stdout, agents, pc, buf, texts, handled, lost>>

\* The agent is gone: drain raises, and main with it, or the broken pipe is
\* not noticed yet.
SendFails ==
  /\ pc = "main"
  /\ todo # <<>>
  /\ Now.do = "send"
  /\ agent[Now.who] = "gone"
  /\ \/ pc' = "aborted" /\ UNCHANGED todo
     \/ todo' = Tail(todo) /\ UNCHANGED pc
  /\ UNCHANGED <<pipes, agents, buf, texts, handled, lost>>

StartHearing ==
  /\ pc = "main"
  /\ todo # <<>>
  /\ Now.do = "hear"
  /\ pc' = "hear"
  /\ UNCHANGED <<pipes, agents, todo, buf, texts, handled, lost>>

\* The texts of the whole lines among half lines s; half a line that was cut
\* before does not parse.
Parsed(s) ==
  {s[i].text : i \in {i \in 1 .. Len(s) - 1 : s[i].half = 1 /\ s[i].text # 0}}

Remainder(s) == IF s # <<>> /\ s[Len(s)].half = 1 THEN <<s[Len(s)]>> ELSE <<>>

\* debate_round after the read.  A reply without a text, or of blanks only, ends
\* the rounds; any other leads to prompts for the listener: what was asked for, a
\* redirection or the reply itself.  A request for a file in pieces of 0 bytes
\* raises.
Respond(T, rest) ==
  /\ buf' = <<>>
  /\ texts' = {}
  /\ handled' = [handled EXCEPT ![Now.who] = @ \cup T]
  /\ \/ /\ todo' = IF Now.final THEN rest ELSE Verdict
        /\ pc' = "main"
     \/ /\ T # {}
        /\ \E n \in 1 .. Chunks :
             todo' = [i \in 1 .. n |-> Send(Other(Now.who), Now.final)] \o rest
        /\ pc' = "main"
     \/ /\ T # {}
        /\ pc' = "aborted"
        /\ UNCHANGED todo

\* Mutant: the reply ends as soon as there is a text.
Read_Hasty ==
  /\ pc = "hear"
  /\ \E n \in 1 .. Len(stdout[Now.who]) :
       LET s == buf \o SubSeq(stdout[Now.who], 1, n)
           T == texts \cup Parsed(s)
       IN  /\ stdout' = [stdout EXCEPT ![Now.who] = SubSeq(@, n + 1, Len(@))]
           /\ IF T # {}
              THEN Respond(T, Tail(todo))
              ELSE /\ texts' = T
                   /\ buf' = Remainder(s)
                   /\ UNCHANGED <<todo, pc, handled>>
  /\ UNCHANGED <<stdin, agents, lost>>

\* read_reply_chunked gets a chunk.  The reply ends when there is a text and
\* the chunk ended with a line.
Read ==
  /\ pc = "hear"
  /\ \E n \in 1 .. Len(stdout[Now.who]) :
       LET s == buf \o SubSeq(stdout[Now.who], 1, n)
           T == texts \cup Parsed(s)
       IN  /\ stdout' = [stdout EXCEPT ![Now.who] = SubSeq(@, n + 1, Len(@))]
           /\ IF T # {} /\ Remainder(s) = <<>>
              THEN Respond(T, Tail(todo))
              ELSE /\ texts' = T
                   /\ buf' = Remainder(s)
                   /\ UNCHANGED <<todo, pc, handled>>
  /\ UNCHANGED <<stdin, agents, lost>>

\* The line under way is longer than the buffer may be: the chunk is dropped.
Overflow ==
  /\ pc = "hear"
  /\ buf # <<>>
  /\ \E n \in 1 .. Len(stdout[Now.who]) :
       LET chunk == SubSeq(stdout[Now.who], 1, n) IN
       /\ stdout' = [stdout EXCEPT ![Now.who] = SubSeq(@, n + 1, Len(@))]
       /\ lost' = [lost EXCEPT ![Now.who] = @ \cup CutTexts(buf \o chunk)]
  /\ Respond(texts, Tail(todo))
  /\ UNCHANGED <<stdin, agents>>

\* Mutant: the bridge waits for an agent that is alive.
ReadEnds_Waits ==
  /\ pc = "hear"
  /\ stdout[Now.who] = <<>>
  /\ agent[Now.who] = "gone"
  /\ lost' = [lost EXCEPT ![Now.who] = @ \cup CutTexts(buf)]
  /\ Respond(texts, Tail(todo))
  /\ UNCHANGED <<pipes, agents>>

\* Nothing came within READ_TIMEOUT, or the stream is closed: half a line is
\* dropped, and its other half will not parse.
ReadEnds ==
  /\ pc = "hear"
  /\ stdout[Now.who] = <<>>
  /\ lost' = [lost EXCEPT ![Now.who] = @ \cup CutTexts(buf)]
  /\ Respond(texts, Tail(todo))
  /\ UNCHANGED <<pipes, agents>>

Close ==
  /\ pc = "main"
  /\ todo = <<>>
  /\ pc' = "closed"
  /\ UNCHANGED <<pipes, agents, todo, buf, texts, handled, lost>>

Main_ == SendJson \/ SendFails \/ StartHearing \/ Read \/ Overflow \/ ReadEnds \/ Close

Next ==
  \/ \E x \in Who : Take(x) \/ Speak(x) \/ Jam(x) \/ Die(x)
  \/ Main_

Spec == Init /\ [][Next]_vars

\* The event loop runs main; an agent reads its prompts and writes what it
\* owes while the pipes have room.
FairSpec ==
  /\ Spec
  /\ WF_vars(Main_)
  /\ \A x \in Who : WF_vars(Take(x)) /\ WF_vars(Speak(x))

-----------------------------------------------------------------------------
TypeOK ==
  /\ stdin \in [Who -> 0 .. InRoom]
  /\ \A x \in Who : Len(stdout[x]) <= OutRoom /\ agent[x] \in {"runs", "jammed", "gone"}
  /\ pc \in {"main", "hear", "closed", "aborted"}
  /\ Len(buf) <= 1
  /\ texts \subseteq 1 .. said["A"] \/ texts \subseteq 1 .. said["B"]

\* A text that left the pipe is relayed or answered, is part of the reply being
\* read, or was cut by a timeout, the agent's end or the buffer limit:
\* no reply swallows the beginning of the next.
NoTextSwallowed ==
  \A x \in Who : \A n \in 1 .. said[x] :
    \/ n \in handled[x] \cup lost[x]
    \/ pc = "hear" /\ Now.who = x /\ n \in texts \cup CutTexts(buf)
    \/ n \in CutTexts(stdout[x]) \cup CutTexts(owed[x])

\* An agent that cannot write: its stderr is full, or its stdout is and it owes
\* more.
Blocked(x) ==
  agent[x] = "jammed" \/ (agent[x] = "runs" /\ owed[x] # <<>> /\ Len(stdout[x]) = OutRoom)

\* The bridge writes to an agent that cannot write, and so does not take the
\* prompts that fill its stdin; what it writes to, the bridge does not read.
Wedged ==
  /\ pc = "main"
  /\ todo # <<>>
  /\ Now.do = "send"
  /\ stdin[Now.who] = InRoom
  /\ Blocked(Now.who)

Ended == pc \in {"closed", "aborted"}

\* The debate ends, whatever the agents say or leave unsaid, whoever dies and
\* whichever pipes fill, unless the bridge and an agent wait for each other for
\* ever.
BridgeEnds == (~<>[]Wedged) => <>Ended
=============================================================================
