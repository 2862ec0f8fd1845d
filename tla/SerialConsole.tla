--------------------------- MODULE SerialConsole ---------------------------
(***************************************************************************)
(* The serial server between its rings and the device: output of several   *)
(* clients goes to one terminal, each in its colour, and what is typed     *)
(* goes to one client, chosen by escape sequences.                         *)
(*                                                                         *)
(* The server handles one event after the other.  handle_rx() calls        *)
(* handle_client_char() for every character there is, which is the same as *)
(* one event for each; so it is for typed characters and handle_char().    *)
(* SerialLink is about the rings themselves.  Texts that the server prints *)
(* for itself are left out.                                                *)
(***************************************************************************)
EXTENDS Naturals, Sequences, TLC

CONSTANTS
    NumClients,
    BUFFER_LIMIT,
    Key,            \* keys that are typed: of these "nl", "@" and "?" are special
    MaxOutput,      \* bound: characters of a client
    MaxKeys         \* bound: typed keys

ASSUME ConsoleAssumption == NumClients \in Nat \ {0} /\ BUFFER_LIMIT \in Nat \ {0}

ClientId == 0 .. NumClients - 1
NoClient == NumClients
NewLine == "nl"
Char == {"x", NewLine}
ESCAPE == "@"

VARIABLES
    out,            \* the fields of SerialServer for output, and the terminal:
                    \* buffer, last, since; printed and term
    active,         \* active_input_client
    inputState,     \* input_state
    forwarded,      \* forwarded[c]: keys sent to the ring of c
    received,       \* auxiliary: received[c]: characters from the ring of c
    pressed,        \* auxiliary: number of typed keys
    commands,       \* auxiliary: number of keys that were part of a command
    quiet           \* auxiliary: timeouts since a client's last character, up to 2

consoleVars == <<out, active, inputState, forwarded, received, pressed, commands, quiet>>

----------------------------------------------------------------------------
set_output_client(s, c) == IF s.last = c THEN s ELSE [s EXCEPT !.last = c, !.term = c]
clear_output_client(s) == IF s.last = NoClient THEN s ELSE [s EXCEPT !.last = NoClient, !.term = NoClient]

(* The first n characters of the buffer go to the device, in the colour    *)
(* that the terminal has.                                                  *)
Drain(s, c, n) ==
    [s EXCEPT !.buffer[c] = SubSeq(@, n + 1, Len(@)),
              !.printed[c] = @ \o [k \in 1 .. n |-> [char |-> s.buffer[c][k], colour |-> s.term]],
              !.since = TRUE]

(* Mutant: the last character is not put out.                              *)
Mut_flush(s, c) ==
    IF s.buffer[c] = <<>> THEN s
    ELSE LET t == set_output_client(s, c)
         IN  [Drain(t, c, Len(t.buffer[c]) - 1) EXCEPT !.buffer[c] = <<>>]

flush(s, c) ==
    IF s.buffer[c] = <<>> THEN s
    ELSE Drain(set_output_client(s, c), c, Len(s.buffer[c]))

Lines(s, c) == {k \in DOMAIN s.buffer[c] : s.buffer[c][k] = NewLine}
flush_line(s, c) ==
    IF Lines(s, c) = {} THEN s
    ELSE Drain(set_output_client(s, c), c, CHOOSE k \in Lines(s, c) : \A j \in Lines(s, c) : k <= j)

(* One flush of each client, in order; and lines of each client until none *)
(* has a line, at most BUFFER_LIMIT times.                                 *)
FlushAll(s) ==
    LET done[k \in 0 .. NumClients] == IF k = 0 THEN s ELSE flush(done[k - 1], k - 1)
    IN  done[NumClients]

FlushEachLine(s) ==
    LET done[k \in 0 .. NumClients] == IF k = 0 THEN s ELSE flush_line(done[k - 1], k - 1)
    IN  done[NumClients]

FlushLines(s) ==
    LET round[k \in 0 .. BUFFER_LIMIT] == IF k = 0 THEN s ELSE FlushEachLine(round[k - 1])
    IN  round[BUFFER_LIMIT]

(* handle_client_char(), when the character has filled the buffer.         *)
Full(s, c) ==
    LET a == flush(s, c)
        b == FlushLines(flush_line(a, a.last))
        d == IF Len(b.buffer[c]) = BUFFER_LIMIT THEN FlushAll(b) ELSE b
    IN  set_output_client(d, c)

PushedChar(s, c, char) ==
    LET t == [s EXCEPT !.buffer[c] = Append(@, char)]
        anyElse == \E i \in ClientId \ {c} : t.buffer[i] # <<>>
    IN  IF Len(t.buffer[c]) = BUFFER_LIMIT THEN Full(t, c)
        ELSE IF char = NewLine \/ (t.last = c /\ ~anyElse) THEN flush(t, c)
        ELSE t

----------------------------------------------------------------------------
ConsoleInit ==
    /\ out = [buffer |-> [c \in ClientId |-> <<>>], last |-> NoClient, since |-> FALSE,
              printed |-> [c \in ClientId |-> <<>>], term |-> NoClient]
    /\ active = 0
    /\ inputState = "Start"
    /\ forwarded = [c \in ClientId |-> <<>>]
    /\ received = [c \in ClientId |-> <<>>]
    /\ pressed = 0 /\ commands = 0 /\ quiet = 0

handle_client_char(c, char) ==
    /\ Len(received[c]) < MaxOutput
    /\ received' = [received EXCEPT ![c] = Append(@, char)]
    /\ out' = PushedChar(out, c, char)
    /\ quiet' = 0
    /\ UNCHANGED <<active, inputState, forwarded, pressed, commands>>

TimedOut(s) ==
    IF s.since THEN [s EXCEPT !.since = FALSE]
    ELSE IF \E c \in ClientId : Lines(s, c) # {} THEN FlushLines(s)
    ELSE FlushAll(s)

handle_timeout ==
    /\ out' = TimedOut(out)
    /\ quiet' = IF quiet < 2 THEN quiet + 1 ELSE quiet
    /\ UNCHANGED <<active, inputState, forwarded, received, pressed, commands>>

Raw(key) == IF key = NewLine THEN "NewLine" ELSE "Start"
forward(keys) == forwarded' = [forwarded EXCEPT ![active] = @ \o keys]

(* A key that reaches the client: not an escape at the start of a line.    *)
Plain(key) ==
    /\ inputState = "Start" \/ (inputState = "NewLine" /\ key # ESCAPE)
    /\ forward(<<key>>)
    /\ inputState' = Raw(key)
    /\ UNCHANGED <<out, active, commands>>

Escape(key) ==
    /\ inputState = "NewLine" /\ key = ESCAPE
    /\ inputState' = "Escape"
    /\ UNCHANGED <<out, active, forwarded, commands>>

EscapedEscape(key) ==
    /\ inputState = "Escape" /\ key = ESCAPE
    /\ forward(<<key>>)
    /\ inputState' = "Start"
    /\ commands' = commands + 1
    /\ UNCHANGED <<out, active>>

Help(key) ==
    /\ inputState = "Escape" /\ key = "?"
    /\ out' = clear_output_client(out)
    /\ inputState' = "NewLine"
    /\ commands' = commands + 2
    /\ UNCHANGED <<active, forwarded>>

set_input_client(key) ==
    /\ inputState = "Escape"
    /\ \E c \in ClientId : key = ToString(c) /\ active' = c
    /\ out' = clear_output_client(out)
    /\ inputState' = "NewLine"
    /\ commands' = commands + 2
    /\ UNCHANGED forwarded

(* Mutant: the escape that was held back is forgotten.                     *)
Mut_NoCommand(key) ==
    /\ inputState = "Escape"
    /\ key \notin {ESCAPE, "?"} \cup {ToString(c) : c \in ClientId}
    /\ forward(<<key>>)
    /\ inputState' = "Start"
    /\ UNCHANGED <<out, active, commands>>

NoCommand(key) ==
    /\ inputState = "Escape"
    /\ key \notin {ESCAPE, "?"} \cup {ToString(c) : c \in ClientId}
    /\ forward(<<ESCAPE, key>>)
    /\ inputState' = "Start"
    /\ UNCHANGED <<out, active, commands>>

handle_char(key) ==
    /\ pressed < MaxKeys
    /\ pressed' = pressed + 1
    /\ \/ Plain(key) \/ Escape(key) \/ EscapedEscape(key)
       \/ Help(key) \/ set_input_client(key) \/ NoCommand(key)
    /\ UNCHANGED <<received, quiet>>

ConsoleNext ==
    \/ \E c \in ClientId, char \in Char : handle_client_char(c, char)
    \/ handle_timeout
    \/ \E key \in Key : handle_char(key)

ConsoleSpec == ConsoleInit /\ [][ConsoleNext]_consoleVars

----------------------------------------------------------------------------
(* Between events a buffer is below its limit.                             *)
ConsoleTypeOK ==
    /\ \A c \in ClientId : Len(out.buffer[c]) < BUFFER_LIMIT
    /\ {out.last, out.term} \subseteq ClientId \cup {NoClient} /\ out.since \in BOOLEAN
    /\ active \in ClientId /\ inputState \in {"Start", "NewLine", "Escape"}

(* Whatever makes it flush, the server puts out the characters of a client *)
(* in order, each once: printed and still buffered are what was received.  *)
(* Every character is printed in the colour of its client, though clients  *)
(* take turns and commands reset the colour in between.  No whole line is  *)
(* held back, and when two timeouts pass and no client writes, nothing is. *)
OutputIsComplete ==
    \A c \in ClientId :
        LET printed == out.printed[c]
        IN  /\ [k \in DOMAIN printed |-> printed[k].char] \o out.buffer[c] = received[c]
            /\ \A k \in DOMAIN printed : printed[k].colour = c
            /\ Lines(out, c) = {}
            /\ quiet = 2 => out.buffer[c] = <<>>

KeysForwarded(f) ==
    LET sum[k \in 0 .. NumClients] == IF k = 0 THEN 0 ELSE sum[k - 1] + Len(f[k - 1])
    IN  sum[NumClients]

(* A typed key is forwarded, is part of a command, or is the escape whose  *)
(* next key is awaited; switching clients loses none.                      *)
KeysAreAccountedFor ==
    pressed = KeysForwarded(forwarded) + commands
                + (IF inputState = "Escape" THEN 1 ELSE 0)
=============================================================================
