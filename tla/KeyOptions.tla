----------------------------- MODULE KeyOptions -----------------------------
(***************************************************************************)
(* oxish-proto/src/auth.rs: what a line of an authorized_keys file grants. *)
(* AuthorizedKey::from_str takes it apart, KeyOptions::parse the options   *)
(* in front of the key.                                                    *)
(*                                                                         *)
(* A line is a sequence of symbols: the characters that mean something to  *)
(* the parser, the word command, the name and the data of one good key,    *)
(* and other characters.  A tab is a space, upper case is lower case.      *)
(***************************************************************************)
EXTENDS Integers, Sequences, SequencesExt, FiniteSetsExt

CONSTANT Symbol   \* the symbols of a line

Space == " "
Quote == "quote"
Backslash == "backslash"
Command == "command"       \* the name of the only option
KeyType == "ssh-ed25519"   \* the name of an algorithm
KeyData == "AAAA"          \* data of a key of that algorithm, in base64

\* The absence of a command, and of a symbol.
NoCommand == <<"none">>
NoSymbol == "end"

ASSUME KeyOptionsAssumption ==
  /\ {Space, Quote, Backslash, Command, KeyType, KeyData, "=", ",", "#"} \subseteq Symbol
  /\ "none" \notin Symbol
  /\ NoSymbol \notin Symbol

\* The position of the first of the symbols from k on, or the end of the line.
find(s, k, symbols) ==
  Min({i \in k..Len(s) : s[i] \in symbols} \cup {Len(s) + 1})

At(s, k) == IF k \in DOMAIN s THEN s[k] ELSE NoSymbol
From(s, k) == SubSeq(s, k, Len(s))

trim_start(s) ==
  From(s, Min({i \in DOMAIN s : s[i] # Space} \cup {Len(s) + 1}))
trim(s) == Reverse(trim_start(Reverse(trim_start(s))))

-----------------------------------------------------------------------------
(* KeyOptions::parse. *)

\* The quote that ends a value begun after position k: one without a backslash
\* before it.
EndQuote_First(s, k) == find(s, k + 1, {Quote})
EndQuote(s, k) ==
  Min({i \in (k + 1)..Len(s) : s[i] = Quote /\ s[i - 1] # Backslash} \cup {Len(s) + 1})

\* A backslash before a quote is left out, every other one is kept.
Value(s, k, end) ==
  FlattenSeq([i \in 1..(end - k - 1) |->
                IF s[k + i] = Backslash /\ At(s, k + i + 1) = Quote THEN <<>> ELSE <<s[k + i]>>])

Malformed == [command |-> NoCommand, algorithm |-> <<>>, rest |-> <<>>]

\* The key type, up to a space, and what follows it; no type is no algorithm.
Typed(command, s) ==
  LET end == find(s, 1, {Space})
  IN [command |-> command, algorithm |-> SubSeq(s, 1, end - 1), rest |-> From(s, end + 1)]

\* One option from position k on: its name, its value, and where it ends.
Option(s, k) ==
  LET end == find(s, k, {"=", ",", Space})
      close == EndQuote(s, end + 1)
  IN IF At(s, end) # "="
       THEN [name |-> SubSeq(s, k, end - 1), value |-> NoCommand, next |-> end, valid |-> TRUE]
       ELSE [name |-> SubSeq(s, k, end - 1), value |-> Value(s, end + 1, close),
             next |-> close + 1,
             valid |-> At(s, end + 1) = Quote /\ close <= Len(s)]

\* The loop over the options: command has to have a value, and to come once.
options(s) ==
  LET loop[at \in [k : 1..(Len(s) + 1), command : {NoCommand} \cup Seq(Symbol)]] ==
        LET option == Option(s, at.k)
        IN IF \/ ~option.valid
              \/ option.name # <<Command>>
              \/ option.value = NoCommand
              \/ at.command # NoCommand
             THEN Malformed
           ELSE IF At(s, option.next) = ","
             THEN loop[[k |-> option.next + 1, command |-> option.value]]
           ELSE IF At(s, option.next) \in {Space, NoSymbol}
             THEN Typed(option.value, trim_start(From(s, option.next)))
           ELSE Malformed
  IN loop[[k |-> 1, command |-> NoCommand]]

parse(s) ==
  LET plain == Typed(NoCommand, s)
  IN IF plain.algorithm = <<KeyType>> THEN plain ELSE options(s)

-----------------------------------------------------------------------------
(* AuthorizedKey::from_str. *)

Ignored == [granted |-> FALSE, command |-> NoCommand]

\* The data has to be that of a key of the algorithm the line names.
from_str(line) ==
  LET s == trim(line)
      parsed == parse(s)
      data == Typed(NoCommand, trim_start(parsed.rest)).algorithm
  IN IF \/ s = <<>>
        \/ s[1] = "#"
        \/ parsed.algorithm # <<KeyType>>
        \/ data # <<KeyData>>
       THEN Ignored
       ELSE [granted |-> TRUE, command |-> parsed.command]

-----------------------------------------------------------------------------
(* Properties. *)

\* A command as sshd(8) has it written between quotes.
Escape(command) ==
  FlattenSeq([i \in DOMAIN command |->
                IF command[i] = Quote THEN <<Backslash, Quote>> ELSE <<command[i]>>])

Restriction(command) == <<Command, "=", Quote>> \o Escape(command) \o <<Quote, Space>>

NamesKey(s) ==
  LET type == Typed(NoCommand, trim_start(s))
  IN type.algorithm = <<KeyType>>
     /\ Typed(NoCommand, trim_start(type.rest)).algorithm = <<KeyData>>

\* No line grants more than it says.  One that grants a key without a command
\* begins with the key; one that grants it with a command has that command, to
\* the last symbol, as its only option and the key right behind it.  So nothing
\* in front of a key, known or not, well formed or not, is ever dropped.
OptionsKept(line) ==
  LET s == trim(line)
      entry == from_str(line)
      restriction == Restriction(entry.command)
  IN entry.granted =>
       IF entry.command = NoCommand THEN NamesKey(s)
       ELSE IsPrefix(restriction, s) /\ NamesKey(From(s, Len(restriction) + 1))

\* A command written down as sshd(8) has it is the command that is run, unless
\* it ends in a backslash, which that notation cannot express.
CommandKept(command) ==
  (command = <<>> \/ Last(command) # Backslash) =>
    from_str(Restriction(command) \o <<KeyType, Space, KeyData>>)
      = [granted |-> TRUE, command |-> command]
=============================================================================
