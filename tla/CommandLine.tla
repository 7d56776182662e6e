------------------------------ MODULE CommandLine ------------------------------
(***************************************************************************)
(* What src/cli.ts makes of the arguments of a command. An argument is a   *)
(* "word", which may be empty; an "option" (--key) or a "letter" (-h, -v   *)
(* or -f) whose value, if any, is the next word; an "assigned" option      *)
(* (--key=value); the "end" of the options (--), after which all are       *)
(* words; or an unknown "short" option. Words are their values; true, as   *)
(* the value of a flag, is Given.                                          *)
(***************************************************************************)
EXTENDS SequencesExt

CONSTANTS Missing, Given, Throws

Argument(kind, key, value) == [kind |-> kind, key |-> key, value |-> value]

booleanFlags == {"help", "h", "version", "v", "json", "compact", "checkFiles", "check-files",
                 "require-trusted-v2", "include-git-context"}
commonFlags == {"help", "h", "version", "v"}

commandFlags ==
  [command \in {"keygen", "attest", "verify", "badge", "inspect", "export"} |->
     CASE command = "keygen" -> {"algo", "out"}
       [] command = "attest" -> {"task", "description", "signer", "algo", "key", "key-file",
                                 "keyFile", "files", "f", "status", "out", "badge", "html",
                                 "include-git-context"}
       [] command = "verify" -> {"proof", "key", "key-file", "keyFile", "algo", "algorithm",
                                 "checkFiles", "check-files", "json", "require-trusted-v2"}
       [] command = "badge" -> {"proof", "out", "format", "compact"}
       [] command = "inspect" -> {"proof"}
       [] command = "export" -> {"proof", "format", "out"}]

valueFlags == (UNION {commandFlags[command] : command \in DOMAIN commandFlags}) \ booleanFlags

Flag(parsed, name) == IF name \in DOMAIN parsed.flags THEN parsed.flags[name] ELSE Missing
Set(parsed, name, value) == [parsed EXCEPT !.flags = (name :> value) @@ @]

\* The first of some spellings of a flag that has text.
getFlag(parsed, names) ==
  LET given == SelectSeq(names, LAMBDA name : Flag(parsed, name) \notin {Missing, Given, ""})
  IN  IF given = << >> THEN Missing ELSE Flag(parsed, Head(given))
-----------------------------------------------------------------------------
\* An option whose value would be next, and is not.
WithoutValue(parsed) ==
  IF parsed = Throws \/ parsed.pending = Missing THEN parsed
  ELSE IF parsed.pending \in valueFlags THEN Throws
  ELSE [Set(parsed, parsed.pending, Given) EXCEPT !.pending = Missing]

\* An empty word is no command: the next word takes its place.
Word(parsed, value) ==
  IF parsed.command \in {Missing, ""} THEN [parsed EXCEPT !.command = value]
  ELSE [parsed EXCEPT !.positionals = Append(@, value)]

Option(parsed, arg) ==
  CASE arg.kind = "end" -> [parsed EXCEPT !.wordsOnly = TRUE]
    [] arg.kind = "word" -> Word(parsed, arg.value)
    [] arg.kind = "short" -> Throws
    [] arg.kind = "assigned" ->
         IF arg.key \in booleanFlags \/ arg.value = "" THEN Throws
         ELSE Set(parsed, arg.key, arg.value)
    [] arg.kind \in {"option", "letter"} ->
         IF arg.key \in booleanFlags THEN Set(parsed, arg.key, Given)
         ELSE [parsed EXCEPT !.pending = arg.key]

parseArgs(argv) ==
  LET start == [command |-> Missing, positionals |-> << >>, flags |-> [name \in {} |-> name],
                pending |-> Missing, wordsOnly |-> FALSE]
      step(parsed, arg) ==
        IF parsed = Throws THEN Throws
        ELSE IF parsed.wordsOnly THEN Word(parsed, arg.value)
        ELSE IF parsed.pending # Missing /\ arg.kind = "word"
             THEN [Set(parsed, parsed.pending, arg.value) EXCEPT !.pending = Missing]
        ELSE IF WithoutValue(parsed) = Throws THEN Throws
        ELSE Option(WithoutValue(parsed), arg)
  IN  WithoutValue(FoldLeft(step, start, argv))

\* What keygen knows, as it is written.
KeygenArgument(arg) ==
  \/ arg.kind = "word"
  \/ arg.kind \in {"option", "assigned"} /\ arg.key \in commandFlags["keygen"]
  \/ arg.kind = "option" /\ arg.key \in {"help", "version"}
  \/ arg.kind = "letter" /\ arg.key \in {"h", "v"}

\* keygen takes each of its options once, and no words but their values.
parseKeygenArgs(argv) ==
  LET parsed == parseArgs(argv)
      twice(i, j) == argv[i].kind # "word" /\ argv[j].kind # "word" /\ argv[i].key = argv[j].key
  IN  IF \/ argv[1] # Argument("word", Missing, "keygen")
         \/ parsed = Throws
      THEN Throws
      ELSE IF \/ parsed.positionals # << >>
              \/ \E at \in DOMAIN argv : ~KeygenArgument(argv[at])
              \/ \E i, j \in DOMAIN argv : i < j /\ twice(i, j) /\ argv[i].key \in commandFlags["keygen"]
              \/ \E name \in commandFlags["keygen"] : Flag(parsed, name) = ""
              \/ Flag(parsed, "algo") \notin {Missing, "HMAC-SHA256", "Ed25519"}
           THEN Throws ELSE parsed

validateCommandFlags(parsed) ==
  LET command == parsed.command
  IN  /\ DOMAIN parsed.flags \subseteq
           commonFlags \union IF command \in DOMAIN commandFlags THEN commandFlags[command] ELSE {}
      /\ command \in (DOMAIN commandFlags) \ {"keygen"} =>
           /\ Len(parsed.positionals) <= 1
           /\ Flag(parsed, "proof") # Missing => parsed.positionals = << >>

\* What a command line comes to: the command with its flags, or Throws.
Parsed(argv) ==
  LET initial == parseArgs(argv)
      parsed == IF initial = Throws THEN Throws
                ELSE IF initial.command = "keygen" THEN parseKeygenArgs(argv) ELSE initial
  IN  IF parsed = Throws THEN Throws
      ELSE IF validateCommandFlags(parsed) THEN parsed ELSE Throws
=============================================================================
