---------------------------- MODULE ConfigLoader ----------------------------
(* ConfigLoader::parse (src/src/config/ConfigLoader.cpp): it reads a file    *)
(* line by line into a PluginConfig until a line is refused. One loader may  *)
(* parse again, into the same PluginConfig or a new one; a file is a         *)
(* sequence of lines, a line a sequence of characters.                       *)
EXTENDS StringUtils, Integers

CONSTANTS
  Lines, MaxLines,   \* the lines of a file, and how many it has at most (bound)
  ServerUrlKey,      \* stands for "SERVER_url"
  DefaultUrl,        \* stands for "https://plugin.vatger.de"
  MaxParses          \* bound on the calls of parse

ASSUME FilesAssumption == Lines \subseteq Seq(STRING) /\ MaxLines \in Nat

VARIABLES
  errorLine, errorMessage,  \* the loader
  config,                   \* the caller's PluginConfig
  phase,                    \* "idle", or "reading" inside parse
  file, lineNumber,         \* the stream, and the lines read from it
  result,                   \* what the last parse returned
  parses, before, blamed    \* history: calls, config at the last call, last file refused

loader == <<errorLine, errorMessage>>
history == <<parses, before, blamed>>
vars == <<loader, config, phase, file, lineNumber, result, history>>

Spaces == {" ", "\t"}
NoLine0 == 0             \* a variant: line 0 for "no error"
NoLine == -1             \* numeric_limits<uint32_t>::max()
Unopenable == <<<<"unopenable">>>>
Files == BoundedSeq(Lines, MaxLines) \cup {Unopenable}
EmptyMap == [key \in {} |-> <<>>]

DefaultConfig == [valid |-> TRUE, server_url |-> DefaultUrl, extra |-> EmptyMap]

Init ==
  /\ errorLine = NoLine /\ errorMessage = ""
  /\ config = DefaultConfig /\ before = DefaultConfig
  /\ phase = "idle" /\ file = <<>> /\ lineNumber = 0
  /\ result = "none" /\ parses = 0 /\ blamed = <<>>

errorFound == errorLine # NoLine

\* The error members and what parse returns with them.
Fail(line, text) ==
  /\ errorLine' = line
  /\ errorMessage' = text
  /\ result' = "false"
  /\ phase' = "idle"
  /\ blamed' = file'

-----------------------------------------------------------------------------
(* The call, with the PluginConfig of the last one or a fresh one.         *)

Call(f) ==
  /\ phase = "idle" /\ parses < MaxParses
  /\ parses' = parses + 1
  /\ file' = f /\ lineNumber' = 0
  /\ config' \in {config, DefaultConfig}
  /\ before' = config'

ParseUnopenable ==
  /\ Call(Unopenable)
  /\ Fail(0, "Unable to open the configuration file")

Parse ==
  /\ \E f \in Files \ {Unopenable} : Call(f)
  /\ phase' = "reading"
  /\ UNCHANGED <<loader, result, blamed>>

-----------------------------------------------------------------------------
(* One turn of the loop.                                                   *)

Trimmed == Trim(file[lineNumber + 1], Spaces)
Values == SplitString(Trimmed, {"="})
Key == Trim(Values[1], Spaces)
Value == Trim(Values[2], Spaces)

\* lineNumber is counted up before anything can refuse the line.
Read ==
  /\ phase = "reading" /\ lineNumber < Len(file)
  /\ lineNumber' = lineNumber + 1
  /\ UNCHANGED <<file, parses, before>>

Skipped == Trimmed # <<>> => Head(Trimmed) = "#"

SkipLine ==
  /\ Read /\ Skipped
  /\ UNCHANGED <<loader, config, phase, result, blamed>>

RefuseEntry ==
  /\ Read /\ ~Skipped /\ Len(Values) # 2
  /\ Fail(lineNumber', "Invalid configuration entry")
  /\ UNCHANGED config

RefuseValue ==
  /\ Read /\ ~Skipped /\ Len(Values) = 2 /\ Value = <<>>
  /\ Fail(lineNumber', "Invalid entry")
  /\ UNCHANGED config

WithKey(map, key, value) ==
  [k \in DOMAIN map \cup {key} |-> IF k = key THEN value ELSE map[k]]

\* A variant of Stored: emplace, which leaves a key that is there alone.
StoredOnce ==
  IF Key = ServerUrlKey THEN [config EXCEPT !.server_url = Value]
  ELSE IF Key \in DOMAIN config.extra THEN config
  ELSE [config EXCEPT !.extra = WithKey(config.extra, Key, Value)]

Stored ==
  IF Key = ServerUrlKey THEN [config EXCEPT !.server_url = Value]
  ELSE [config EXCEPT !.extra = WithKey(config.extra, Key, Value)]

TakeEntry ==
  /\ Read /\ ~Skipped /\ Len(Values) = 2 /\ Value # <<>>
  /\ config' = Stored
  /\ UNCHANGED <<loader, phase, result, blamed>>

EndOfFile ==
  /\ phase = "reading" /\ lineNumber = Len(file)
  /\ config' = [config EXCEPT !.valid = TRUE]
  /\ result' = "true"
  /\ phase' = "idle"
  /\ UNCHANGED <<loader, file, lineNumber, history>>

Next ==
  \/ ParseUnopenable \/ Parse
  \/ SkipLine \/ RefuseEntry \/ RefuseValue \/ TakeEntry \/ EndOfFile

Spec == Init /\ [][Next]_vars

-----------------------------------------------------------------------------
(* Properties. The format of a file by positions, without splitting it.    *)

Inked(line) == {i \in DOMAIN line : line[i] \notin Spaces}
Signs(line) == {i \in DOMAIN line : line[i] = "="}
Bare(text) == IF Inked(text) = {} THEN <<>>
              ELSE SubSeq(text, Min(Inked(text)), Max(Inked(text)))

Ignorable(line) == Inked(line) = {} \/ line[Min(Inked(line))] = "#"
Entry(line) ==
  ~Ignorable(line) /\ \E sign \in Inked(line) : Signs(line) = {sign} /\ sign < Max(Inked(line))
KeyOf(line) == Bare(SubSeq(line, 1, Min(Signs(line)) - 1))
ValueOf(line) == Bare(SubSeq(line, Min(Signs(line)) + 1, Len(line)))

BadLines(f) == {i \in DOMAIN f : ~Ignorable(f[i]) /\ ~Entry(f[i])}

\* What config.extra[key] or server_url is: of the lines read that set it, the
\* last one's value, or what the caller's PluginConfig had.
EntriesRead == {i \in 1..(IF file = Unopenable THEN 0 ELSE lineNumber) : Entry(file[i])}
LastValue(key, old) ==
  LET own == {i \in EntriesRead : KeyOf(file[i]) = key}
  IN  IF own = {} THEN old ELSE ValueOf(file[Max(own)])

TypeOK ==
  /\ errorLine \in {NoLine} \cup 0..MaxLines
  /\ errorFound <=> errorMessage # ""
  /\ phase \in {"idle", "reading"} /\ result \in {"none", "true", "false"}
  /\ file \in Files /\ lineNumber \in 0..Len(file)
  /\ \A c \in {config, before} : c.valid /\ <<>> \notin Range(c.extra)

\* parse succeeds exactly on the files without a bad line, and the loader
\* names the first bad line (0 for no file) of the LAST file it refused: a
\* success in between, or while that file was being read, changes nothing.
ErrorIsExact ==
  /\ phase = "idle" =>
       (result = "true" <=> parses > 0 /\ file # Unopenable /\ BadLines(file) = {})
  /\ errorLine = CASE blamed = <<>> -> NoLine
                   [] blamed = Unopenable -> 0
                   [] OTHER -> Min(BadLines(blamed))

\* Wherever parse stands or stopped, the PluginConfig is what the caller gave
\* it overlaid by the entries read so far, the last of a key winning: a file
\* refused half-way leaves its first half in place.
LastEntryWins ==
  LET keys == {KeyOf(file[i]) : i \in EntriesRead} \ {ServerUrlKey}
      old(key) == IF key \in DOMAIN before.extra THEN before.extra[key] ELSE <<>>
  IN  /\ config.server_url = LastValue(ServerUrlKey, before.server_url)
      /\ config.extra = [key \in DOMAIN before.extra \cup keys |-> LastValue(key, old(key))]
=============================================================================
