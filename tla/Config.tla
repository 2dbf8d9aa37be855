-------------------------------- MODULE Config --------------------------------
(***************************************************************************)
(* Reading muxer.config: read_line and split of src/common/config.c,       *)
(* trim_ws of str.h, and read_config with its helpers of                   *)
(* src/muxer/global.c.  A file is a sequence of symbols; a keyword, a      *)
(* number or a word is one symbol.                                         *)
(***************************************************************************)
EXTENDS Naturals, Sequences, SequencesExt

CONSTANTS
    MAX_BUF_LEN,      \* by how much line_buffer grows, 128 in the code
    MAX_IP_ADDR_LEN,  \* the size of ip in ip_address_t, 16 in the code
    Number            \* the values of the symbols that are numbers

ASSUME ConfigAssumption ==
    /\ MAX_BUF_LEN \in Nat \ {0}
    /\ MAX_IP_ADDR_LEN \in Nat \ {0}
    /\ \A n \in DOMAIN Number : Number[n] \in Nat

\* How many values a USHORT has.
ShortValues == 65536

Port == 0 .. ShortValues - 1

\* isspace, but for the end of the line.
Blank == {" "}

\* read_line takes the character 255 for EOF, as ch is a char.
LineEnd == {"newline", "char 255"}

Flag == {"LOG_INFO", "LOG_DEBUG", "LOG_ERROR"}
Address == {"CONNECTION_IN", "CONNECTION_OUT"}

\* global_config, and whether reading it ended the program: strcpy_s does not
\* return when the destination is too small.
Default ==
    [LOG_INFO |-> FALSE, LOG_DEBUG |-> TRUE, LOG_ERROR |-> FALSE,
     CONNECTION_IN |-> [ip |-> <<"localhost">>, port |-> 27014],
     CONNECTION_OUT |-> [ip |-> <<"localhost">>, port |-> 27015],
     aborted |-> FALSE]

\* The size of line_buffer when count characters are stored in it: it grows
\* when there is one more to store and it is full.
max_line_len[count \in Nat] ==
    IF count = 0 THEN MAX_BUF_LEN
    ELSE max_line_len[count - 1]
           + (IF count - 1 = max_line_len[count - 1] THEN MAX_BUF_LEN ELSE 0)

\* Fault: line_buffer grows only once.
OverrunsGrownOnce(line) == Len(line) >= 2 * MAX_BUF_LEN

\* The terminating NUL of a line is stored behind the end of line_buffer.
Overruns(line) == Len(line) >= max_line_len[Len(line)]

\* read_line, again and again until feof: behind the last line end there is
\* always one more line, an empty one at the end of most files.
read_lines(file) ==
    LET End(i) == SelectInSubSeq(file, i, Len(file), LAMBDA ch : ch \in LineEnd)
        lines[i \in 1 .. Len(file) + 1] ==
            IF End(i) = 0 THEN <<SubSeq(file, i, Len(file))>>
            ELSE <<SubSeq(file, i, End(i) - 1)>> \o lines[End(i) + 1]
    IN  lines[1]

\* split: the key is what is before the first token, the value what is
\* behind it.
Split(pair, token) ==
    LET delim == SelectInSeq(pair, LAMBDA ch : ch = token)
    IN  [found |-> delim # 0,
         key |-> SubSeq(pair, 1, delim - 1),
         value |-> SubSeq(pair, delim + 1, Len(pair))]

trim_ws(str) ==
    LET I == {i \in DOMAIN str : str[i] \notin Blank}
    IN  IF I = {} THEN <<>> ELSE SubSeq(str, Min(I), Max(I))

\* Fault: the port is stored in more than 16 bits.
atoi_unbounded(str) ==
    IF str # <<>> /\ str[1] \in DOMAIN Number THEN Number[str[1]] ELSE 0

\* atoi stops at INT_MAX, and the port is a USHORT.
INT_MAX == 2147483647

Short(n) == (IF n < INT_MAX THEN n ELSE INT_MAX) % ShortValues

atoi(str) ==
    IF str # <<>> /\ str[1] \in DOMAIN Number THEN Short(Number[str[1]]) ELSE 0

\* Without a colon the address stays as it is.
read_ip_address(config, name, input) ==
    LET pair == Split(input, ":")
        ip == trim_ws(pair.key)
    IN  IF ~pair.found THEN config
        ELSE IF Len(ip) >= MAX_IP_ADDR_LEN
               THEN [config EXCEPT !.aborted = TRUE]
        ELSE [config EXCEPT
                 ![name] = [ip |-> ip, port |-> atoi(trim_ws(pair.value))]]

\* Fault: a key that is known switches the flag on.
read_config_line_ignoring_value(config, line) ==
    LET pair == Split(line, "=")
        key == trim_ws(pair.key)
        value == trim_ws(pair.value)
    IN  IF config.aborted \/ ~pair.found \/ Len(key) # 1 THEN config
        ELSE IF key[1] \in Flag THEN [config EXCEPT ![key[1]] = TRUE]
        ELSE IF key[1] \in Address THEN read_ip_address(config, key[1], value)
        ELSE config

read_config_line(config, line) ==
    LET pair == Split(line, "=")
        key == trim_ws(pair.key)
        value == trim_ws(pair.value)
    IN  IF config.aborted \/ ~pair.found \/ Len(key) # 1 THEN config
        ELSE IF key[1] \in Flag
               THEN [config EXCEPT ![key[1]] = (value = <<"TRUE">>)]
        ELSE IF key[1] \in Address THEN read_ip_address(config, key[1], value)
        ELSE config

read_config(file) == FoldLeft(read_config_line, Default, read_lines(file))

(***************************************************************************)
(* What a reader of the file expects: the last line that says something    *)
(* about a key counts, blanks around keys and values do not.  Only a       *)
(* newline ends a line, and a port is the number that is written there.    *)
(***************************************************************************)
\* s is what is left of str without the blanks around it.
Strips(str, s) ==
    \E i \in 1 .. Len(str) + 1, j \in 0 .. Len(str) :
        /\ s = SubSeq(str, i, j)
        /\ \A n \in DOMAIN str : n < i \/ n > j => str[n] \in Blank
        /\ s # <<>> => s[1] \notin Blank /\ s[Len(s)] \notin Blank

SameLine(file, i, j) == \A n \in i .. j : file[n] # "newline"

\* The positions of the first "=" of the lines that assign to key k.
Assignments(file, k) ==
    {e \in DOMAIN file :
        /\ file[e] = "="
        /\ \E i \in 1 .. e : /\ i = 1 \/ file[i - 1] = "newline"
                             /\ SameLine(file, i, e)
                             /\ Strips(SubSeq(file, i, e - 1), <<k>>)}

ValueAt(file, e) ==
    SubSeq(file, e + 1, Max({j \in e .. Len(file) : SameLine(file, e, j)}))

\* Is there a character 255 on a line that could be an assignment?
HasCutLine(file) ==
    \E e, j \in DOMAIN file :
        /\ file[e] = "=" /\ file[j] = "char 255"
        /\ SameLine(file, e, j) /\ SameLine(file, j, e)

IsAddress(value) == Contains(value, ":")

\* A port is a number, whatever is behind it.
PortIn(str) ==
    LET I == {i \in DOMAIN str : str[i] \notin Blank}
    IN  IF I # {} /\ str[Min(I)] \in DOMAIN Number THEN Number[str[Min(I)]]
        ELSE 0

FlagIn(file, k) ==
    LET A == Assignments(file, k)
    IN  IF A = {} THEN Default[k] ELSE Strips(ValueAt(file, Max(A)), <<"TRUE">>)

\* What is around the first ":" of a value.  Nothing is said of the port for a
\* number that is none.
StandsFor(value, address) ==
    LET colon == Min({i \in DOMAIN value : value[i] = ":"})
        port == PortIn(SubSeq(value, colon + 1, Len(value)))
    IN  /\ Strips(SubSeq(value, 1, colon - 1), address.ip)
        /\ port \in Port => address.port = port

\* The address config has for key k is the one in file.
HasAddress(config, file, k) ==
    LET A == {e \in Assignments(file, k) : IsAddress(ValueAt(file, e))}
    IN  IF A = {} THEN config[k] = Default[k]
        ELSE StandsFor(ValueAt(file, Max(A)), config[k])

IsAsWritten(config, file) ==
    /\ \A k \in Flag : config[k] = FlagIn(file, k)
    /\ \A k \in Address : HasAddress(config, file, k)
=============================================================================
