-------------------------------- MODULE PCCC --------------------------------
(***************************************************************************)
(* ethernetip/pccc: SLC addresses, the typed read and write commands and the  *)
(* data table they work on.  An address text is a sequence of one-character    *)
(* strings; a parsed address is [ft, file, elem, sub, bit], bit -1 for none.   *)
(***************************************************************************)
EXTENDS Bytes, SequencesExt

FileTypeStatus == 132
FileTypeBit == 133
FileTypeTimer == 134
FileTypeCounter == 135
FileTypeControl == 136
FileTypeInteger == 137
FileTypeFloat == 138
FileTypeOutput == 139
FileTypeInput == 140
FileTypeString == 141
FileTypeASCII == 142
FileTypeBCD == 143

fileTypeTable ==
    { <<FileTypeStatus, <<"S">> >>, <<FileTypeBit, <<"B">> >>, <<FileTypeTimer, <<"T">> >>,
      <<FileTypeCounter, <<"C">> >>, <<FileTypeControl, <<"R">> >>, <<FileTypeInteger, <<"N">> >>,
      <<FileTypeFloat, <<"F">> >>, <<FileTypeOutput, <<"O">> >>, <<FileTypeInput, <<"I">> >>,
      <<FileTypeString, <<"S", "T">> >>, <<FileTypeASCII, <<"A">> >>, <<FileTypeBCD, <<"D">> >> }

FileTypes == {e[1] : e \in fileTypeTable}
Letter(ft) == (CHOOSE e \in fileTypeTable : e[1] = ft)[2]

(* Mutant of FileTypeFromLetter: only the first letter decides. *)
FileTypeFromFirstLetter(letters) ==
    IF letters = <<>> THEN {} ELSE {e[1] : e \in {f \in fileTypeTable : f[2][1] = letters[1]}}

FileTypeFromLetter(letters) == {e[1] : e \in {f \in fileTypeTable : f[2] = letters}}

isTimerLike(ft) == ft \in {FileTypeTimer, FileTypeCounter, FileTypeControl}

implicitFileNumber(ft) ==
    CASE ft = FileTypeOutput -> {0} [] ft = FileTypeInput -> {1} [] ft = FileTypeStatus -> {2}
      [] OTHER -> {}

supportsBitSuffix(ft) ==
    ft \in {FileTypeInteger, FileTypeBit, FileTypeStatus, FileTypeInput, FileTypeOutput, FileTypeBCD}

(* Named fields: <<name, sub-element, bit>> *)
Word(name, sub) == <<name, sub, -1>>
Flag(name, bit) == <<name, 0, bit>>

timerFields ==
    {Word(<<"P", "R", "E">>, 1), Word(<<"A", "C", "C">>, 2),
     Flag(<<"E", "N">>, 15), Flag(<<"T", "T">>, 14), Flag(<<"D", "N">>, 13)}
counterFields ==
    {Word(<<"P", "R", "E">>, 1), Word(<<"A", "C", "C">>, 2),
     Flag(<<"C", "U">>, 15), Flag(<<"C", "D">>, 14), Flag(<<"D", "N">>, 13),
     Flag(<<"O", "V">>, 12), Flag(<<"U", "N">>, 11), Flag(<<"U", "A">>, 10)}
controlFields ==
    {Word(<<"L", "E", "N">>, 1), Word(<<"P", "O", "S">>, 2),
     Flag(<<"E", "N">>, 15), Flag(<<"E", "U">>, 14), Flag(<<"D", "N">>, 13), Flag(<<"E", "M">>, 12),
     Flag(<<"E", "R">>, 11), Flag(<<"U", "L">>, 10), Flag(<<"I", "N">>, 9), Flag(<<"F", "D">>, 8)}

tableFor(ft) ==
    CASE ft = FileTypeTimer -> timerFields
      [] ft = FileTypeCounter -> counterFields
      [] ft = FileTypeControl -> controlFields
      [] OTHER -> {}

lookupNamedField(ft, name) == {f \in tableFor(ft) : f[1] = name}
fieldNameFor(ft, sub, bit) == {f \in tableFor(ft) : f[2] = sub /\ f[3] = bit}

-----------------------------------------------------------------------------
(* Text *)
Upper == <<"A", "B", "C", "D", "E", "F", "G", "H", "I", "J", "K", "L", "M",
           "N", "O", "P", "Q", "R", "S", "T", "U", "V", "W", "X", "Y", "Z">>
Lower == <<"a", "b", "c", "d", "e", "f", "g", "h", "i", "j", "k", "l", "m",
           "n", "o", "p", "q", "r", "s", "t", "u", "v", "w", "x", "y", "z">>
Digits == <<"0", "1", "2", "3", "4", "5", "6", "7", "8", "9">>

ToUpper(s) ==
    [i \in DOMAIN s |-> IF \E k \in 1..26 : Lower[k] = s[i]
                        THEN Upper[CHOOSE k \in 1..26 : Lower[k] = s[i]] ELSE s[i]]

isAlpha(c) == \E k \in 1..26 : c \in {Upper[k], Lower[k]}
isDigit(c) == \E k \in 1..10 : Digits[k] = c
digitsOnly(s) == s # <<>> /\ \A i \in DOMAIN s : isDigit(s[i])
isAllDigitsOrLeadingSign(s) ==
    IF s # <<>> /\ s[1] \in {"-", "+"} THEN digitsOnly(Tail(s)) ELSE digitsOnly(s)

(* strconv.Atoi and Itoa, in the range of the addresses *)
Atoi(s) ==
    (IF s[1] = "-" THEN -1 ELSE 1)
      * FoldLeft(LAMBDA n, c : 10 * n + (CHOOSE k \in 0..9 : Digits[k + 1] = c), 0,
                 IF s[1] \in {"-", "+"} THEN Tail(s) ELSE s)

Itoa(n) ==
    (IF n >= 100 THEN <<Digits[1 + n \div 100]>> ELSE <<>>)
      \o (IF n >= 10 THEN <<Digits[1 + ((n \div 10) % 10)]>> ELSE <<>>) \o <<Digits[1 + (n % 10)]>>

Trim(s) ==
    LET ink == {i \in DOMAIN s : s[i] # " "}
    IN  IF ink = {} THEN <<>> ELSE SubSeq(s, Min(ink), Max(ink))

(* s up to, and after, the first character of the set; sep is that character. *)
CutAt(s, chars) ==
    LET hits == {i \in DOMAIN s : s[i] \in chars}
    IN  IF hits = {} THEN [head |-> s, tail |-> <<>>, sep |-> "none"]
        ELSE [head |-> SubSeq(s, 1, Min(hits) - 1), tail |-> SubSeq(s, Min(hits) + 1, Len(s)),
              sep |-> s[Min(hits)]]

splitSuffix(s) == CutAt(s, {".", "/"})

splitLeadingLetters(s) ==
    LET others == {i \in DOMAIN s : ~isAlpha(s[i])}
        n == IF others = {} THEN Len(s) ELSE Min(others) - 1
    IN  [letters |-> SubSeq(s, 1, n), rest |-> SubSeq(s, n + 1, Len(s))]

InByte(n) == n >= 0 /\ n <= 255

ParseFileNumber(ft, text) ==
    LET def == implicitFileNumber(ft)
    IN  IF text = <<>> THEN (IF def = {} THEN Err("missing file number") ELSE Ok(CHOOSE n \in def : TRUE))
        ELSE IF ~digitsOnly(text) \/ ~InByte(Atoi(text)) THEN Err("invalid file number")
        ELSE IF def # {} /\ Atoi(text) \notin def THEN Err("requires its own file number")
        ELSE Ok(Atoi(text))

(* The sub-element and bit a suffix selects. *)
ParseSuffix(ft, cut) ==
    LET field == lookupNamedField(ft, cut.tail)
    IN  CASE cut.sep = "none" -> Ok(<<0, -1>>)
          [] cut.sep = "." -> IF field = {} THEN Err("unknown field")
                              ELSE LET f == CHOOSE g \in field : TRUE IN Ok(<<f[2], f[3]>>)
          [] cut.sep = "/" -> IF ~isAllDigitsOrLeadingSign(cut.tail) THEN Err("invalid bit")
                              ELSE IF Atoi(cut.tail) \notin 0..15 THEN Err("bit out of range")
                              ELSE IF ~supportsBitSuffix(ft) THEN Err("bit suffix not supported")
                              ELSE Ok(<<0, Atoi(cut.tail)>>)

ParseAddress(s) ==
    LET element(ft, file, text, cut) ==
            IF ~isAllDigitsOrLeadingSign(text) THEN Err("trailing garbage")
            ELSE IF ~InByte(Atoi(text)) THEN Err("element out of range")
            ELSE Try(ParseSuffix(ft, cut), LAMBDA suffix :
                     Ok([ft |-> ft, file |-> file, elem |-> Atoi(text), sub |-> suffix[1], bit |-> suffix[2]]))
        file(fts, left, text, cut) ==
            IF fts = {} THEN Err("unknown file type")
            ELSE LET ft == CHOOSE t \in fts : TRUE
                 IN  Try(ParseFileNumber(ft, left.rest), LAMBDA n : element(ft, n, text, cut))
        typed(left, text, cut) == file(FileTypeFromLetter(left.letters), left, text, cut)
        main(m, cut) == IF m.sep = "none" \/ m.tail = <<>> THEN Err("no element")
                        ELSE typed(splitLeadingLetters(m.head), m.tail, cut)
        split(cut) == main(CutAt(cut.head, {":"}), cut)
    IN  split(splitSuffix(ToUpper(Trim(s))))

(* Address.String *)
AddressString(a) ==
    LET named == fieldNameFor(a.ft, a.sub, a.bit)
    IN  Letter(a.ft) \o (IF a.file \in implicitFileNumber(a.ft) THEN <<>> ELSE Itoa(a.file))
          \o <<":">> \o Itoa(a.elem)
          \o (IF named # {} THEN <<".">> \o (CHOOSE f \in named : TRUE)[1]
              ELSE IF a.bit >= 0 THEN <<"/">> \o Itoa(a.bit) ELSE <<>>)

-----------------------------------------------------------------------------
(* Commands and replies, pccc/frame.go *)
CmdProtectedTypedLogical == 15
FuncProtectedTypedLogicalRead == 162
FuncProtectedTypedLogicalWrite == 170
ReplyBit == 64
StatusUseExtSTS == 240
MaxReadBytes == 240
MaxWriteBytes == 240

validateAddress(a) == a.ft \in FileTypes /\ InByte(a.file) /\ InByte(a.elem) /\ InByte(a.sub)

EncodeTypedRead(tns, size, a) ==
    IF ~validateAddress(a) \/ size \notin 1..255 THEN Err("out of range")
    ELSE Ok(<<CmdProtectedTypedLogical, 0>> \o LE16(tns)
              \o <<FuncProtectedTypedLogicalRead, size, a.file, a.ft, a.elem, a.sub>>)

EncodeTypedWrite(tns, a, data) ==
    IF ~validateAddress(a) \/ data = <<>> \/ Len(data) > MaxWriteBytes THEN Err("out of range")
    ELSE Ok(<<CmdProtectedTypedLogical, 0>> \o LE16(tns)
              \o <<FuncProtectedTypedLogicalWrite, a.file, a.ft, a.elem, a.sub>> \o data)

(* A pccc.Error is the status and extended status; any other error is plain. *)
PCCCError(sts, ext) == Err(<<"pccc", sts, ext>>)

DecodeReply(raw) ==
    IF Len(raw) < 4 \/ ~BitOf(raw[1], 6) THEN Err("malformed reply")
    ELSE IF raw[2] = StatusUseExtSTS
         THEN IF Len(raw) < 5 THEN Err("missing EXT STS") ELSE PCCCError(raw[2], raw[5])
    ELSE IF raw[2] # 0 THEN PCCCError(raw[2], 0)
    ELSE Ok([tns |-> U16LE(raw, 2), data |-> From(raw, 4)])

-----------------------------------------------------------------------------
(* The controller, as the commands address it: a file is a sequence of words,  *)
(* an element takes three of them in T, C and R files, two in F files and one   *)
(* elsewhere.                                                                *)
WordsPerElement(ft) == IF isTimerLike(ft) THEN 3 ELSE IF ft = FileTypeFloat THEN 2 ELSE 1
FirstWord(ft, elem, sub) == elem * WordsPerElement(ft) + sub

TableRead(table, file, at, size) == Slice(PackWords(LE16, table[file]), 2 * at, size)
TableWrite(table, file, at, data) ==
    [table EXCEPT ![file] =
        [i \in DOMAIN @ |-> IF i - 1 - at \in 0..(Len(data) \div 2 - 1)
                            THEN U16LE(data, 2 * (i - 1 - at)) ELSE @[i]]]

Controller(table, cmd) ==
    LET reply(sts, data) == <<CmdProtectedTypedLogical + ReplyBit, sts, cmd[3], cmd[4]>> \o data
        read == cmd[5] = FuncProtectedTypedLogicalRead
        file == IF read THEN cmd[7] ELSE cmd[6]
        at == IF read THEN FirstWord(cmd[8], cmd[9], cmd[10]) ELSE FirstWord(cmd[7], cmd[8], cmd[9])
        size == IF read THEN cmd[6] ELSE Len(cmd) - 9
    IN  IF file \notin DOMAIN table THEN [table |-> table, reply |-> reply(16, <<>>)]
        ELSE IF 2 * at + size > 2 * Len(table[file])
             THEN [table |-> table, reply |-> reply(StatusUseExtSTS, <<10>>)]
        ELSE IF read THEN [table |-> table, reply |-> reply(0, TableRead(table, file, at, size))]
        ELSE [table |-> TableWrite(table, file, at, From(cmd, 9)), reply |-> reply(0, <<>>)]
=============================================================================
