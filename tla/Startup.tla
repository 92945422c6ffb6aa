------------------------------- MODULE Startup -------------------------------
(***************************************************************************)
(* From the command line to the first cycle, in both simulators: the       *)
(* parsing of arguments, the loading of the program and its arguments into *)
(* main memory, and the stub that jumps to the program's entry point.      *)
(*                                                                         *)
(* A word of the command line is a record: `full' the word, `name' and     *)
(* `value' its parts before and after "=" (the value "" if there is none), *)
(* `dash' whether it starts with "-", and `bytes' its characters.  A file  *)
(* that is missing or is no RISC-V program has riscv = FALSE.              *)
(***************************************************************************)
EXTENDS Simulation, ByteMemory, SequencesExt

CONSTANTS CommandLines,
          Files,        \* the file that a word names
          stoi,         \* the numbers among the words
          ArgumentSpace,        \* 1024: bytes for the program's arguments
          DefaultTimeout

VARIABLES argv, args_parsed, args_found, binary_position,
          mem, entry_point, tohost, fromhost,
          loaded        \* sections that were looked at

argVars == <<argv, args_parsed, args_found, binary_position>>
hostVars == <<entry_point, tohost, fromhost>>
startVars == <<argVars, mem, hostVars, loaded>>

arg_info == [option \in {"--timeout", "--coverage", "--memory-latency", "--csv", "-v", "-vv", "--help"} |->
                IF option \in {"-v", "-vv", "--help"} THEN "ARGS_NONE" ELSE "ARGS_ONE"]

argc == Len(argv)

StartInit ==
    /\ SimInit /\ stage = "parse" /\ timeout = DefaultTimeout
    /\ argv \in CommandLines
    /\ args_parsed = 0 /\ args_found = [option \in {} |-> ""]
    /\ binary_position = None           \* uninitialised
    /\ mem = [a \in Address |-> Unset]
    /\ entry_point = None /\ tohost = None /\ fromhost = None
    /\ loaded = 0

\* Every step of the start-up leaves the loop alone, or ends the process: by
\* exit(0), or by an exception or a failed assertion that nothing catches.
Go(to) == stage' = to /\ UNCHANGED <<cycle, queue, shown, status>>
Stop(how) ==
    /\ stage' = "done" /\ status' = how
    /\ UNCHANGED <<cycle, timeout, queue, shown, got_finish, exit_code, mem, hostVars, loaded>>

-----------------------------------------------------------------------------
(* ArgumentParser::parse_args, one iteration of its loop a step *)

known(i) == i <= argc /\ argv[i].name \in DOMAIN arg_info
\* The argument i takes the next word as its value.
wants_next(i) == arg_info[argv[i].name] = "ARGS_ONE" /\ argv[i].value = ""

\* Mutation: a flag is looked at again and again.
args_parsed_after_Stuck(i) == IF wants_next(i) THEN i + 1 ELSE i - 1

\* Mutation: the word that was taken as a value is parsed again.
args_parsed_after_Again(i) == i

args_parsed_after(i) == IF wants_next(i) THEN i + 1 ELSE i

ParseArgument ==
    LET i == args_parsed + 1
        value == IF wants_next(i) THEN argv[i + 1].full ELSE argv[i].value
    IN  /\ stage = "parse" /\ argc > 0 /\ known(i)
        /\ \/ wants_next(i) /\ i = argc /\ Stop("abort")         \* string(NULL)
              /\ UNCHANGED argVars
           \/ /\ ~(wants_next(i) /\ i = argc)
              /\ args_parsed' = args_parsed_after(i)
              /\ args_found' = [o \in DOMAIN args_found \cup {argv[i].name} |->
                                   IF o = argv[i].name THEN value ELSE args_found[o]]
              /\ Go("parse")
              /\ UNCHANGED <<argv, binary_position, timeout, got_finish, exit_code, mem, hostVars, loaded>>

-----------------------------------------------------------------------------
(* The rest of both parse_args, up to read_binary *)

found(option) == option \in DOMAIN args_found
number(option) == found(option) => args_found[option] \in DOMAIN stoi

\* With nothing on the command line the help is printed.  --timeout is read
\* before --help is looked for, --memory-latency after the program.
Help == argc = 0 \/ (number("--timeout") /\ found("--help"))
Refused ==
    \/ ~number("--timeout")
    \/ args_parsed < argc /\ argv[args_parsed + 1].dash
    \/ ~number("--memory-latency")

Configure ==
    /\ stage = "parse" /\ (argc = 0 \/ ~known(args_parsed + 1))
    /\ \/ Help /\ Stop("help") /\ UNCHANGED argVars
       \/ ~Help /\ Refused /\ Stop("abort") /\ UNCHANGED argVars
       \/ /\ ~Help /\ ~Refused
          /\ timeout' = IF found("--timeout") THEN stoi[args_found["--timeout"]] ELSE timeout
          \* Without a program the position is read uninitialised: it may be that
          \* of any word, or of none.
          /\ binary_position' \in IF args_parsed < argc THEN {args_parsed + 1} ELSE 1 .. argc + 1
          /\ Go("arguments")
          /\ UNCHANGED <<argv, args_parsed, args_found, got_finish, exit_code, mem, hostVars, loaded>>

-----------------------------------------------------------------------------
(* read_binary: BinaryParser::load_elf, entry_point and symbol_location *)

\* Numbers as memory holds them, in n bytes.  All are below 2^24.
Little(v, n) == [i \in 1 .. n |-> IF i <= 3 THEN (v \div 256 ^ (i - 1)) % 256 ELSE 0]
Value(bytes) == bytes[1] + 256 * bytes[2] + 65536 * bytes[3]

words == SubSeq(argv, binary_position, argc)    \* the program and its arguments

NotRiscv == [riscv |-> FALSE]
program == IF words[1].full \in DOMAIN Files THEN Files[words[1].full] ELSE NotRiscv

\* Mutation: the zero word behind argv is forgotten.
argv_ptr_NoZero(i) ==
    4 + 4 + Len(words) * 8 + MapThenSumSet(LAMBDA j : Len(words[j].bytes), 1 .. i - 1)

\* Where the characters of argument i start.  The next ones follow at once: the
\* zero that ends a string is overwritten, and the last one is cut off.
argv_ptr(i) ==
    4 + 4 + Len(words) * 8 + 4 + MapThenSumSet(LAMBDA j : Len(words[j].bytes), 1 .. i - 1)

arguments ==
    Little(0, 4) \o Little(Len(words), 4)
    \o FlattenSeq([i \in 1 .. Len(words) |-> Little(argv_ptr(i), 8)])
    \o Little(0, 4)
    \o FlattenSeq([i \in 1 .. Len(words) |-> words[i].bytes])

LoadArguments ==
    /\ stage = "arguments" /\ UNCHANGED argVars
    /\ \/ Len(words) < 1 /\ Stop("abort")
       \/ Len(words) >= 1 /\ argv_ptr(Len(words) + 1) >= ArgumentSpace /\ Stop("abort")
       \/ /\ Len(words) >= 1 /\ argv_ptr(Len(words) + 1) < ArgumentSpace
          /\ mem' = Overwrite(mem, 0, arguments)
          /\ Go("sections")
          /\ UNCHANGED <<timeout, got_finish, exit_code, hostVars, loaded>>

\* Mutation: a section whose data is not in the file is loaded too.
to_load_NoBits(section) == section.alloc

to_load(section) == section.alloc /\ ~section.nobits

LoadSection ==
    LET section == program.sections[loaded + 1]
    IN  /\ stage = "sections" /\ UNCHANGED argVars
        /\ \/ ~program.riscv /\ Stop("abort")
           \/ /\ program.riscv /\ loaded < Len(program.sections)
              /\ to_load(section) /\ ~InRange(section.address, Len(section.bytes))
              /\ Stop("abort")                                          \* AccessFault
           \/ /\ program.riscv /\ loaded < Len(program.sections)
              /\ to_load(section) => InRange(section.address, Len(section.bytes))
              /\ mem' = IF to_load(section) THEN Overwrite(mem, section.address, section.bytes) ELSE mem
              /\ loaded' = loaded + 1
              /\ Go("sections")
              /\ UNCHANGED <<timeout, got_finish, exit_code, hostVars>>

\* The value of the first symbol of that name, -1 if there is none.
symbol_location(name) ==
    LET Named == {i \in 1 .. Len(program.symbols) : program.symbols[i].name = name}
    IN  IF Named = {} THEN None ELSE program.symbols[Min(Named)].value

ReadSymbols ==
    /\ stage = "sections" /\ program.riscv /\ loaded = Len(program.sections)
    /\ entry_point' = program.entry
    /\ tohost' = symbol_location("tohost") /\ fromhost' = symbol_location("fromhost")
    /\ Go("entry")
    /\ UNCHANGED <<argVars, timeout, got_finish, exit_code, mem, loaded>>

-----------------------------------------------------------------------------
(* run, up to the first half cycle *)

is_putchar(bytes) == \A i \in 2 .. 8 : bytes[i] = IF i <= 6 THEN 0 ELSE 1

\* MainMemory::write8 .. write64 on s = [mem, code]: a write to the host is a
\* system call instead, which exits unless it prints a character.
Written(s, address, bytes) ==
    LET data == [i \in 1 .. 8 |-> IF i <= Len(bytes) THEN bytes[i] ELSE 0]
    IN  IF address \notin {tohost, fromhost} THEN [s EXCEPT !.mem = Overwrite(@, address, bytes)]
        ELSE IF is_putchar(data) THEN s
        ELSE [s EXCEPT !.code = Value(data)]

\* auipc a0, 0; ld a0, 16(a0); jr a0
Stub == <<23, 5, 0, 0, 3, 53, 5, 1>> \o <<2, 133, 0, 0, 0, 0, 0, 0>>

set_entry_point(s) ==
    Written(Written(Written(s, 0, SubSeq(Stub, 1, 8)), 8, SubSeq(Stub, 9, 16)), 16, Little(entry_point, 8))

Reset ==
    LET s == set_entry_point([mem |-> mem, code |-> None])
    IN  /\ stage = "entry"
        /\ mem' = s.mem /\ system_call(s.code)
        /\ Go("reset")
        /\ UNCHANGED <<argVars, timeout, hostVars, loaded>>

StartNext == ParseArgument \/ Configure \/ LoadArguments \/ LoadSection \/ ReadSymbols \/ Reset

-----------------------------------------------------------------------------
(* Properties *)

\* The command line read from outside: a word is the value of an option if the
\* word before it is an option that lacks one and is no value itself; the
\* program is the first word that is neither, and what follows is its own.
Values ==
    CHOOSE S \in SUBSET (1 .. argc) :
        \A i \in 1 .. argc :
            i \in S <=> i > 1 /\ i - 1 \notin S /\ argv[i - 1].name \in DOMAIN arg_info /\ wants_next(i - 1)
Programs == {i \in 1 .. argc \ Values : argv[i].name \notin DOMAIN arg_info}
Timeouts == {i \in 1 .. argc \ Values : argv[i].name = "--timeout" /\ \A p \in Programs : i < p}

\* The usage that print_help describes: "[simulator args] <program> [program
\* args]", the last --timeout in force, none of the program's own words taken
\* for the simulator's, and no value taken for the program.
CommandLineObeyed ==
    stage \notin {"parse", "done"} =>
        /\ Programs # {} => binary_position = Min(Programs)
        /\ timeout = IF Timeouts = {} THEN DefaultTimeout
                     ELSE LET i == Max(Timeouts)
                          IN  stoi[IF wants_next(i) THEN argv[i + 1].full ELSE argv[i].value]

Covers(section, a) == a - section.address + 1 \in 1 .. Len(section.bytes)

\* Memory when the first cycle starts: the jump to the entry point, then every
\* byte that the program's file has for memory, then the arguments, and nothing
\* else; unless the stub was taken for a system call.
ImageLoaded ==
    stage = "reset" /\ ~got_finish =>
        \A a \in Address :
            LET There == {i \in 1 .. Len(program.sections) :
                             /\ program.sections[i].alloc /\ ~program.sections[i].nobits
                             /\ Covers(program.sections[i], a)}
                section == program.sections[Max(There)]
            IN  mem[a] = IF a < 16 THEN Stub[a + 1]
                         ELSE IF a < 24 THEN Little(entry_point, 8)[a - 15]
                         ELSE IF There # {} THEN section.bytes[a - section.address + 1]
                         ELSE IF a < Len(arguments) THEN arguments[a + 1]
                         ELSE Unset

\* The arguments that the stub leaves (argc, argv[0] and argv[1] are under it):
\* each pointer leads to the characters of its argument, and a zero word ends
\* argv; unless the program has been loaded over them.
ArgvReadable ==
    stage = "reset" /\ ~got_finish
      /\ (\A i \in 1 .. Len(program.sections), a \in 24 .. Len(arguments) - 1 :
              to_load(program.sections[i]) => ~Covers(program.sections[i], a))
    => /\ \A i \in 3 .. Len(words) :
              BytesAt(mem, Value(BytesAt(mem, 8 * i, 8)), Len(words[i].bytes)) = words[i].bytes
       /\ Len(words) >= 2 => BytesAt(mem, 8 + 8 * Len(words), 4) = <<0, 0, 0, 0>>
=============================================================================
