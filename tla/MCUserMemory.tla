---------------------------- MODULE MCUserMemory ----------------------------
(* Sixteen pages of eight bytes.  The files are one that loads, with text   *)
(* and data, and every file that differs from it in one or two fields.      *)
EXTENDS UserMemory

Header(address, offset, file_size, memory_size) ==
  [load |-> TRUE, write |-> FALSE, execute |-> FALSE, offset |-> offset, address |-> address,
   file_size |-> file_size, memory_size |-> memory_size, alignment |-> 8]

Text == [Header(8, 5, 7, 7) EXCEPT !.execute = TRUE]
Data == [Header(24, 12, 3, 9) EXCEPT !.write = TRUE]

Base == [ident |-> TRUE, entry |-> 10, phoff |-> 1, phentsize |-> 2, size |-> 16,
         headers |-> <<Text, Data>>]

MCTexts == {Text} \cup {[Text EXCEPT !.file_size = n, !.memory_size = m] : n \in {0, 2, 9}, m \in {8, 16}}
             \cup {[Text EXCEPT !.execute = FALSE], [Text EXCEPT !.write = TRUE]}
MCDatas == {Data} \cup {[Data EXCEPT !.address = a] : a \in {12, 16, 112, 128, 0}}
             \cup {[Data EXCEPT !.alignment = n] : n \in {0, 3}}
             \cup {[Data EXCEPT !.memory_size = 0], [Data EXCEPT !.file_size = 5],
                   [Data EXCEPT !.file_size = 0], [Data EXCEPT !.write = FALSE],
                   [Data EXCEPT !.load = FALSE]}

MCFiles == {[Base EXCEPT !.headers = <<t, d>>] : t \in MCTexts, d \in MCDatas}
             \cup {[Base EXCEPT !.headers = <<>>], [Base EXCEPT !.ident = FALSE],
                   [Base EXCEPT !.phoff = 15], [Base EXCEPT !.entry = 3],
                   [Base EXCEPT !.entry = 25], [Base EXCEPT !.entry = 15],
                   [Base EXCEPT !.headers = <<Data, Text>>], [Base EXCEPT !.headers[1].load = FALSE]}

\* None, several with empty ones among them, and one that does not fit.
MCArguments == {<< <<>>, <<>> >>, << << <<65>>, <<>> >>, << <<69>> >> >>,
                << <<>>, << <<65, 66, 67, 68, 69, 70, 71, 72, 73, 74, 75, 76, 77, 78>> >> >>}

MCReserved == {{}, {1}, 2 .. 7}

\* A load of the base file takes seven tables and page 4 two more: six stop the
\* load half way, seven a fault before and eight one after it has linked a table.
MCArenas == {6, 7, 8, 9}
=============================================================================
