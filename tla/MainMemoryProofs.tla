--------------------------- MODULE MainMemoryProofs ---------------------------
(***************************************************************************)
(* For every page size, set of widths and size of memory: the pages of     *)
(* MainMemory are well formed, and MainMemory implements FlatMemory.       *)
(***************************************************************************)
EXTENDS MainMemory, TLAPS

(* Arithmetic of pages *)

\* Multiples of P are at least P apart.
LEMMA MulGap == ASSUME NEW p \in Int, NEW q \in Int, NEW P \in Nat \ {0}, p < q
                PROVE p * P + P <= q * P
<1>1. PICK d \in Nat : q = p + 1 + d
  BY q - p - 1 \in Nat
<1>2. q * P = p * P + P + d * P
  BY <1>1
<1>3. d * P >= 0
  BY <1>1
<1> QED
  BY <1>2, <1>3

\* The remainder is the only number below P that is a multiple of P away.
LEMMA ModUnique == ASSUME NEW a \in Int, NEW P \in Nat \ {0}, NEW q \in Int, NEW r \in 0 .. P - 1, a = q * P + r
                   PROVE a % P = r
<1>1. a % P \in 0 .. P - 1 /\ a = (a \div P) * P + (a % P) /\ a \div P \in Int
  OBVIOUS
<1> DEFINE p == a \div P
           s == a % P
<1> HIDE DEF p, s
<1>2. p * P + s = q * P + r /\ s \in 0 .. P - 1 /\ p \in Int
  BY <1>1 DEF p, s
<1>3. CASE p < q
  <2>1. p * P + P <= q * P
    BY <1>2, <1>3, MulGap
  <2> QED BY <2>1, <1>2
<1>4. CASE q < p
  <2>1. q * P + P <= p * P
    BY <1>2, <1>4, MulGap
  <2> QED BY <2>1, <1>2
<1>5. CASE q = p
  BY <1>5, <1>2 DEF s
<1> QED BY <1>2, <1>3, <1>4, <1>5

\* get_tag and get_offset split an address into a multiple of the page size and
\* a position in the page.
LEMMA Split == ASSUME NEW a \in Nat
               PROVE  /\ get_offset(a) \in 0 .. PageSize - 1
                      /\ get_tag(a) \in Nat /\ a = get_tag(a) + get_offset(a)
                      /\ a \div PageSize \in Int /\ get_tag(a) = (a \div PageSize) * PageSize
<1>1. PageSize \in Nat \ {0}
  BY MainMemoryAssumption
<1>2. /\ a % PageSize \in 0 .. PageSize - 1 /\ a = (a \div PageSize) * PageSize + (a % PageSize)
      /\ a \div PageSize \in Nat
  BY <1>1
<1>3. (a \div PageSize) * PageSize \in Nat
  BY <1>1, <1>2
<1> QED
  BY <1>1, <1>2, <1>3 DEF get_tag, get_offset

\* The addresses of a page are its tag and what follows.
LEMMA SamePage == ASSUME NEW a \in Nat, NEW k \in 0 .. PageSize - 1
                  PROVE  get_offset(get_tag(a) + k) = k /\ get_tag(get_tag(a) + k) = get_tag(a)
<1>1. PageSize \in Nat \ {0}
  BY MainMemoryAssumption
<1> DEFINE q == a \div PageSize
           b == get_tag(a) + k
<1>a. get_tag(a) = q * PageSize /\ q \in Int /\ get_tag(a) \in Nat
  BY Split
<1> HIDE DEF q
<1>2. b = q * PageSize + k /\ q \in Int /\ get_tag(a) \in Nat /\ b \in Int
  BY <1>1, <1>a
<1> HIDE DEF b
<1>3. b % PageSize = k
  BY <1>1, <1>2, ModUnique
<1> QED
  BY <1>1, <1>2, <1>3 DEF get_offset, get_tag, b

LEMMA NextPage == ASSUME NEW a \in Nat
                  PROVE  /\ get_offset(a + PageSize) = get_offset(a)
                         /\ get_tag(a + PageSize) = get_tag(a) + PageSize
<1>1. PageSize \in Nat \ {0}
  BY MainMemoryAssumption
<1> DEFINE q == a \div PageSize
<1>2. a = q * PageSize + get_offset(a) /\ q \in Int /\ get_offset(a) \in 0 .. PageSize - 1
  BY Split
<1> HIDE DEF q
<1> DEFINE b == a + PageSize
           p == q + 1
<1>3. b = p * PageSize + get_offset(a) /\ b \in Int /\ p \in Int
  BY <1>1, <1>2
<1> HIDE DEF b, p
<1>4. b % PageSize = get_offset(a)
  BY <1>1, <1>2, <1>3, ModUnique
<1> QED
  BY <1>1, <1>2, <1>4 DEF get_offset, get_tag, b

\* A tag and an offset in the page name one address.
LEMMA OneAddress == ASSUME NEW a \in Nat, NEW b \in Nat,
                           get_tag(a) = get_tag(b), get_offset(a) = get_offset(b)
                    PROVE  a = b
  BY Split

LEMMA TagOfAddress == ASSUME NEW a \in Address
                      PROVE  get_tag(a) \in Address /\ get_offset(get_tag(a)) = 0
<1>1. a \in Nat /\ PageSize \in Nat \ {0} /\ MaxAddress \in Nat
  BY MainMemoryAssumption DEF Address
<1>2. get_tag(a) \in Nat /\ get_tag(a) <= a
  BY <1>1, Split
<1>3. get_offset(get_tag(a) + 0) = 0
  BY <1>1, SamePage
<1> QED
  BY <1>1, <1>2, <1>3 DEF Address

\* Byte i of a value lies where its address says, in the first page or the next.
LEMMA ByteAt == ASSUME NEW address \in Nat, NEW i \in 1 .. PageSize
                PROVE  /\ ByteTag(address, i) = get_tag(address + i - 1)
                       /\ ByteOffset(address, i) = get_offset(address + i - 1)
<1>1. PageSize \in Nat \ {0}
  BY MainMemoryAssumption
<1>2. /\ get_offset(address) \in 0 .. PageSize - 1 /\ get_tag(address) \in Nat
      /\ address = get_tag(address) + get_offset(address)
  BY Split
<1>3. CASE get_offset(address) + i - 1 < PageSize
  <2>1. get_offset(address) + i - 1 \in 0 .. PageSize - 1
    BY <1>1, <1>2, <1>3
  <2>2. address + i - 1 = get_tag(address) + (get_offset(address) + i - 1)
    BY <1>1, <1>2
  <2> QED
    BY <1>3, <2>1, <2>2, SamePage DEF ByteTag, ByteOffset
<1>4. CASE get_offset(address) + i - 1 >= PageSize
  <2> DEFINE k == get_offset(address) + i - 1 - PageSize
  <2>1. k \in 0 .. PageSize - 1
    BY <1>1, <1>2, <1>4
  <2>2. address + i - 1 = get_tag(address + PageSize) + k /\ address + PageSize \in Nat
    BY <1>1, <1>2, NextPage
  <2>3. get_offset(get_tag(address + PageSize) + k) = k
        /\ get_tag(get_tag(address + PageSize) + k) = get_tag(address + PageSize)
    BY <2>1, <2>2, SamePage
  <2> QED
    BY <1>1, <1>2, <1>4, <2>2, <2>3 DEF ByteTag, ByteOffset
<1> QED
  BY <1>1, <1>2, <1>3, <1>4

\* check_access admits what lies in memory; an empty block at address 0 does not.
LEMMA Admitted == ASSUME NEW address \in 0 .. Wrap - 1, NEW n \in Nat, address + n <= Wrap
                  PROVE  check_access(address, n) <=> address + n - 1 \in Address
<1>1. MaxAddress \in Nat /\ Wrap \in Nat \ {0} /\ MaxAddress < Wrap - 1
  BY MainMemoryAssumption
<1>2. CASE address + n - 1 >= 0
  <2>1. address + n - 1 = 0 * Wrap + (address + n - 1) /\ address + n - 1 \in 0 .. Wrap - 1
    BY <1>1, <1>2
  <2>2. (address + n - 1) % Wrap = address + n - 1
    BY <1>1, <2>1, ModUnique
  <2> QED
    BY <1>1, <2>1, <2>2 DEF check_access, Address
<1>3. CASE address + n - 1 = -1
  <2>1. address + n - 1 = (-1) * Wrap + (Wrap - 1) /\ Wrap - 1 \in 0 .. Wrap - 1
    BY <1>1, <1>3
  <2>2. (address + n - 1) % Wrap = Wrap - 1
    BY <1>1, <2>1, ModUnique
  <2> QED
    BY <1>1, <1>3, <2>2 DEF check_access, Address
<1> QED
  BY <1>1, <1>2, <1>3

-----------------------------------------------------------------------------
(* The page map *)

\* A scalar access keeps every page and adds blank ones, and its bytes all lie
\* in pages that exist after it.
LEMMA TouchKeeps == ASSUME TypeOK, NEW address \in Nat, NEW n \in 1 .. PageSize,
                           address + n - 1 \in Address
                    PROVE  LET new == Touch(address, n)
                           IN  /\ DOMAIN pages \subseteq DOMAIN new
                               /\ DOMAIN new \subseteq {a \in Address : get_offset(a) = 0}
                               /\ \A tag \in DOMAIN pages : new[tag] = pages[tag]
                               /\ \A tag \in DOMAIN new \ DOMAIN pages : new[tag] = allocate_new_page
                               /\ \A i \in 1 .. n : ByteTag(address, i) \in DOMAIN new
<1>1. /\ PageSize \in Nat \ {0} /\ MaxAddress \in Nat /\ address \in Address
      /\ get_offset(address) \in 0 .. PageSize - 1
  BY MainMemoryAssumption, Split DEF Address
<1>2. get_tag(address) \in Address /\ get_offset(get_tag(address)) = 0
  BY <1>1, TagOfAddress
<1>3. DOMAIN pages \subseteq {a \in Address : get_offset(a) = 0}
  BY DEF TypeOK
<1> DEFINE one == get_page(pages, address)
<1>4. /\ DOMAIN one = DOMAIN pages \cup {get_tag(address)}
      /\ \A tag \in DOMAIN pages : one[tag] = pages[tag]
      /\ \A tag \in DOMAIN one \ DOMAIN pages : one[tag] = allocate_new_page
  BY DEF get_page
<1> HIDE DEF one
<1>5. CASE get_offset(address) <= PageSize - n
  <2>1. Touch(address, n) = one
    BY <1>5 DEF Touch, one
  <2>2. \A i \in 1 .. n : ByteTag(address, i) = get_tag(address)
    BY <1>1, <1>5 DEF ByteTag
  <2> QED
    BY <1>2, <1>3, <1>4, <2>1, <2>2
<1>6. CASE get_offset(address) > PageSize - n
  <2> DEFINE two == get_page(one, address + PageSize)
  <2>1. Touch(address, n) = two
    BY <1>1, <1>6 DEF Touch, one
  <2>2. /\ DOMAIN two = DOMAIN one \cup {get_tag(address + PageSize)}
        /\ \A tag \in DOMAIN one : two[tag] = one[tag]
        /\ \A tag \in DOMAIN two \ DOMAIN one : two[tag] = allocate_new_page
    BY DEF get_page
  <2> HIDE DEF two
  <2>3. ByteTag(address, n) = get_tag(address + PageSize)
    BY <1>1, <1>6 DEF ByteTag
  <2>4. get_tag(address + PageSize) = get_tag(address + n - 1)
    BY <1>1, <2>3, ByteAt
  <2>5. get_tag(address + PageSize) \in Address /\ get_offset(get_tag(address + PageSize)) = 0
    BY <2>4, TagOfAddress
  <2>6. \A i \in 1 .. n : ByteTag(address, i) \in {get_tag(address), get_tag(address + PageSize)}
    BY DEF ByteTag
  <2> QED
    BY <1>2, <1>3, <1>4, <2>1, <2>2, <2>5, <2>6
<1> QED
  BY <1>1, <1>5, <1>6

\* A page that get_page allocates is a page.
LEMMA Blank == allocate_new_page \in [0 .. PageSize - 1 -> Cell]
  BY DEF allocate_new_page, Cell

-----------------------------------------------------------------------------
(* The type invariant *)

LEMMA TypeInit == Init => TypeOK
<1> SUFFICES ASSUME Init PROVE TypeOK
  OBVIOUS
<1>1. DOMAIN pages = {}
  BY DEF Init
<1>2. NoBlock \in [address : Nat, bytes : Seq(Byte), copied : Nat]
  BY DEF NoBlock
<1> QED
  BY <1>1, <1>2 DEF Init, TypeOK

LEMMA TypeRead == ASSUME TypeOK, NEW address \in Starts, NEW n \in Widths,
                         address + n <= Wrap, Read(address, n)
                  PROVE  TypeOK'
<1>1. /\ address \in 0 .. Wrap - 1 /\ address \in Nat /\ n \in 1 .. PageSize /\ n \in Nat
      /\ Wrap \in Nat /\ PageSize \in Nat
  BY MainMemoryAssumption
<1>2. CASE check_access(address, n) /\ pages' = Touch(address, n) /\ UNCHANGED block
  <2>1. address + n - 1 \in Address
    BY <1>1, <1>2, Admitted
  <2>2. /\ DOMAIN pages' \subseteq {a \in Address : get_offset(a) = 0}
        /\ \A tag \in DOMAIN pages' : pages'[tag] = allocate_new_page \/ (tag \in DOMAIN pages /\ pages'[tag] = pages[tag])
    BY <1>1, <1>2, <2>1, TouchKeeps
  <2>3. \A tag \in DOMAIN pages' : pages'[tag] \in [0 .. PageSize - 1 -> Cell]
    BY <2>2, Blank DEF TypeOK
  <2> QED
    BY <1>2, <2>2, <2>3 DEF TypeOK
<1>3. CASE Refuse(address, n)
  BY <1>3 DEF Refuse, TypeOK
<1> QED
  BY <1>2, <1>3 DEF Read

\* Stored puts each byte of the value where Contents will look for it, and
\* leaves every other byte alone.
LEMMA StoredBytes == ASSUME NEW address \in Nat, NEW n \in 1 .. PageSize, NEW bytes \in [1 .. n -> Byte],
                            NEW map, NEW tag \in DOMAIN map, NEW offset \in 0 .. PageSize - 1,
                            NEW new, new = Stored(map, address, bytes)
                     PROVE  /\ \A i \in 1 .. n : ByteTag(address, i) = tag /\ ByteOffset(address, i) = offset
                                   => new[tag][offset] = bytes[i]
                            /\ (\A i \in 1 .. n : ~(ByteTag(address, i) = tag /\ ByteOffset(address, i) = offset))
                                   => new[tag][offset] = map[tag][offset]
                            /\ new[tag][offset] \in Byte \cup {map[tag][offset]}
<1>1. Len(bytes) = n /\ n \in Nat /\ PageSize \in Nat
  BY MainMemoryAssumption
<1> DEFINE At(t, o) == {i \in 1 .. n : ByteTag(address, i) = t /\ ByteOffset(address, i) = o}
           S == At(tag, offset)
<1>2. new[tag][offset] = IF S = {} THEN map[tag][offset] ELSE bytes[CHOOSE i \in S : TRUE]
  BY <1>1 DEF Stored
<1>3. CASE S = {}
  BY <1>2, <1>3
<1>4. CASE S # {}
  <2> DEFINE c == CHOOSE i \in S : TRUE
  <2>1. c \in S
    BY <1>4
  <2> HIDE DEF c
  <2>2. \A i \in S : i = c
    <3> SUFFICES ASSUME NEW i \in S PROVE i = c
      OBVIOUS
    <3>1. i \in 1 .. n /\ c \in 1 .. n /\ i \in 1 .. PageSize /\ c \in 1 .. PageSize
      BY <1>1, <2>1
    <3>2. get_tag(address + i - 1) = get_tag(address + c - 1) /\ get_offset(address + i - 1) = get_offset(address + c - 1)
      BY <2>1, <3>1, ByteAt
    <3>3. address + i - 1 = address + c - 1
      BY <1>1, <3>1, <3>2, OneAddress
    <3> QED
      BY <1>1, <3>1, <3>3
  <2>3. new[tag][offset] = bytes[c] /\ bytes[c] \in Byte
    BY <1>2, <1>4, <2>1 DEF c
  <2> QED
    BY <1>4, <2>1, <2>2, <2>3
<1> QED
  BY <1>3, <1>4

LEMMA TypeWrite == ASSUME TypeOK, NEW address \in Starts, NEW n \in Widths, NEW bytes \in [1 .. n -> Byte],
                          address + n <= Wrap, Write(address, bytes)
                   PROVE  TypeOK'
<1>1. /\ address \in 0 .. Wrap - 1 /\ address \in Nat /\ n \in 1 .. PageSize /\ n \in Nat
      /\ Wrap \in Nat /\ PageSize \in Nat /\ Len(bytes) = n
  BY MainMemoryAssumption
<1>2. CASE check_access(address, n) /\ pages' = Stored(Touch(address, n), address, bytes) /\ UNCHANGED block
  <2> DEFINE new == Touch(address, n)
  <2>1. address + n - 1 \in Address
    BY <1>1, <1>2, Admitted
  <2>2. /\ DOMAIN new \subseteq {a \in Address : get_offset(a) = 0}
        /\ \A tag \in DOMAIN new : new[tag] = allocate_new_page \/ (tag \in DOMAIN pages /\ new[tag] = pages[tag])
    BY <1>1, <2>1, TouchKeeps
  <2>3. \A tag \in DOMAIN new : new[tag] \in [0 .. PageSize - 1 -> Cell]
    BY <2>2, Blank DEF TypeOK
  <2> HIDE DEF new
  <2>4. DOMAIN pages' = DOMAIN new /\ \A tag \in DOMAIN new : pages'[tag] = [o \in 0 .. PageSize - 1 |-> pages'[tag][o]]
    BY <1>2 DEF Stored, new
  <2>5. \A tag \in DOMAIN new, o \in 0 .. PageSize - 1 : pages'[tag][o] \in Byte \cup {new[tag][o]}
    BY <1>1, <1>2, StoredBytes DEF new
  <2>6. \A tag \in DOMAIN pages' : pages'[tag] \in [0 .. PageSize - 1 -> Cell]
    <3> SUFFICES ASSUME NEW tag \in DOMAIN new PROVE pages'[tag] \in [0 .. PageSize - 1 -> Cell]
      BY <2>4
    <3>1. \A o \in 0 .. PageSize - 1 : new[tag][o] \in Cell
      BY <2>3
    <3>2. \A o \in 0 .. PageSize - 1 : pages'[tag][o] \in Cell
      BY <2>5, <3>1 DEF Cell
    <3> QED
      BY <2>4, <3>2
  <2> QED
    BY <1>2, <2>2, <2>4, <2>6 DEF TypeOK
<1>3. CASE UNCHANGED pages /\ UNCHANGED block
  BY <1>3 DEF TypeOK
<1> QED
  BY <1>1, <1>2, <1>3 DEF Write, Refuse

LEMMA TypeBlock == ASSUME TypeOK, NEW address \in Starts, NEW bytes \in Blocks,
                          address + Len(bytes) <= Wrap, WriteBlock(address, bytes)
                   PROVE  TypeOK'
<1>1. /\ address \in 0 .. Wrap - 1 /\ address \in Nat /\ bytes \in Seq(Byte) /\ Len(bytes) \in Nat
  BY MainMemoryAssumption
<1>2. UNCHANGED pages
  BY DEF WriteBlock, Refuse
<1>3. CASE UNCHANGED block
  BY <1>2, <1>3 DEF TypeOK
<1>4. CASE /\ check_access(address, Len(bytes)) /\ Len(bytes) # 0
           /\ block' = [address |-> address, bytes |-> bytes, copied |-> 0]
  <2>1. address + Len(bytes) - 1 \in Address
    BY <1>1, <1>4, Admitted
  <2>2. block'.copied < Len(block'.bytes) /\ block'.address + Len(block'.bytes) - 1 \in Address
    BY <1>1, <1>4, <2>1
  <2>3. block' \in [address : Nat, bytes : Seq(Byte), copied : Nat]
    BY <1>1, <1>4
  <2> QED
    BY <1>2, <2>2, <2>3 DEF TypeOK, NoBlock
<1> QED
  BY <1>3, <1>4 DEF WriteBlock, Refuse

\* What an iteration of the copying loop does, with its quantities named.
LEMMA Chunk == ASSUME TypeOK, CopyChunk
               PROVE  LET to == block.address + block.copied
                          offset == get_offset(to)
                          n == BytesToCopy(offset, Len(block.bytes) - block.copied)
                      IN  /\ block # NoBlock /\ to \in Address /\ offset \in 0 .. PageSize - 1
                          /\ n \in 1 .. PageSize - offset /\ block.copied + n <= Len(block.bytes)
                          /\ get_tag(to) \in Address /\ get_offset(get_tag(to)) = 0
                          /\ block.copied \in Nat /\ block.address \in Nat /\ Len(block.bytes) \in Nat
<1>1. PageSize \in Nat \ {0} /\ MaxAddress \in Nat
  BY MainMemoryAssumption
<1>2. /\ block.copied \in Nat /\ block.address \in Nat /\ block.bytes \in Seq(Byte) /\ Len(block.bytes) \in Nat
      /\ block.copied < Len(block.bytes)
  BY DEF TypeOK, CopyChunk
<1>3. block # NoBlock
  BY <1>2 DEF NoBlock
<1>4. block.address + Len(block.bytes) - 1 \in Address
  BY <1>3 DEF TypeOK
<1> DEFINE to == block.address + block.copied
<1>5. to \in Address /\ to \in Nat
  BY <1>1, <1>2, <1>4 DEF Address
<1>6. get_offset(to) \in 0 .. PageSize - 1 /\ get_tag(to) \in Address /\ get_offset(get_tag(to)) = 0
  BY <1>5, Split, TagOfAddress
<1> QED
  BY <1>1, <1>2, <1>3, <1>5, <1>6 DEF BytesToCopy

LEMMA TypeCopy == ASSUME TypeOK, CopyChunk
                  PROVE  TypeOK'
<1> DEFINE to == block.address + block.copied
           offset == get_offset(to)
           tag == get_tag(to)
           n == BytesToCopy(offset, Len(block.bytes) - block.copied)
           map == get_page(pages, to)
<1>1. /\ block # NoBlock /\ offset \in 0 .. PageSize - 1 /\ n \in 1 .. PageSize - offset
      /\ block.copied + n <= Len(block.bytes) /\ tag \in Address /\ get_offset(tag) = 0
      /\ block.copied \in Nat /\ block.address \in Nat /\ Len(block.bytes) \in Nat
  BY Chunk
<1>2. PageSize \in Nat \ {0}
  BY MainMemoryAssumption
<1>3. /\ DOMAIN map = DOMAIN pages \cup {tag}
      /\ \A t \in DOMAIN map : map[t] \in [0 .. PageSize - 1 -> Cell]
  BY Blank DEF get_page, TypeOK
<1>4. /\ pages' = [map EXCEPT ![tag] = [o \in 0 .. PageSize - 1 |->
                      IF o \in offset .. offset + n - 1
                      THEN block.bytes[block.copied + o - offset + 1]
                      ELSE map[tag][o]]]
      /\ block' = IF block.copied + n = Len(block.bytes) THEN NoBlock
                  ELSE [block EXCEPT !.copied = block.copied + n]
  BY DEF CopyChunk
<1> HIDE DEF map, n, tag, offset, to
<1>5. \A o \in offset .. offset + n - 1 : block.bytes[block.copied + o - offset + 1] \in Byte
  <2> SUFFICES ASSUME NEW o \in offset .. offset + n - 1
               PROVE  block.bytes[block.copied + o - offset + 1] \in Byte
    OBVIOUS
  <2>1. block.copied + o - offset + 1 \in 1 .. Len(block.bytes)
    BY <1>1, <1>2
  <2> QED
    BY <2>1 DEF TypeOK
<1>6. DOMAIN pages' \subseteq {a \in Address : get_offset(a) = 0}
  BY <1>1, <1>3, <1>4 DEF TypeOK
<1>7. \A t \in DOMAIN pages' : pages'[t] \in [0 .. PageSize - 1 -> Cell]
  BY <1>3, <1>4, <1>5 DEF Cell
<1>8. CASE block' = NoBlock
  <2>1. NoBlock \in [address : Nat, bytes : Seq(Byte), copied : Nat]
    BY DEF NoBlock
  <2> QED
    BY <1>6, <1>7, <1>8, <2>1 DEF TypeOK
<1>9. CASE block.copied + n # Len(block.bytes) /\ block' = [block EXCEPT !.copied = block.copied + n]
  <2>0. block \in [address : Nat, bytes : Seq(Byte), copied : Nat] /\ block.copied + n \in Nat
    BY <1>1, <1>2 DEF TypeOK
  <2>1. /\ block'.copied = block.copied + n /\ block'.bytes = block.bytes /\ block'.address = block.address
        /\ block' \in [address : Nat, bytes : Seq(Byte), copied : Nat]
    BY <1>9, <2>0
  <2>2. block'.copied < Len(block'.bytes) /\ block'.address + Len(block'.bytes) - 1 \in Address
    BY <1>1, <1>2, <1>9, <2>1 DEF TypeOK
  <2> QED
    BY <1>6, <1>7, <2>1, <2>2 DEF TypeOK
<1> QED
  BY <1>4, <1>8, <1>9

LEMMA TypeNext == TypeOK /\ [Next]_vars => TypeOK'
<1> SUFFICES ASSUME TypeOK, [Next]_vars PROVE TypeOK'
  OBVIOUS
<1>1. CASE UNCHANGED vars
  BY <1>1 DEF vars, TypeOK
<1>2. CASE Next
  BY <1>2, TypeRead, TypeWrite, TypeBlock, TypeCopy DEF Next
<1> QED
  BY <1>1, <1>2

\* Every page is whole, aligned and within memory, and the block being copied
\* fits, for every page size and every size of memory (main_memory.cc).
THEOREM MemoryTypes == Spec => []TypeOK
<1>1. Init => TypeOK
  BY TypeInit
<1>2. TypeOK /\ [Next]_vars => TypeOK'
  BY TypeNext
<1> QED
  BY <1>1, <1>2, PTL DEF Spec

-----------------------------------------------------------------------------
(* MainMemory implements FlatMemory *)

\* What the pages of a map say of an address.
In(map, a) == IF get_tag(a) \in DOMAIN map THEN map[get_tag(a)][get_offset(a)] ELSE Unset

\* Between two calls Contents is what the pages say ...
LEMMA ContentsIdle == block = NoBlock => Contents = [a \in Address |-> In(pages, a)]
  BY DEF Contents, NoBlock, In

LEMMA ContentsIdleNext == block' = NoBlock => Contents' = [a \in Address |-> In(pages', a)]
  BY DEF Contents, NoBlock, In, get_tag, get_offset, Address

\* ... and pages that a scalar access adds say nothing new.
LEMMA TouchInvisible == ASSUME TypeOK, NEW address \in Nat, NEW n \in 1 .. PageSize,
                               address + n - 1 \in Address, NEW a \in Address
                        PROVE  In(Touch(address, n), a) = In(pages, a)
<1>1. /\ DOMAIN pages \subseteq DOMAIN Touch(address, n)
      /\ \A tag \in DOMAIN pages : Touch(address, n)[tag] = pages[tag]
      /\ \A tag \in DOMAIN Touch(address, n) \ DOMAIN pages : Touch(address, n)[tag] = allocate_new_page
  BY TouchKeeps
<1>2. get_offset(a) \in 0 .. PageSize - 1
  BY MainMemoryAssumption, Split DEF Address
<1>3. allocate_new_page[get_offset(a)] = Unset
  BY <1>2 DEF allocate_new_page
<1> QED
  BY <1>1, <1>3 DEF In

LEMMA RefuseIsFault == ASSUME NEW address \in 0 .. Wrap - 1, NEW n \in Nat, address + n <= Wrap,
                              ~check_access(address, n), Refuse(address, n)
                       PROVE  Flat!Next
<1>1. address + n - 1 \notin Address
  BY Admitted
<1>2. Contents' = Contents
  BY DEF Refuse, Contents, get_tag, get_offset, Address
<1>3. call'.op = "fault" /\ call'.address = address /\ call'.size = n
      /\ call' = [op |-> "fault", address |-> address, size |-> n]
  BY DEF Refuse
<1> QED
  BY <1>1, <1>2, <1>3 DEF Flat!Next, Flat!Fault, Flat!InRange, Flat!Address, Address

LEMMA ReadIsRead == ASSUME TypeOK, NEW address \in Starts, NEW n \in Widths,
                           address + n <= Wrap, Read(address, n)
                    PROVE  Flat!Next
<1>1. /\ address \in 0 .. Wrap - 1 /\ address \in Nat /\ n \in 1 .. PageSize /\ n \in Nat
      /\ Wrap \in Nat /\ PageSize \in Nat /\ MaxAddress \in Nat
  BY MainMemoryAssumption
<1>2. CASE ~check_access(address, n) /\ Refuse(address, n)
  BY <1>1, <1>2, RefuseIsFault
<1>3. CASE /\ check_access(address, n) /\ block = NoBlock /\ pages' = Touch(address, n) /\ UNCHANGED block
           /\ call' = [op |-> "read", address |-> address,
                       bytes |-> [i \in 1 .. n |-> pages'[ByteTag(address, i)][ByteOffset(address, i)]]]
  <2>1. address + n - 1 \in Address
    BY <1>1, <1>3, Admitted
  <2>2. Contents' = Contents
    BY <1>1, <1>3, <2>1, ContentsIdle, ContentsIdleNext, TouchInvisible
  <2>3. \A i \in 1 .. n : pages'[ByteTag(address, i)][ByteOffset(address, i)] = Contents[address + i - 1]
    <3> SUFFICES ASSUME NEW i \in 1 .. n
                 PROVE  pages'[ByteTag(address, i)][ByteOffset(address, i)] = Contents[address + i - 1]
      OBVIOUS
    <3>1. i \in 1 .. PageSize /\ address + i - 1 \in Address
      BY <1>1, <2>1 DEF Address
    <3>2. ByteTag(address, i) = get_tag(address + i - 1) /\ ByteOffset(address, i) = get_offset(address + i - 1)
      BY <1>1, <3>1, ByteAt
    <3>3. ByteTag(address, i) \in DOMAIN pages'
      BY <1>1, <1>3, <2>1, TouchKeeps
    <3>4. Contents'[address + i - 1] = In(pages', address + i - 1)
      BY <1>3, <3>1, ContentsIdleNext
    <3> QED
      BY <2>2, <3>2, <3>3, <3>4 DEF In
  <2> DEFINE got == [i \in 1 .. n |-> pages'[ByteTag(address, i)][ByteOffset(address, i)]]
  <2>4. got = [i \in 1 .. n |-> Contents[address + i - 1]] /\ Len(got) = n
    BY <1>1, <2>3
  <2>5. call' = [op |-> "read", address |-> address, bytes |-> got]
    BY <1>3
  <2> HIDE DEF got
  <2>6. call'.op = "read" /\ call'.address = address /\ call'.bytes = got
    BY <2>5
  <2>7. Flat!InRange(address, n) /\ got = Flat!BytesAt(Contents, address, n)
    BY <2>1, <2>4 DEF Flat!InRange, Flat!Address, Address, Flat!BytesAt
  <2> QED
    BY <2>2, <2>4, <2>5, <2>6, <2>7 DEF Flat!Next, Flat!Read
<1> QED
  BY <1>2, <1>3 DEF Read

LEMMA WriteIsWrite == ASSUME TypeOK, NEW address \in Starts, NEW n \in Widths, NEW bytes \in [1 .. n -> Byte],
                             address + n <= Wrap, Write(address, bytes)
                      PROVE  Flat!Next
<1>1. /\ address \in 0 .. Wrap - 1 /\ address \in Nat /\ n \in 1 .. PageSize /\ n \in Nat
      /\ Wrap \in Nat /\ PageSize \in Nat /\ MaxAddress \in Nat /\ Len(bytes) = n
  BY MainMemoryAssumption
<1>2. CASE ~check_access(address, n) /\ Refuse(address, n)
  BY <1>1, <1>2, RefuseIsFault
<1>3. CASE /\ is_system_call(address) /\ UNCHANGED <<pages, block>>
           /\ call' = [op |-> "host", address |-> address]
  <2>1. Contents' = Contents
    BY <1>3 DEF Contents, get_tag, get_offset, Address
  <2>2. call'.op = "host" /\ call'.address = address
    BY <1>3
  <2> QED
    BY <1>3, <2>1, <2>2 DEF Flat!Next, Flat!HostCall, is_system_call
<1>4. CASE /\ ~is_system_call(address) /\ check_access(address, n) /\ block = NoBlock /\ UNCHANGED block
           /\ pages' = Stored(Touch(address, n), address, bytes)
           /\ call' = [op |-> "write", address |-> address, bytes |-> bytes]
  <2> DEFINE map == Touch(address, n)
  <2>1. address + n - 1 \in Address
    BY <1>1, <1>4, Admitted
  <2>2. Contents = [a \in Address |-> In(map, a)] /\ Contents' = [a \in Address |-> In(pages', a)]
    BY <1>1, <1>4, <2>1, ContentsIdle, ContentsIdleNext, TouchInvisible
  <2>3. DOMAIN pages' = DOMAIN map
    BY <1>4 DEF Stored
  <2>4. \A i \in 1 .. n : ByteTag(address, i) \in DOMAIN map
    BY <1>1, <2>1, TouchKeeps
  <2> HIDE DEF map
  <2>5. ASSUME NEW a \in Address
        PROVE  In(pages', a) = IF a - address + 1 \in 1 .. n THEN bytes[a - address + 1] ELSE In(map, a)
    <3>0. a \in Nat
      BY <1>1 DEF Address
    <3>1. a \in Nat /\ get_offset(a) \in 0 .. PageSize - 1
      BY <3>0, Split
    <3>2. ASSUME NEW i \in 1 .. n, ByteTag(address, i) = get_tag(a), ByteOffset(address, i) = get_offset(a)
          PROVE  a = address + i - 1
      <4>1. i \in 1 .. PageSize /\ address + i - 1 \in Nat
        BY <1>1
      <4>2. get_tag(a) = get_tag(address + i - 1) /\ get_offset(a) = get_offset(address + i - 1)
        BY <1>1, <3>2, <4>1, ByteAt
      <4> QED
        BY <3>1, <4>1, <4>2, OneAddress
    <3>3. CASE a - address + 1 \in 1 .. n
      <4> DEFINE i == a - address + 1
      <4>1. i \in 1 .. n /\ i \in 1 .. PageSize /\ address + i - 1 = a
        BY <1>1, <3>1, <3>3
      <4>2. ByteTag(address, i) = get_tag(a) /\ ByteOffset(address, i) = get_offset(a)
        BY <1>1, <4>1, ByteAt
      <4>3. get_tag(a) \in DOMAIN map
        BY <2>4, <4>1, <4>2
      <4> HIDE DEF i
      <4>a. pages' = Stored(map, address, bytes)
        BY <1>4 DEF map
      <4>b. \A j \in 1 .. n : ByteTag(address, j) = get_tag(a) /\ ByteOffset(address, j) = get_offset(a)
                => pages'[get_tag(a)][get_offset(a)] = bytes[j]
        BY <1>1, <3>1, <4>3, <4>a, StoredBytes
      <4>4. pages'[get_tag(a)][get_offset(a)] = bytes[i]
        BY <4>1, <4>2, <4>b
      <4> QED
        BY <2>3, <3>3, <4>3, <4>4 DEF In, i
    <3>4. CASE a - address + 1 \notin 1 .. n
      <4>1. \A i \in 1 .. n : ~(ByteTag(address, i) = get_tag(a) /\ ByteOffset(address, i) = get_offset(a))
        BY <1>1, <3>1, <3>2, <3>4
      <4>2. get_tag(a) \in DOMAIN map => pages'[get_tag(a)][get_offset(a)] = map[get_tag(a)][get_offset(a)]
        BY <1>1, <1>4, <3>1, <4>1, StoredBytes DEF map
      <4> QED
        BY <2>3, <3>4, <4>2 DEF In
    <3> QED
      BY <3>3, <3>4
  <2>6. Contents' = Flat!Overwrite(Contents, address, bytes)
    BY <1>1, <2>2, <2>5 DEF Flat!Overwrite, Flat!Address, Address
  <2>7. call'.op = "write" /\ call'.address = address /\ call'.bytes = bytes
    BY <1>4
  <2>8. Flat!InRange(address, Len(bytes)) /\ address \notin Host
    BY <1>1, <1>4, <2>1 DEF Flat!InRange, Flat!Address, Address, is_system_call
  <2> QED
    BY <1>4, <2>6, <2>7, <2>8 DEF Flat!Next, Flat!Write
<1> QED
  BY <1>1, <1>2, <1>3, <1>4 DEF Write

LEMMA BlockIsWrite == ASSUME TypeOK, NEW address \in Starts, NEW bytes \in Blocks,
                             address + Len(bytes) <= Wrap, WriteBlock(address, bytes)
                      PROVE  Flat!Next
<1>1. /\ address \in 0 .. Wrap - 1 /\ address \in Nat /\ bytes \in Seq(Byte) /\ Len(bytes) \in Nat
      /\ MaxAddress \in Nat
  BY MainMemoryAssumption
<1>2. CASE ~check_access(address, Len(bytes)) /\ Refuse(address, Len(bytes))
  BY <1>1, <1>2, RefuseIsFault
<1>3. CASE /\ check_access(address, Len(bytes)) /\ block = NoBlock /\ UNCHANGED pages
           /\ call' = [op |-> "block", address |-> address, bytes |-> bytes]
           /\ block' = IF Len(bytes) = 0 THEN NoBlock
                       ELSE [address |-> address, bytes |-> bytes, copied |-> 0]
  <2>1. address + Len(bytes) - 1 \in Address
    BY <1>1, <1>3, Admitted
  <2>2. Contents = [a \in Address |-> In(pages, a)]
    BY <1>3, ContentsIdle
  <2>3. Contents' = [a \in Address |-> IF a - address + 1 \in 1 .. Len(bytes)
                                       THEN bytes[a - address + 1] ELSE In(pages, a)]
    <3>1. CASE Len(bytes) = 0
      <4>1. Contents' = [a \in Address |-> In(pages, a)]
        BY <1>3, <3>1, ContentsIdleNext
      <4>2. \A a \in Address : a - address + 1 \notin 1 .. Len(bytes)
        BY <3>1
      <4> QED
        BY <4>1, <4>2
    <3>2. CASE Len(bytes) # 0
      <4>1. block'.address = address /\ block'.bytes = bytes /\ block'.copied = 0
        BY <1>3, <3>2
      <4> QED
        BY <1>1, <1>3, <4>1 DEF Contents, In, get_tag, get_offset, Address
    <3> QED
      BY <3>1, <3>2
  <2>4. Contents' = Flat!Overwrite(Contents, address, bytes)
    BY <2>2, <2>3 DEF Flat!Overwrite, Flat!Address, Address
  <2>5. call'.op = "block" /\ call'.address = address /\ call'.bytes = bytes
    BY <1>3
  <2> QED
    BY <1>3, <2>1, <2>4, <2>5 DEF Flat!Next, Flat!Write, Flat!InRange, Flat!Address, Address
<1> QED
  BY <1>2, <1>3 DEF WriteBlock

\* An iteration of the loop moves bytes from the block to the pages, which
\* changes nothing that Contents shows.
LEMMA CopyIsStutter == ASSUME TypeOK, CopyChunk
                       PROVE  Contents' = Contents /\ call' = call
<1> DEFINE start == block.address
           done == block.copied
           to == start + done
           offset == get_offset(to)
           tag == get_tag(to)
           n == BytesToCopy(offset, Len(block.bytes) - done)
           map == get_page(pages, to)
           length == Len(block.bytes)
<1>1. /\ block # NoBlock /\ to \in Address /\ offset \in 0 .. PageSize - 1 /\ n \in 1 .. PageSize - offset
      /\ done + n <= length /\ done \in Nat /\ start \in Nat /\ length \in Nat
  BY Chunk
<1>2. PageSize \in Nat \ {0} /\ MaxAddress \in Nat /\ to \in Nat
  BY <1>1, MainMemoryAssumption
<1>3. tag \in Nat /\ to = tag + offset
  BY <1>2, Split
<1>4. /\ DOMAIN map = DOMAIN pages \cup {tag}
      /\ \A a \in Address : In(map, a) = In(pages, a)
  <2>1. DOMAIN map = DOMAIN pages \cup {tag}
    BY DEF get_page
  <2>2. \A t \in DOMAIN map : map[t] = IF t \in DOMAIN pages THEN pages[t] ELSE allocate_new_page
    BY DEF get_page
  <2> HIDE DEF map
  <2>3. ASSUME NEW a \in Address PROVE In(map, a) = In(pages, a)
    <3>1. a \in Nat
      BY <1>2 DEF Address
    <3>2. get_offset(a) \in 0 .. PageSize - 1
      BY <3>1, Split
    <3>3. allocate_new_page[get_offset(a)] = Unset
      BY <3>2 DEF allocate_new_page
    <3> QED
      BY <2>1, <2>2, <3>3 DEF In
  <2> QED
    BY <2>1, <2>3
<1>5. /\ pages' = [map EXCEPT ![tag] = [o \in 0 .. PageSize - 1 |->
                      IF o \in offset .. offset + n - 1
                      THEN block.bytes[block.copied + o - offset + 1]
                      ELSE map[tag][o]]]
      /\ block' = IF block.copied + n = length THEN NoBlock
                  ELSE [block EXCEPT !.copied = block.copied + n]
      /\ call' = call
  BY DEF CopyChunk
<1> HIDE DEF map, n, tag, offset, length
<1>a. n \in Nat /\ offset \in Nat /\ to \in Nat
  BY <1>1, <1>2
<1>b. to = start + done
  OBVIOUS
<1>c. block.address = start /\ block.copied = done /\ Len(block.bytes) = length
  BY DEF length
<1> HIDE DEF start, done, to
<1>6. ASSUME NEW a \in Address
      PROVE  LET i == a - start + 1
             IN  In(pages', a) = IF i \in done + 1 .. done + n THEN block.bytes[i] ELSE In(pages, a)
  <2> DEFINE i == a - start + 1
  <2>1. a \in Nat
    BY <1>2 DEF Address
  <2>2. get_tag(a) \in Nat /\ get_offset(a) \in 0 .. PageSize - 1 /\ a = get_tag(a) + get_offset(a)
    BY <2>1, Split
  <2>3. CASE i \in done + 1 .. done + n
    <3> DEFINE k == offset + (i - done - 1)
    <3>1. k \in 0 .. PageSize - 1 /\ a = tag + k /\ k \in offset .. offset + n - 1
      BY <1>1, <1>2, <1>3, <1>a, <1>b, <2>1, <2>3
    <3>2. get_tag(a) = tag /\ get_offset(a) = k
      BY <1>2, <3>1, SamePage DEF tag
    <3>3. pages'[tag][k] = block.bytes[done + k - offset + 1] /\ tag \in DOMAIN pages'
      BY <1>4, <1>5, <1>c, <3>1
    <3>4. done + k - offset + 1 = i
      BY <1>1, <1>2, <1>a, <2>1
    <3> HIDE DEF k
    <3> QED
      BY <2>3, <3>2, <3>3, <3>4 DEF In
  <2>4. CASE i \notin done + 1 .. done + n
    <3>1. ~(get_tag(a) = tag /\ get_offset(a) \in offset .. offset + n - 1)
      BY <1>1, <1>2, <1>3, <1>a, <1>b, <2>1, <2>2, <2>4
    <3>2. In(pages', a) = In(map, a)
      BY <1>4, <1>5, <2>2, <3>1 DEF In
    <3> QED
      BY <1>4, <2>4, <3>2
  <2> QED
    BY <2>3, <2>4
<1>7. ASSUME NEW a \in Address PROVE Contents'[a] = Contents[a]
  <2> DEFINE i == a - start + 1
  <2>1. a \in Nat /\ i \in Int
    BY <1>1, <1>2 DEF Address
  <2>2. Contents[a] = IF i \in done + 1 .. length THEN block.bytes[i] ELSE In(pages, a)
    BY <1>c DEF Contents, In
  <2>3. Contents'[a] = IF i \in done + n + 1 .. length THEN block.bytes[i] ELSE In(pages', a)
    <3>1. CASE done + n = length
      <4>1. Contents'[a] = In(pages', a)
        BY <1>5, <1>c, <3>1, ContentsIdleNext
      <4>2. i \notin done + n + 1 .. length
        BY <1>1, <2>1, <3>1
      <4> QED
        BY <4>1, <4>2
    <3>2. CASE done + n # length
      <4>1. block \in [address : Nat, bytes : Seq(Byte), copied : Nat]
        BY DEF TypeOK
      <4>2. block'.address = start /\ block'.bytes = block.bytes /\ block'.copied = done + n
        BY <1>5, <1>c, <3>2, <4>1
      <4>3. Contents'[a] = IF a - block'.address + 1 \in block'.copied + 1 .. Len(block'.bytes)
                           THEN block'.bytes[a - block'.address + 1] ELSE In(pages', a)
        BY DEF Contents, In, get_tag, get_offset, Address
      <4> QED
        BY <1>c, <4>2, <4>3
    <3> QED
      BY <3>1, <3>2
  <2>4. In(pages', a) = IF i \in done + 1 .. done + n THEN block.bytes[i] ELSE In(pages, a)
    BY <1>6
  <2> QED
    BY <1>1, <1>2, <1>a, <2>1, <2>2, <2>3, <2>4
<1>8. Contents' = [a \in Address |-> Contents'[a]] /\ Contents = [a \in Address |-> Contents[a]]
  BY DEF Contents, Address
<1> QED
  BY <1>5, <1>7, <1>8

\* Main memory behaves as one flat array of bytes, for every page size, set of
\* widths and size of memory (MainMemory::read8 to write64 and write(DataBlock)).
THEOREM MemoryIsFlat == Spec => FlatSpec
<1>1. Init => Flat!Init
  <2> SUFFICES ASSUME Init PROVE Flat!Init
    OBVIOUS
  <2>1. block = NoBlock /\ DOMAIN pages = {}
    BY DEF Init
  <2>2. Contents = [a \in Address |-> Unset]
    BY <2>1, ContentsIdle DEF In
  <2> QED
    BY <2>2 DEF Init, Flat!Init, Flat!Address, Address
<1>2. TypeOK /\ [Next]_vars => [Flat!Next]_<<Contents, call>>
  <2> SUFFICES ASSUME TypeOK, [Next]_vars PROVE Flat!Next \/ (Contents' = Contents /\ call' = call)
    OBVIOUS
  <2>1. CASE UNCHANGED vars
    BY <2>1 DEF vars, Contents, get_tag, get_offset, Address
  <2>2. CASE Next
    BY <2>2, ReadIsRead, WriteIsWrite, BlockIsWrite, CopyIsStutter DEF Next
  <2> QED
    BY <2>1, <2>2
<1>3. Spec => []TypeOK
  BY MemoryTypes
<1> QED
  BY <1>1, <1>2, <1>3, PTL DEF Spec, FlatSpec, Flat!Spec
=============================================================================
