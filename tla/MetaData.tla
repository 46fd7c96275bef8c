------------------------------- MODULE MetaData -------------------------------
(***************************************************************************)
(* ObjectMetaData: what a reply's headers say of an object.  A response    *)
(* has one, callers have others, and they are set, cleared, copied, moved  *)
(* and destroyed in any order.                                             *)
(*                                                                         *)
(* The texts (etag, content type, ...) are pointers to strings of their    *)
(* own, NULL when absent; the object frees them by hand.  Memory is a set  *)
(* of cells that are used again once they are free.  The text of the       *)
(* restore header is such a string too, but no function frees, copies or   *)
(* moves it: it stays in memory when its object is destroyed.              *)
(***************************************************************************)
EXTENDS Integers, Functions

CONSTANTS
    Obj,      \* the objects, on the stack or in a response
    Texts,    \* fields that are pointers, "content-range" among them
    Settable, \* texts a caller may set
    Keys,     \* of the user's metadata
    Headers,  \* headers of replies: functions from names to values
    Values,   \* a caller may set
    Total,    \* the number behind the slash of a range, or NoTotal
    Number,   \* what strtoll makes of a value, or NotANumber
    Cell,     \* memory
    Absent    \* no header, key or string

ASSUME MetaAssumption ==
    /\ "content-range" \in Texts
    /\ Settable \subseteq Texts
    /\ Texts \cap Keys = {} /\ "restore" \notin Texts
    /\ Absent \notin Cell /\ Absent \notin Values
    /\ \A h \in Headers : \A n \in DOMAIN h : h[n] # Absent

NULL == Absent
NoTotal == -2
NotANumber == -2

VARIABLES
    alive,    \* objects constructed and not destroyed
    ptr,      \* the pointer of each text, a cell or NULL
    strings,  \* the string in each cell, or Absent when it is free
    num,      \* content length, instance length, next append offset
    user,     \* _user_meta
    restore,  \* _restore_rep, a pointer too; _restore is what its string says
    lost,     \* history: the cells whose only pointer a destructor dropped
    told      \* history: Fresh, Used, or the only reply an object was set from

metaVars == <<alive, ptr, strings, num, user, restore, lost, told>>

NoTexts == [f \in Texts |-> NULL]
NoUser == [k \in Keys |-> Absent]
NoNumbers == [length |-> -1, instance |-> -1, offset |-> 0]
NoReply == [n \in {} |-> Absent]

Fresh == [used |-> FALSE, reply |-> NoReply]
Used == [used |-> TRUE, reply |-> NoReply]

MetaInit ==
    /\ alive = {}
    /\ ptr = [o \in Obj |-> NoTexts]
    /\ strings = [c \in Cell |-> Absent]
    /\ num = [o \in Obj |-> NoNumbers]
    /\ user = [o \in Obj |-> NoUser]
    /\ restore = [o \in Obj |-> NULL]
    /\ lost = {}
    /\ told = [o \in Obj |-> Fresh]

Construct(o) ==
    /\ o \notin alive
    /\ alive' = alive \cup {o}
    /\ ptr' = [ptr EXCEPT ![o] = NoTexts]
    /\ num' = [num EXCEPT ![o] = NoNumbers]
    /\ user' = [user EXCEPT ![o] = NoUser]
    /\ restore' = [restore EXCEPT ![o] = NULL]
    /\ told' = [told EXCEPT ![o] = Fresh]
    /\ UNCHANGED <<strings, lost>>

-------------------------------------------------------------------------------
CellsOf(o) == {ptr[o][f] : f \in Texts} \ {NULL}

\* Memory after the strings of o are deleted.
Freed(o) == [c \in Cell |-> IF c \in CellsOf(o) THEN Absent ELSE strings[c]]

\* The places in free memory that new may return for the texts fs.
New(memory, fs) == Injection(fs, {c \in Cell : memory[c] = Absent})

\* Memory with the string w[f] where at says.
Filled(memory, at, w) ==
    [c \in Cell |-> IF \E f \in DOMAIN w : at[f] = c
                      THEN w[CHOOSE f \in DOMAIN w : at[f] = c]
                      ELSE memory[c]]

\* What f says, and elsewhere what g says.
Over(f, g) == [x \in DOMAIN f \cup DOMAIN g |->
                 IF x \in DOMAIN f THEN f[x] ELSE g[x]]

Only(h, names) == [n \in DOMAIN h \cap names |-> h[n]]

\* The place of o's restore string, which is made when there is none.
SetRestore(o, h, memory) ==
    \/ "restore" \notin DOMAIN h /\ strings' = memory /\ UNCHANGED restore
    \/ /\ "restore" \in DOMAIN h
       /\ \E c \in Cell :
             /\ restore[o] = c \/ (restore[o] = NULL /\ memory[c] = Absent)
             /\ restore' = [restore EXCEPT ![o] = c]
             /\ strings' = [memory EXCEPT ![c] = h["restore"]]

\* set(): a string is overwritten where it is, or made when there is none.
SetStrings(o, h) ==
    LET w == Only(h, Texts)
    IN  \E g \in New(strings, {f \in DOMAIN w : ptr[o][f] = NULL}) :
           LET at == Over(g, ptr[o])
           IN  /\ ptr' = [ptr EXCEPT ![o] = at]
               /\ SetRestore(o, h, Filled(strings, at, w))

\* The instance length is taken from the range the object has, this reply's or
\* an earlier one's.
NumbersOf(n, range, h) ==
    [ length   |-> IF "content-length" \in DOMAIN h
                     THEN Number[h["content-length"]] ELSE n.length,
      instance |-> IF range # Absent /\ Total[range] # NoTotal
                     THEN Total[range] ELSE n.instance,
      offset   |-> IF "next-append-offset" \notin DOMAIN h THEN n.offset
                   ELSE IF Number[h["next-append-offset"]] = NotANumber THEN 0
                   ELSE Number[h["next-append-offset"]] ]

StringAt(o, f) == IF ptr[o][f] = NULL THEN Absent ELSE strings[ptr[o][f]]

\* What is not in the headers stays as an earlier reply has set it.  (That an
\* etag loses its quotes is left out.)
set_by_header(o, h) ==
    /\ o \in alive
    /\ SetStrings(o, h)
    /\ num' = [num EXCEPT ![o] = NumbersOf(@, StringAt(o, "content-range")', h)]
    /\ user' = [user EXCEPT ![o] = Over(Only(h, Keys), @)]
    /\ told' = [told EXCEPT ![o] = IF @ = Fresh THEN [used |-> FALSE, reply |-> h]
                                             ELSE Used]
    /\ UNCHANGED <<alive, lost>>

\* set_content_type and its like; set_user_meta.
SetByCaller(o) ==
    /\ o \in alive
    /\ \/ /\ \E f \in Settable, v \in Values : SetStrings(o, [g \in {f} |-> v])
          /\ UNCHANGED user
       \/ /\ \E k \in Keys, v \in Values : user' = [user EXCEPT ![o][k] = v]
          /\ UNCHANGED <<ptr, strings, restore>>
    /\ told' = [told EXCEPT ![o] = Used]
    /\ UNCHANGED <<alive, num, lost>>

\* Mutant of clear: the pointers are dropped and the strings not deleted.
clearNoDelete(o) ==
    /\ o \in alive
    /\ ptr' = [ptr EXCEPT ![o] = NoTexts]
    /\ num' = [num EXCEPT ![o] = NoNumbers]
    /\ told' = [told EXCEPT ![o] = Used]
    /\ UNCHANGED <<alive, strings, user, restore, lost>>

\* The user's metadata and the restore string stay.
clear(o) ==
    /\ o \in alive
    /\ strings' = Freed(o)
    /\ ptr' = [ptr EXCEPT ![o] = NoTexts]
    /\ num' = [num EXCEPT ![o] = NoNumbers]
    /\ told' = [told EXCEPT ![o] = Used]
    /\ UNCHANGED <<alive, user, restore, lost>>

\* Mutant of copy_from: the strings of the source are shared.
copy_from_shallow(d, s) ==
    /\ {d, s} \subseteq alive /\ d # s
    /\ strings' = Freed(d)
    /\ ptr' = [ptr EXCEPT ![d] = ptr[s]]
    /\ num' = [num EXCEPT ![d] = num[s]]
    /\ user' = [user EXCEPT ![d] = user[s]]
    /\ told' = [told EXCEPT ![d] = told[s]]
    /\ UNCHANGED <<alive, restore, lost>>

\* Every string is deleted and the source's copied; not the restore string.
copy_from(d, s) ==
    /\ {d, s} \subseteq alive /\ d # s
    /\ LET w == [f \in {f \in Texts : ptr[s][f] # NULL} |-> strings[ptr[s][f]]]
       IN  \E g \in New(Freed(d), DOMAIN w) :
              LET at == Over(g, NoTexts)
              IN  /\ ptr' = [ptr EXCEPT ![d] = at]
                  /\ strings' = Filled(Freed(d), at, w)
    /\ num' = [num EXCEPT ![d] = num[s]]
    /\ user' = [user EXCEPT ![d] = user[s]]
    /\ told' = [told EXCEPT ![d] = told[s]]
    /\ UNCHANGED <<alive, restore, lost>>

\* Mutant of move_from: what the target had of the user's metadata stays.
move_from_merge(d, s) ==
    /\ {d, s} \subseteq alive /\ d # s
    /\ strings' = Freed(d)
    /\ ptr' = [ptr EXCEPT ![d] = ptr[s], ![s] = NoTexts]
    /\ num' = [num EXCEPT ![d] = num[s]]
    /\ user' = [user EXCEPT
                  ![d] = [k \in Keys |-> IF user[s][k] = Absent THEN @[k]
                                         ELSE user[s][k]],
                  ![s] = NoUser]
    /\ told' = [told EXCEPT ![d] = told[s], ![s] = Used]
    /\ UNCHANGED <<alive, restore, lost>>

\* The strings change hands; the source keeps its numbers, and each its
\* restore string.
move_from(d, s) ==
    /\ {d, s} \subseteq alive /\ d # s
    /\ strings' = Freed(d)
    /\ ptr' = [ptr EXCEPT ![d] = ptr[s], ![s] = NoTexts]
    /\ num' = [num EXCEPT ![d] = num[s]]
    /\ user' = [user EXCEPT ![d] = user[s], ![s] = NoUser]
    /\ told' = [told EXCEPT ![d] = told[s], ![s] = Used]
    /\ UNCHANGED <<alive, restore, lost>>

\* The destructor calls clear(), and with the object its members go, the
\* pointer to the restore string among them and not the string.
Destroy(o) ==
    /\ o \in alive
    /\ alive' = alive \ {o}
    /\ strings' = Freed(o)
    /\ ptr' = [ptr EXCEPT ![o] = NoTexts]
    /\ num' = [num EXCEPT ![o] = NoNumbers]
    /\ user' = [user EXCEPT ![o] = NoUser]
    /\ restore' = [restore EXCEPT ![o] = NULL]
    /\ lost' = lost \cup ({restore[o]} \ {NULL})
    /\ told' = [told EXCEPT ![o] = Fresh]

\* A call on o alone, and one that takes another object too.
CallOn(o) ==
    \/ Construct(o) \/ SetByCaller(o) \/ clear(o) \/ Destroy(o)
    \/ \E h \in Headers : set_by_header(o, h)

MetaNext ==
    \/ \E o \in Obj : CallOn(o)
    \/ \E d, s \in Obj : copy_from(d, s) \/ move_from(d, s)

MetaSpec == MetaInit /\ [][MetaNext]_metaVars

-------------------------------------------------------------------------------
\* What an object tells of its texts, numbers and user metadata.  The restore
\* status is left out: no copy or move takes it along.
Tells(o) == <<[f \in Texts |-> StringAt(o, f)], num[o], user[o]>>

(***************************************************************************)
(* Each string has one owner, in whatever order objects are set, copied,   *)
(* moved and destroyed: no pointer of any object is to freed memory or to  *)
(* a string another pointer names, so that none is freed twice, used after *)
(* it is freed or shared.  And what is left in memory without a pointer is *)
(* exactly the restore strings of objects that were destroyed              *)
(* (object_meta_data.h:41-70, :87-89, :220-236): these the code does leak, *)
(* and nothing else.                                                       *)
(***************************************************************************)
OneOwner ==
    LET Named == {p \in Obj \X Texts : ptr[p[1]][p[2]] # NULL}
        Held == {ptr[p[1]][p[2]] : p \in Named}
        Restores == {restore[o] : o \in Obj} \ {NULL}
    IN  /\ \A p, q \in Named : ptr[p[1]][p[2]] = ptr[q[1]][q[2]] => p = q
        /\ \A o, q \in Obj : restore[o] = restore[q] => o = q \/ restore[o] = NULL
        /\ Held \cap (Restores \cup lost) = {} /\ Restores \cap lost = {}
        /\ Held \cup Restores \cup lost = {c \in Cell : strings[c] # Absent}

(***************************************************************************)
(* An object is a value: a call changes what is told by the objects it is  *)
(* made on and by no other, whatever they were copied or moved from        *)
(* earlier.                                                                *)
(***************************************************************************)
StandAlone == [][\A o \in Obj :
    \/ Tells(o)' = Tells(o)
    \/ CallOn(o)
    \/ \E s \in Obj : copy_from(o, s) \/ move_from(o, s) \/ move_from(s, o)]_metaVars

(***************************************************************************)
(* What the caller gets is what the reply says: an object that was set     *)
(* from one reply, or copied or moved from such an object into one with    *)
(* any past, tells that reply's values and nothing of its own past         *)
(* (client.cpp:262, :468).                                                 *)
(***************************************************************************)
SeesReply == \A o \in Obj : ~told[o].used =>
    LET h == told[o].reply
        texts == Over(Only(h, Texts), NoTexts)
    IN  Tells(o) = << texts,
                      NumbersOf(NoNumbers, texts["content-range"], h),
                      Over(Only(h, Keys), NoUser) >>

-------------------------------------------------------------------------------
(***************************************************************************)
(* The inductive invariant behind the properties above: the variables hold *)
(* values of their types, and an object that does not exist has no         *)
(* pointers.                                                               *)
(***************************************************************************)
Text == Values \cup UNION {{h[n] : n \in DOMAIN h} : h \in Headers}

MetaTypes ==
    /\ alive \subseteq Obj
    /\ ptr \in [Obj -> [Texts -> Cell \cup {NULL}]]
    /\ strings \in [Cell -> Text \cup {Absent}]
    /\ DOMAIN num = Obj
    /\ user \in [Obj -> [Keys -> Text \cup {Absent}]]
    /\ restore \in [Obj -> Cell \cup {NULL}]
    /\ lost \subseteq Cell
    /\ told \in [Obj -> [used : BOOLEAN, reply : Headers \cup {NoReply}]]

NothingLeft == \A o \in Obj \ alive : ptr[o] = NoTexts /\ restore[o] = NULL

MetaInv == MetaTypes /\ NothingLeft /\ OneOwner /\ SeesReply

===============================================================================
