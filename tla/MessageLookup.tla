--------------------------- MODULE MessageLookup ---------------------------
(***************************************************************************)
(* How the server looks up what a device announces: the table of service   *)
(* converters, keyed by replace_colon() of their C++ names, and the        *)
(* description files in which lookupMessage() finds the hash of a type     *)
(* (msg_lookup.cpp, services.h, the constructors in topic_handlers.h).     *)
(* A name is the sequence of its words and separators.  The hash decides   *)
(* about a warning only, the converter about whether a service works.      *)
(***************************************************************************)
EXTENDS Integers, Sequences, SequencesExt

CONSTANTS
  Words,          \* what the parts of a name are made of
  MaxTokens,      \* bound on the length of a name
  Descriptions,   \* the description files, see Described
  ConverterTypes  \* C++ names for which createConversionMap() has a converter

Separators == {"/", "::"}
Names == UNION {[1 .. n -> Words \cup Separators] : n \in 0 .. MaxTokens}

\* A description is [of, long, hashes]: of, the package, interface type and type
\* name that make its path; long, whether it is longer than the read buffer; hashes,
\* the suffixes with which its type_hashes names the type.
Described(parts) == {d \in Descriptions : d.of = parts}

VARIABLE lookup   \* [stage, kind, name, half, md5, converter, info, warned]

NoLookup == [stage |-> "idle"]
LookupInit == lookup = NoLookup

replace_colon(interface_type) ==
  [i \in DOMAIN interface_type |->
     IF interface_type[i] = "::" THEN "/" ELSE interface_type[i]]

\* ADD_MAP_ENTRY for every type.
services_map == {replace_colon(t) : t \in ConverterTypes}

\* The parts between the slashes, a last one only if it is not empty.
split(str) ==
  LET Step(s, c) == IF c = "/" THEN [fields |-> Append(s.fields, s.field), field |-> <<>>]
                    ELSE [s EXCEPT !.field = Append(@, c)]
      end == FoldLeft(Step, [fields |-> <<>>, field |-> <<>>], str)
  IN  IF end.field # <<>> THEN Append(end.fields, end.field) ELSE end.fields

Empty == <<>>
Exception == <<"exception">>
Abort == <<"abort">>
Other == <<"other">>   \* a hash of the device that is not the installed one

\* The hash, which stands here for the type and suffix it is of; Empty; an
\* exception: split() throws when there are not three parts, and the package
\* index when the package's name is empty; or the end of the program: the file is
\* closed before it is parsed, so of a long one there is only what the buffer
\* holds, no document comes of it and the access to its type_hashes asserts.  (A
\* build with NDEBUG has no assertions, and undefined behaviour there.)
lookupMessage(interface_name, suffix) ==
  LET parts == split(interface_name) IN
  IF Len(SelectSeq(interface_name, LAMBDA c : c = "/")) # 2 THEN Empty
  ELSE IF Len(parts) # 3 \/ parts[1] = <<>> THEN Exception
  ELSE IF \E d \in Described(parts) : d.long THEN Abort
  ELSE IF \E d \in Described(parts) : suffix \in d.hashes THEN <<parts, suffix>>
  ELSE Empty

\* What a constructor keeps of a look-up; it catches what lookupMessage() throws.
md5sum(interface_name, suffix) ==
  LET info == lookupMessage(interface_name, suffix)
  IN  IF info = Exception THEN Empty ELSE info

\* Publisher() and Subscriber(): a hash that was not found is not compared.
SetupTopic(name, md5) ==
  LET info == md5sum(name, "")
  IN  lookup' = [stage |-> IF info = Abort THEN "aborted" ELSE "set up",
                 kind |-> "topic", name |-> name, half |-> "", md5 |-> md5,
                 info |-> info, warned |-> info # Empty /\ info # md5, converter |-> FALSE]

\* ServiceClient() and ServiceServer() with their setup handlers, for one half
\* of the service: without a converter nothing is looked up, and the hash that
\* is not there is compared all the same.
SetupService(name, half, md5) ==
  LET valid == name \in services_map
      info == IF valid THEN md5sum(name, half) ELSE Empty
  IN  lookup' = [stage |-> IF info = Abort THEN "aborted" ELSE "set up",
                 kind |-> "service", name |-> name, half |-> half, md5 |-> md5,
                 info |-> info, warned |-> info # md5, converter |-> valid]

LookupNext ==
  /\ lookup = NoLookup
  /\ \E name \in Names :
       \/ \E md5 \in {Other, <<split(name), "">>} : SetupTopic(name, md5)
       \/ \E half \in {"_Request", "_Response"} :
            \E md5 \in {Other, <<split(name), half>>} : SetupService(name, half, md5)

\* a / b / c, each of one or more words.
Proper(name) ==
  \E i, j \in DOMAIN name :
    /\ 1 < i /\ i + 1 < j /\ j < Len(name)
    /\ {k \in DOMAIN name : name[k] = "/"} = {i, j}

\* The parts of a proper name.
Parts(name) ==
  LET i == CHOOSE i \in DOMAIN name : name[i] = "/" /\ \A k \in 1 .. i - 1 : name[k] # "/"
      j == CHOOSE j \in DOMAIN name : name[j] = "/" /\ j > i
  IN  <<SubSeq(name, 1, i - 1), SubSeq(name, i + 1, j - 1), SubSeq(name, j + 1, Len(name))>>

(* A hash is found exactly for the proper name of a type whose description  *)
(* has it, so a malformed name is never taken for another type, and only    *)
(* the proper name of a type with a long description ends the server.  A    *)
(* device with the same definition of a topic, or of a service that has a   *)
(* converter and a hash, is not warned about; one with another definition   *)
(* of a topic always is, if the hash is there, and of a service in any case.*)
(* A service finds its converter under the name that the device uses for    *)
(* the C++ type.                                                            *)
NamesResolved ==
  lookup # NoLookup =>
    LET described == {d \in Descriptions : Proper(lookup.name) /\ d.of = Parts(lookup.name)}
        short == \A d \in described : ~d.long
        known == short /\ \E d \in described : lookup.half \in d.hashes
    IN
    /\ lookup.stage = "aborted" <=> ~short /\ (lookup.kind = "service" => lookup.converter)
    /\ lookup.kind = "topic" /\ short => /\ lookup.info # Empty <=> known
                                         /\ lookup.warned <=> known /\ lookup.md5 = Other
    /\ lookup.kind = "service" =>
         /\ lookup.converter <=> \E t \in ConverterTypes :
              Proper(lookup.name)
              /\ t = Parts(lookup.name)[1] \o <<"::">> \o Parts(lookup.name)[2]
                     \o <<"::">> \o Parts(lookup.name)[3]
         /\ lookup.stage = "set up" =>
              (lookup.warned <=> lookup.md5 = Other \/ ~known \/ ~lookup.converter)
============================================================================
