------------------------------ MODULE TypeKeys ------------------------------
(***************************************************************************)
(* The keys by which binaries recognise each other's types (core/hash.hpp, *)
(* and the TypeHash of the anchored types in universal_anchor.hpp,         *)
(* dense_index.hpp and tensor_arena.hpp).  A key is a hash of the text     *)
(* that a macro was given, or a mix of such hashes.                        *)
(*                                                                         *)
(* A text is a sequence of characters, which are numbers; the fixed parts  *)
(* of the texts the macros compose are one character each.  Words have     *)
(* Width bits, 64 in the code.                                             *)
(***************************************************************************)
EXTENDS Platform, SequencesExt

CONSTANTS
  Width,
  Fnv1aBaseline, Fnv1aPrime,
  DirectorySalt,  \* 0x5a3c75939a3779b9
  ArenaSalt       \* 0x9e3779b97f4a7c15

Modulus == Bit[Width]
Word == 0 .. Modulus - 1

(* A word holds a character.                                               *)
ASSUME KeysAssumption ==
  /\ Width \in Nat /\ Width >= 8
  /\ {Fnv1aBaseline, Fnv1aPrime, DirectorySalt, ArenaSalt} \subseteq Word
  /\ Fnv1aPrime % 2 = 1

(* The characters with a meaning of their own.                             *)
Colon == 58
Populator == 2  \* "crg::discovery::DomainArenaPopulator<"
Star == 3       \* ">*", of a pointer to a populator
Close == 4      \* ">"
Vec == 5        \* "vec_", of the vector of populators

GlobalNamespace == <<Colon, Colon>>

(* ^ on words.  A function and not Bitwise's recursive operator, so that   *)
(* the keys below are constants which TLC computes once.                   *)
BitXor[x \in Word] ==
  [y \in Word |->
     IF x = 0 THEN y ELSE ((x + y) % 2) + 2 * BitXor[x \div 2][y \div 2]]

Fnv1a(hash, c) == (BitXor[hash][c] * Fnv1aPrime) % Modulus

HashString(text) == FoldLeft(Fnv1a, Fnv1aBaseline, text)

RemoveLeadingGlobalNamespace(text) ==
  IF IsPrefix(GlobalNamespace, text) THEN SubSeq(text, 3, Len(text)) ELSE text

(* CRG_DECLARE_HASH, CRG_DECLARE_MODEL.                                    *)
TypeHash(text) == HashString(RemoveLeadingGlobalNamespace(text))

(* CRG_DECLARE_UNIVERSAL_NODE_ANCHOR of a domain's populators: the hashes  *)
(* of the chain head's type and of the cache's.  The domain is named as it *)
(* was spelled: only the first "::" of the whole text is removed.          *)
PopulatorText(domain) == GlobalNamespace \o <<Populator>> \o domain
HeadHash(domain) == TypeHash(PopulatorText(domain) \o <<Star>>)
CacheHash(domain) == TypeHash(<<Vec>> \o PopulatorText(domain) \o <<Close>>)

(* TypeHash<DenseIndexState<TDomain>>.                                     *)
DirectoryHash(domain) == BitXor[TypeHash(domain)][DirectorySalt]

(* Mutant: the two hashes change places. *)
MixSwapped(d, c) ==
  BitXor[c][(d + ArenaSalt + c * 64 + (c \div 4)) % Modulus]

(* TypeHash<TensorArenaStorage<TDomain, TContract>>, of the hashes of both.*)
Mix(d, c) ==
  BitXor[d][(c + ArenaSalt + d * 64 + (d \div 4)) % Modulus]

ArenaHash(domain, contract) == Mix(TypeHash(domain), TypeHash(contract))
=============================================================================
