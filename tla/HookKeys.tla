------------------------------- MODULE HookKeys -------------------------------
(***************************************************************************)
(* The key a native hook or an original call is scoped by: an authenticated*)
(* image, a generation of its modules and a guest address.  An image is a  *)
(* model value; the all-zero SHA-256 is the one that is not authenticated. *)
(***************************************************************************)
EXTENDS Naturals

CONSTANTS
    Images,
    ZeroImage,       \* the digest of 32 zero bytes
    Generations,     \* module generations
    Addresses        \* guest addresses

ASSUME KeyAssumption ==
    /\ ZeroImage \in Images
    /\ 0 \in Generations
    /\ 0 \in Addresses
    /\ Addresses \subseteq Nat

HookKey == [image : Images, module_generation : Generations, address : Addresses]

\* HookKey{}, which is not valid.
DefaultKey == [image |-> ZeroImage, module_generation |-> 0, address |-> 0]

is_authenticated(image) == image # ZeroImage

is_valid(key) ==
    /\ is_authenticated(key.image)
    /\ key.address # 0
    /\ key.address % 4 = 0
=============================================================================
