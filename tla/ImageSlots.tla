------------------------------ MODULE ImageSlots ------------------------------
(***************************************************************************)
(* The two application partitions of partitions_esp32.csv as               *)
(* ota_service.c leaves them and the bootloader finds them, with           *)
(* CONFIG_BOOTLOADER_APP_ROLLBACK_ENABLE.  An image that is booted for the *)
(* first time is on trial; unless it is marked valid the next restart      *)
(* aborts it and goes back to the other slot.                              *)
(***************************************************************************)
EXTENDS Integers

CONSTANTS
    Versions,         \* versions of the images that exist, in the order of strcmp
    ShippedVersion,   \* the one in slot 0 when the node is shipped
    Broken            \* images that crash before they have found the home node

ASSUME ImageAssumption ==
    /\ Versions \subseteq Nat \ {0}
    /\ Broken \subseteq Versions
    /\ ShippedVersion \in Versions \ Broken

VARIABLES
    slots,            \* of each slot, the version in it (0: no whole image) and its state
    running           \* the slot that runs

images == <<slots, running>>

ImageStates == {"UNDEFINED", "PENDING_VERIFY", "VALID", "ABORTED"}
Images == [version : Versions \cup {0}, state : ImageStates]

Spare == 1 - running                        \* esp_ota_get_next_update_partition
Version == slots[running].version
OnTrial == slots[running].state = "PENDING_VERIFY"
Bootable(s) == slots[s].version # 0 /\ slots[s].state # "ABORTED"

Shipped ==
    /\ slots = [s \in {0, 1} |->
                  [version |-> IF s = 0 THEN ShippedVersion ELSE 0, state |-> "UNDEFINED"]]
    /\ running = 0

(* The bootloader's choice at a restart. *)
Bootload ==
    IF OnTrial
    THEN /\ slots' = [slots EXCEPT ![running].state = "ABORTED"]
         /\ running' = IF Bootable(Spare) THEN Spare ELSE running
    ELSE UNCHANGED images

(* Mutant: the image is not marked. *)
ota_set_valid_never == UNCHANGED images

(* ota_set_valid(true), the only call of it. *)
ota_set_valid ==
    /\ slots' = [slots EXCEPT ![running].state = IF OnTrial THEN "VALID" ELSE @]
    /\ UNCHANGED running

(* Mutant: any other version counts as newer. *)
is_firmware_updated_if_other(v) == v # Version

(* strcmp(running, new) < 0: a version is numbered by its place in the     *)
(* order of strcmp, where "1.10.0" comes before "1.9.0".                   *)
is_firmware_updated(v) == v > Version

(* A version whose image has been spoilt since is not recognised. *)
is_it_last_invalid_app(v) == slots[Spare] = [version |-> v, state |-> "ABORTED"]

(* esp_ota_begin refuses while the running image is on trial. *)
MayInstall(v) ==
    /\ is_firmware_updated(v)
    /\ ~is_it_last_invalid_app(v)
    /\ ~OnTrial

(* An update that began and failed, or was cut off.  esp_ota_begin knows no *)
(* version: a header that was read out of the middle of a file gets here.  *)
SpoilSpare ==
    /\ ~OnTrial
    /\ slots' = [slots EXCEPT ![Spare].version = 0]
    /\ UNCHANGED running

(* esp_ota_end, esp_ota_set_boot_partition and the restart into the image. *)
Install(v) ==
    /\ MayInstall(v)
    /\ slots' = [slots EXCEPT ![Spare] = [version |-> v, state |-> "PENDING_VERIFY"]]
    /\ running' = Spare
===============================================================================
