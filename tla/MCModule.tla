------------------------------ MODULE MCModule ------------------------------
(***************************************************************************)
(* Instances of CDDModule for TLC: how many minors, and which calls fail.  *)
(***************************************************************************)
EXTENDS CDDModule

TwoMinors == 0 .. 1
FourMinors == 0 .. 3

(* Any call of CDD_init but those of /proc, or those of /proc.              *)
LoadOrProcFails ==
    {{"register_chrdev_region", "kmalloc", "kmem_cache_create", "cdev_add"},
     {"proc_mkdir", "proc_create"}}
=============================================================================
