-------------------------- MODULE MCHourlyBilling --------------------------
EXTENDS HourlyBilling

\* VMs of one size: their debits look alike to createInvoice.
MCCost == [v \in Vms |-> 1]
=============================================================================
