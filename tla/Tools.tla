------------------------------- MODULE Tools -------------------------------
(***************************************************************************)
(* The tools of the assistant (admin_ai/tools.py): which rows each one     *)
(* finds by an id it is sent, which rows it writes and in what order, and  *)
(* how it is bound to a store.  What it formats and returns is left out.   *)
(***************************************************************************)
EXTENDS Sequences

\* scope: "read" reads the store it resolves; "write" needs an acting store.  The others run across
\* stores, for the managers restrict nothing once the request is forgotten: "every" reads all stores
\* or a named one, "log" the acting one before all, "named" writes in the store of the row it is sent
\* the id of; "platform" touches no row of a store that exists.  finds: kinds of rows looked up by an
\* id.  writes: rows saved, in order.  whole: they are one transaction, so that all are made or none.
Kind(scope, finds, writes, whole) == [scope |-> scope, finds |-> finds, writes |-> writes, whole |-> whole]

PlatformWide(writes) == Kind("platform", {}, writes, FALSE)
Across(scope) == Kind(scope, {}, <<>>, TRUE)
Named(finds, writes) == Kind("named", finds, writes, FALSE)
Read(finds) == Kind("read", finds, <<>>, TRUE)
Write(finds, writes) == Kind("write", finds, writes, FALSE)
InOne(tool) == [tool EXCEPT !.whole = TRUE]

----------------------------------------------------------------------------
(* Platform reads. *)

GetCurrentContext == PlatformWide(<<>>)
ListStores == Across("every")
ListAdminUsers == PlatformWide(<<>>)
ListSubscriptionPlans == PlatformWide(<<>>)
ListSubscriptions == Across("every")
GetActivityLog == Across("log")
SearchKnowledgeBase == PlatformWide(<<>>)

(* Reads of one store. *)

GetStoreInfo == Read({})
GetStoreStats == Read({})
ListBranches == Read({})
ListProducts == Read({})
GetProductDetail == Read({"Product"})
ListCategories == Read({})
ListAttributes == Read({})
ListSuppliers == Read({})
GetSupplierDetail == Read({"Supplier"})
ListCustomers == Read({})
GetCustomerDetail == Read({"Customer"})
ListStaff == Read({})
ListInvoices == Read({})
ListPurchases == Read({})
ListExpenses == Read({})
ListStockAdjustments == Read({})

(* Platform writes: a new store, or a row of whatever store. *)

CreateStore == InOne(PlatformWide(<<"User", "Store", "StoreSettings", "User", "Address", "Branch">>))
UpdateStore == Named({"Store"}, <<"Store">>)
ToggleStoreActive == Named({"Store"}, <<"Store">>)
UpdateBranch == Named({"Branch"}, <<"Branch", "Address">>)
UpdateSubscriptionPlan == Kind("platform", {"SubscriptionPlan"}, <<"SubscriptionPlan">>, FALSE)
UpdateSubscription == Named({"Subscription", "SubscriptionPlan"}, <<"Subscription">>)

(* Writes in the acting store. *)

CreateCategory == Write({"Category"}, <<"Category">>)
UpdateCategory == Write({"Category"}, <<"Category">>)
CreateAttribute == Write({}, <<"AttributeDefinition">>)
UpdateAttribute == Write({"AttributeDefinition"}, <<"AttributeDefinition">>)
BulkUpdateAttributeValue ==
  InOne(Write({"AttributeDefinition"}, <<"AttributeDefinition", "ProductAttribute">>))
CreateSupplier == Write({}, <<"Supplier">>)
UpdateSupplier == Write({"Supplier"}, <<"Supplier">>)
CreateCustomer == Write({}, <<"Customer">>)
UpdateCustomer == Write({"Customer"}, <<"Customer">>)
CreateProduct == InOne(Write({"Category", "Supplier", "Tax"}, <<"Product", "ProductVariant">>))
UpdateProduct == Write({"Product", "Category", "Supplier", "Tax"}, <<"Product">>)
CreateStaffUser == Write({}, <<"User">>)
UpdateStaffUser == Write({"User"}, <<"User">>)
DeactivateStaffUser == Write({"User"}, <<"User">>)
CreatePurchaseInvoice ==
  InOne(Write({"Supplier", "Branch", "ProductVariant"}, <<"PurchaseInvoice", "PurchaseItem">>))
ReceivePurchase == Write({"PurchaseInvoice"}, <<"StockLevel", "PurchaseInvoice">>)
CreateSalesInvoice ==
  InOne(Write({"Branch", "Customer", "ProductVariant"},
              <<"SalesInvoice", "SalesInvoiceItem", "SalesInvoice", "StockLevel", "SalesInvoice">>))
CreateExpense == Write({"Branch", "ExpenseCategory"}, <<"Expense">>)
CreateStockAdjustment == InOne(Write({"ProductVariant", "Branch"}, <<"StockAdjustment", "StockLevel">>))
SendInAppNotification == Write({"User"}, <<"Notification">>)

----------------------------------------------------------------------------
(* The registry, in the groups in which the router offers the tools. *)

AlwaysOn == {GetCurrentContext, ListStores, GetStoreInfo, GetStoreStats, GetActivityLog, SearchKnowledgeBase}

InventoryTools ==
  {ListBranches, UpdateBranch, ListProducts, GetProductDetail, ListCategories, CreateCategory,
   UpdateCategory, ListAttributes, CreateAttribute, UpdateAttribute, BulkUpdateAttributeValue,
   ListSuppliers, GetSupplierDetail, CreateSupplier, UpdateSupplier, ListStockAdjustments,
   CreateStockAdjustment, CreateProduct, UpdateProduct}

FinanceTools ==
  {ListInvoices, ListPurchases, ListExpenses, CreatePurchaseInvoice, ReceivePurchase,
   CreateSalesInvoice, CreateExpense}

PeopleTools ==
  {ListCustomers, GetCustomerDetail, CreateCustomer, UpdateCustomer, ListStaff, CreateStaffUser,
   UpdateStaffUser, DeactivateStaffUser}

PlatformTools ==
  {ListAdminUsers, ListSubscriptionPlans, ListSubscriptions, CreateStore, UpdateStore,
   ToggleStoreActive, UpdateSubscriptionPlan, UpdateSubscription, SendInAppNotification}

Groups == {InventoryTools, FinanceTools, PeopleTools, PlatformTools}
Registry == AlwaysOn \cup UNION Groups
=============================================================================
